--------------------------- MODULE DriverLifecycle ---------------------------
(***************************************************************************)
(* Loading and removing the card's driver (dev_driver_init, dev_driver_exit*)
(* and resource_cleanup of driver.c), with users that open the device at   *)
(* any time.  CardDriver starts where this module says "live".             *)
(*                                                                         *)
(* The module is in the kernel before dev_driver_init returns, and the     *)
(* device has its name before its queue exists: users may call it then.    *)
(* A step that fails goes to resource_cleanup, which takes everything for  *)
(* granted.  An access through a null pointer (an oops) kills the caller;  *)
(* when the caller is insmod or rmmod the module can never be removed.     *)
(***************************************************************************)
EXTENDS FiniteSets

CONSTANT Users   \* processes that use the device

VARIABLES
  mpc, caller,   \* insmod or rmmod: where it is, and which
  failed,        \* a step of this load has failed
  held,          \* what this load of the module has in the kernel
  tpc,           \* the kernel thread
  upc,           \* users: where they are
  early, late    \* history: users that called before the load had ended, and
                 \* users whose open met the freed cdev of an earlier load

loader == <<mpc, caller, failed>>
users  == <<upc, early, late>>
vars   == <<loader, held, tpc, users>>

Resources == {"dev", "region", "cdev", "class", "device", "buff", "queue",
              "thread"}

-----------------------------------------------------------------------------
Init ==
  /\ mpc = "unloaded" /\ caller = "exit" /\ failed = FALSE
  /\ held = {}
  /\ tpc = "none"
  /\ upc = [u \in Users |-> "out"] /\ early = {} /\ late = {}

MMove(from, to) == mpc = from /\ mpc' = to

-----------------------------------------------------------------------------
(* dev_driver_init.  Until a step is done, mpc names what it acquires.     *)

Acquire(r, next) ==
  /\ MMove(r, next)
  /\ held' = held \union {r}
  /\ UNCHANGED <<caller, failed, tpc, users>>

ILoad ==
  /\ MMove("unloaded", "dev")
  /\ caller' = "init" /\ failed' = FALSE
  /\ UNCHANGED <<held, tpc, users>>

IDev == Acquire("dev", "region")

\* -ENOMEM: the module is not loaded.
INoMemory ==
  /\ MMove("dev", "unloaded")
  /\ failed' = TRUE
  /\ UNCHANGED <<caller, held, tpc, users>>

IRegion == Acquire("region", "cdev")
ICdev   == Acquire("cdev", "class")
IClass  == Acquire("class", "device")
IDevice == Acquire("device", "buff")
IBuff   == Acquire("buff", "queue")

IQueue == Acquire("queue", "thread")

\* The thread is created and woken, and dev_driver_init returns 0.
IThread ==
  /\ MMove("thread", "live")
  /\ held' = held \union {"thread"} /\ tpc' = "ready"
  /\ UNCHANGED <<caller, failed, users>>

\* Mistake: the error pointer is kept for a thread.
IThreadKeepsError ==
  /\ MMove("thread", "live")
  /\ held' = held \union {"thread"} /\ tpc' = "error" /\ failed' = TRUE
  /\ UNCHANGED <<caller, users>>

\* kthread_create fails with an error pointer, which is not NULL, and which
\* wake_up_process then follows.
IThreadFails ==
  /\ MMove("thread", "stuck")
  /\ failed' = TRUE
  /\ UNCHANGED <<caller, held, tpc, users>>

\* goto failed.
IFails ==
  /\ mpc \in {"region", "cdev", "class", "device", "buff"}
  /\ mpc' = "cleanup" /\ failed' = TRUE
  /\ UNCHANGED <<caller, held, tpc, users>>

Load ==
  \/ ILoad \/ IDev \/ INoMemory \/ IRegion \/ ICdev \/ IClass \/ IDevice
  \/ IBuff \/ IQueue \/ IThread \/ IThreadFails \/ IFails

-----------------------------------------------------------------------------
(* dev_driver_exit and resource_cleanup.                                   *)

InUse == \E u \in Users : upc[u] \in {"open", "calling", "hung"}

\* Mistake: nobody counts the open descriptors.
XExitAnyTime ==
  /\ MMove("live", IF "dev" \in held THEN "cleanup" ELSE "unloaded")
  /\ caller' = "exit"
  /\ UNCHANGED <<failed, held, tpc, users>>

\* rmmod. The kernel refuses while a descriptor is open.
XExit ==
  /\ ~InUse
  /\ MMove("live", IF "dev" \in held THEN "cleanup" ELSE "unloaded")
  /\ caller' = "exit"
  /\ UNCHANGED <<failed, held, tpc, users>>

\* Mistake: without a wait queue there is nothing to clean up.
CWakeSkips ==
  /\ MMove("cleanup", IF "queue" \in held THEN "stop" ELSE
                      IF caller = "init" THEN "live" ELSE "unloaded")
  /\ UNCHANGED <<caller, failed, held, tpc, users>>

\* Wake w_wait: an oops when nobody has initialised it.
CWake ==
  /\ MMove("cleanup", IF "queue" \in held THEN "stop" ELSE "stuck")
  /\ UNCHANGED <<caller, failed, held, tpc, users>>

\* kthread_stop: an oops when there is no thread; it raises the flag ...
CStop ==
  /\ MMove("stop", IF "thread" \in held THEN "join" ELSE "stuck")
  /\ UNCHANGED <<caller, failed, held, tpc, users>>

\* Mistake: the flag is raised, and that is all.
CJoinAtOnce ==
  /\ MMove("join", "put_device")
  /\ held' = held \ {"thread"}
  /\ UNCHANGED <<caller, failed, tpc, users>>

\* ... and waits for the thread.
CJoin ==
  /\ tpc = "exited" /\ tpc' = "none"
  /\ MMove("join", "put_device")
  /\ held' = held \ {"thread"}
  /\ UNCHANGED <<caller, failed, users>>

Release(from, r, next) ==
  /\ MMove(from, next)
  /\ held' = held \ {r}
  /\ UNCHANGED <<caller, failed, tpc, users>>

CDevice == Release("put_device", "device", "put_class")
CClass  == Release("put_class", "class", "put_region")
CRegion == Release("put_region", "region", "put_buff")

CBuff == Release("put_buff", "buff", "free")

\* kfree of the structure that holds the cdev, which nobody has unregistered:
\* names found before lead to freed memory now. After a failed step
\* dev_driver_init would return 0 here.
CFree ==
  /\ MMove("free", IF caller = "init" THEN "live" ELSE "unloaded")
  /\ held' = held \ {"dev", "cdev", "queue"}
  /\ upc' = [u \in Users |-> IF upc[u] = "found" THEN "lost" ELSE upc[u]]
  /\ UNCHANGED <<caller, failed, tpc, early, late>>

Unload ==
  \/ XExit \/ CWake \/ CStop \/ CJoin \/ CDevice \/ CClass \/ CRegion
  \/ CBuff \/ CFree

-----------------------------------------------------------------------------
(* The kernel thread, as far as its life goes.                             *)

TRun ==
  /\ tpc = "ready" /\ tpc' = "running"
  /\ UNCHANGED <<loader, held, users>>

\* It has seen the flag; one that never ran does not start.
TQuit ==
  /\ mpc = "join"
  /\ tpc \in {"ready", "running"} /\ tpc' = "exited"
  /\ UNCHANGED <<loader, held, users>>

-----------------------------------------------------------------------------
(* Users.                                                                  *)

UMove(u, from, to) == upc[u] = from /\ upc' = [upc EXCEPT ![u] = to]

\* open(): the name is looked up ...
UFind(u) ==
  /\ "device" \in held
  /\ UMove(u, "out", "found")
  /\ UNCHANGED <<loader, held, tpc, early, late>>

\* ... and its number then, in the table of cdevs. A module that is being
\* removed lets nobody in any more.
UOpen(u) ==
  /\ "cdev" \in held /\ upc[u] \in {"found", "lost"}
  /\ upc' = [upc EXCEPT ![u] = IF caller = "init" THEN "open" ELSE "out"]
  /\ UNCHANGED <<loader, held, tpc, early, late>>

\* A name of an earlier load leads to the freed cdev: by its number, unless
\* there is a newer one, or because somebody opened that name before.
UOpenFreed(u) ==
  /\ UMove(u, "lost", "out") \/ UMove(u, "lost", "dead")
  /\ late' = late \union {u}
  /\ UNCHANGED <<loader, held, tpc, early>>

\* dev_driver_init has returned, whatever it has done.
Loaded == mpc = "live" \/ caller = "exit"

\* poll, read, or write of a command that wakes somebody.
UCall(u) ==
  /\ UMove(u, "open", "calling")
  /\ early' = IF Loaded THEN early ELSE early \union {u}
  /\ UNCHANGED <<loader, held, tpc, late>>

\* An uninitialised mutex may never be had; an uninitialised wait queue kills
\* who uses it, and closes his descriptor.
UMeetsNoQueue(u) ==
  /\ "queue" \notin held
  /\ UMove(u, "calling", "hung") \/ UMove(u, "calling", "dead")
  /\ UNCHANGED <<loader, held, tpc, early, late>>

UReturn(u) ==
  /\ "queue" \in held
  /\ UMove(u, "calling", "open")
  /\ UNCHANGED <<loader, held, tpc, early, late>>

UClose(u) ==
  /\ UMove(u, "open", "out")
  /\ UNCHANGED <<loader, held, tpc, early, late>>

User(u) ==
  \/ UFind(u) \/ UOpen(u) \/ UOpenFreed(u) \/ UCall(u)
  \/ UMeetsNoQueue(u) \/ UReturn(u) \/ UClose(u)

-----------------------------------------------------------------------------
Next == Load \/ Unload \/ TRun \/ TQuit \/ \E u \in Users : User(u)

Spec == Init /\ [][Next]_vars

-----------------------------------------------------------------------------
(* Properties.                                                             *)

MPcs == {"unloaded", "dev", "region", "cdev", "class", "device", "buff",
         "queue", "thread", "live", "stuck", "cleanup", "stop", "join",
         "put_device", "put_class", "put_region", "put_buff", "free"}

TypeOK ==
  /\ mpc \in MPcs /\ caller \in {"init", "exit"} /\ failed \in BOOLEAN
  /\ held \subseteq Resources
  /\ tpc \in {"none", "ready", "running", "exited"}
  /\ upc \in [Users -> {"out", "found", "lost", "open", "calling", "hung",
                        "dead"}]
  /\ early \subseteq Users /\ late \subseteq Users

\* dev_driver_init ends with "return 0" on its failure path as well (driver.c
\* 385). No load that has failed gets there: one that is loaded is whole.
LoadedIsWhole ==
  mpc = "live" => held = Resources /\ tpc \in {"ready", "running"}

\* resource_cleanup wakes a queue and stops a thread without asking whether
\* they are there (driver.c 264-265). Only a load with a failed step finds
\* them missing: the removal of a loaded module always goes through.
StuckOnlyAfterFailure == mpc = "stuck" => caller = "init" /\ failed

\* The memory is freed by whoever removes the module and used by the thread
\* without a lock: the thread never runs when any of it is gone.
ThreadHasItsMemory ==
  tpc \in {"ready", "running"} => {"dev", "buff", "queue"} \subseteq held

\* Nor does anybody with an open descriptor outlive the device structure, on
\* no path of loading, failing and removing.
DescriptorHasItsDevice ==
  \A u \in Users : upc[u] \in {"open", "calling", "hung"} => "dev" \in held

\* The name appears after, and goes before, everything that open needs.
NameLeadsToADevice ==
  "device" \in held => {"dev", "region", "cdev", "class"} \subseteq held

\* A user is killed, or blocked for ever, only in two gaps: calls between
\* device_create and the end of dev_driver_init (or after that has failed),
\* and opens that are overtaken by a whole removal.
UsersFailInTheGapsOnly ==
  \A u \in Users : upc[u] \in {"hung", "dead"} => u \in early \union late

\* Except for that cdev, a removal, and a load for which there is no memory,
\* leave nothing behind in the kernel.
NothingElseIsLeft == mpc = "unloaded" => held = {} /\ tpc = "none"

\* The three states the loader can rest in, after any sequence of loads,
\* failures and removals: whole, gone without a trace, or stuck by a failure.
RestsWholeOrGone == LoadedIsWhole /\ NothingElseIsLeft /\ StuckOnlyAfterFailure

\* And nobody uses memory of the driver that is gone.
MemoryOutlivesUsers ==
  ThreadHasItsMemory /\ DescriptorHasItsDevice /\ NameLeadsToADevice
=============================================================================
