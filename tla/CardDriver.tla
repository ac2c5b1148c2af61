----------------------------- MODULE CardDriver -----------------------------
(***************************************************************************)
(* The kernel driver of the acquisition card (driver.c): the kernel thread *)
(* that stands for the hardware fills a ring of QUEUE_DEPTH nodes, user    *)
(* processes read one node per read() when poll reports data, other users  *)
(* write START / STOP / SET_PARAMTER commands, and the module can be       *)
(* removed and loaded again.                                               *)
(*                                                                         *)
(* queue_mutex only ever protects a few assignments, so each locked region *)
(* is one step; everything between two locked regions, and every wake-up,  *)
(* is a step of its own and interleaves with the other actors.             *)
(***************************************************************************)
EXTENDS Naturals, Sequences

CONSTANTS
  QUEUE_DEPTH,  \* nodes in the ring
  Readers,      \* user threads that poll and read the device
  Commanders,   \* user threads that write commands to the device
  Samples,      \* what a filled node may hold
  Uninit        \* what a node holds after kmalloc: nothing was ever filled in

ASSUME DepthAssumption == QUEUE_DEPTH \in Nat /\ QUEUE_DEPTH >= 2
ASSUME SampleAssumption == Uninit \notin Samples

VARIABLES
  queue_head, queue_tail,  \* ring cursors: next node to fill, next to read
  node,                    \* contents of the ring nodes
  acquisition_action,      \* the last START_DAQ / STOP_DAQ command
  has_points,              \* ch_cnt * pt_cnt > 0: a fill writes something
  kpc, k,                  \* kernel thread: where it is, its local copies
  kstate,                  \* kernel thread: its task state
  should_stop,             \* kthread_stop has been called
  rpc, rtail, rbuf,        \* readers: where, local tail, user buffer
  ready,                   \* readers: fd is on the epoll ready list
  cpc,                     \* commanders: where they are
  xpc,                     \* life of the module
  delivered,               \* history: the packet of each reader's last read
  after_stop               \* history: packets published since STOP, up to 2

ring    == <<queue_head, queue_tail, node>>
control == <<acquisition_action, has_points, after_stop>>
kthread == <<kpc, k, kstate, should_stop>>
user    == <<rpc, rtail, rbuf, ready, delivered>>
vars    == <<ring, control, kthread, user, cpc, xpc>>

Slots   == 0 .. QUEUE_DEPTH - 1
Actions == {"START_DAQ", "STOP_DAQ"}
Packets == Samples \union {Uninit}

\* Mistake: the cursor is advanced without wrapping.
SuccNoWrap(i) == i + 1

Succ(i) == (i + 1) % QUEUE_DEPTH

Full(head, tail) == Succ(head) = tail

\* wake_up_interruptible and wake_up_process act on a sleeper only: a thread
\* that is still running, about to declare itself asleep, does not notice.
WakeKthread == kstate' = "RUNNING"

-----------------------------------------------------------------------------
KLocals == [head |-> 0, tail |-> 0, action |-> "STOP_DAQ"]

\* dev_driver_init, the path on which every allocation succeeds.
Init ==
  /\ queue_head = 0 /\ queue_tail = 0
  /\ node = [i \in Slots |-> Uninit]
  /\ acquisition_action = "STOP_DAQ" /\ has_points = FALSE
  /\ kpc = "load" /\ kstate = "RUNNING" /\ should_stop = FALSE
  /\ k = KLocals
  /\ xpc = "live" /\ after_stop = 0
  /\ rpc = [r \in Readers |-> "closed"]
  /\ rtail = [r \in Readers |-> 0]
  /\ rbuf = [r \in Readers |-> Uninit]
  /\ ready = [r \in Readers |-> FALSE]
  /\ cpc = [c \in Commanders |-> "idle"]
  /\ delivered = [r \in Readers |-> Uninit]

-----------------------------------------------------------------------------
(* The kernel thread data_acquisition_simulation. *)

KMove(from, to) == kpc = from /\ kpc' = to

\* Mistake: the head is not copied anew.
KLoadKeepsHead ==
  /\ KMove("load", "check")
  /\ k' = [k EXCEPT !.tail = queue_tail, !.action = acquisition_action]
  /\ UNCHANGED <<ring, control, kstate, should_stop, user, cpc, xpc>>

\* Mistake: once started, the command is not copied anew.
KLoadKeepsCommand ==
  /\ KMove("load", "check")
  /\ k' = [head |-> queue_head, tail |-> queue_tail,
           action |-> IF k.action = "START_DAQ" THEN k.action
                                                ELSE acquisition_action]
  /\ UNCHANGED <<ring, control, kstate, should_stop, user, cpc, xpc>>

\* Under the mutex: copy the cursors and the command to locals.
KLoad ==
  /\ KMove("load", "check")
  /\ k' = [head |-> queue_head, tail |-> queue_tail,
           action |-> acquisition_action]
  /\ UNCHANGED <<ring, control, kstate, should_stop, user, cpc, xpc>>

KQuit ==
  /\ should_stop
  /\ KMove("check", "exited")
  /\ UNCHANGED <<ring, control, k, kstate, should_stop, user, cpc, xpc>>

KDecideSleep ==
  /\ ~should_stop
  /\ Full(k.head, k.tail) \/ k.action # "START_DAQ"
  /\ KMove("check", "prepare")
  /\ UNCHANGED <<ring, control, k, kstate, should_stop, user, cpc, xpc>>

\* Mistake: the full test is left out.
KDecideFillAnyway ==
  /\ ~should_stop
  /\ k.action = "START_DAQ"
  /\ KMove("check", "fill")
  /\ UNCHANGED <<ring, control, k, kstate, should_stop, user, cpc, xpc>>

KDecideFill ==
  /\ ~should_stop
  /\ ~Full(k.head, k.tail) /\ k.action = "START_DAQ"
  /\ KMove("check", "fill")
  /\ UNCHANGED <<ring, control, k, kstate, should_stop, user, cpc, xpc>>

\* __set_current_state(TASK_INTERRUPTIBLE): nothing is looked at again.
KPrepare ==
  /\ KMove("prepare", "schedule")
  /\ kstate' = "INTERRUPTIBLE"
  /\ UNCHANGED <<ring, control, k, should_stop, user, cpc, xpc>>

\* schedule() returns once somebody has made the thread runnable again.
KSchedule ==
  /\ kstate = "RUNNING"
  /\ KMove("schedule", "load")
  /\ UNCHANGED <<ring, control, k, kstate, should_stop, user, cpc, xpc>>

\* The fill loop, outside the mutex. With no points or no channels it leaves
\* the node as it was.
KFill ==
  /\ KMove("fill", "publish")
  /\ IF has_points
     THEN \E s \in Samples : node' = [node EXCEPT ![k.head] = s]
     ELSE UNCHANGED node
  /\ UNCHANGED <<queue_head, queue_tail, control, k, kstate, should_stop,
                 user, cpc, xpc>>

KPublish ==
  /\ KMove("publish", "wake_r")
  /\ queue_head' = Succ(queue_head)
  /\ after_stop' = IF acquisition_action = "STOP_DAQ" /\ after_stop < 2
                   THEN after_stop + 1 ELSE after_stop
  /\ UNCHANGED <<queue_tail, node, acquisition_action, has_points, k, kstate,
                 should_stop, user, cpc, xpc>>

\* Mistake: the wake-up is left out.
KWakesNoReader ==
  /\ KMove("wake_r", "load")
  /\ UNCHANGED <<ring, control, k, kstate, should_stop, user, cpc, xpc>>

\* The wake-up of r_wait puts every watched descriptor on its ready list.
KWakeReaders ==
  /\ KMove("wake_r", "load")
  /\ ready' = [r \in Readers |-> rpc[r] # "closed"]
  /\ UNCHANGED <<ring, control, k, kstate, should_stop,
                 rpc, rtail, rbuf, delivered, cpc, xpc>>

Kthread ==
  \/ KLoad \/ KQuit \/ KDecideSleep \/ KDecideFill \/ KPrepare
  \/ KSchedule \/ KFill \/ KPublish \/ KWakeReaders

-----------------------------------------------------------------------------
(* A reader: epoll_wait on the device, then read(). That it waits for a     *)
(* slot of its own in between is left to AcquisitionPath; here it may stay *)
(* in "read" as long as it likes.                                          *)

RMove(r, from, to) == rpc[r] = from /\ rpc' = [rpc EXCEPT ![r] = to]

\* open() and EPOLL_CTL_ADD, which polls the descriptor a first time.
ROpen(r) ==
  /\ xpc = "live"
  /\ RMove(r, "closed", "wait")
  /\ ready' = [ready EXCEPT ![r] = TRUE]
  /\ UNCHANGED <<ring, control, kthread, rtail, rbuf, delivered, cpc, xpc>>

\* Mistake: dev_poll reports data without looking at the cursors.
RPollDataAlways(r) ==
  /\ ready[r]
  /\ RMove(r, "wait", "read")
  /\ UNCHANGED <<ring, control, kthread, rtail, rbuf, ready, delivered,
                 cpc, xpc>>

\* epoll_wait calls dev_poll for a descriptor on the ready list; a descriptor
\* that has data stays there (level triggered).
RPollData(r) ==
  /\ ready[r] /\ queue_head # queue_tail
  /\ RMove(r, "wait", "read")
  /\ UNCHANGED <<ring, control, kthread, rtail, rbuf, ready, delivered,
                 cpc, xpc>>

RPollEmpty(r) ==
  /\ rpc[r] = "wait" /\ ready[r] /\ queue_head = queue_tail
  /\ ready' = [ready EXCEPT ![r] = FALSE]
  /\ UNCHANGED <<ring, control, kthread, rpc, rtail, rbuf, delivered,
                 cpc, xpc>>

\* Mistake: the tail is advanced before the node is copied.
RLoadTailAdvances(r) ==
  /\ RMove(r, "read", "copy")
  /\ rtail' = [rtail EXCEPT ![r] = queue_tail]
  /\ queue_tail' = Succ(queue_tail)
  /\ UNCHANGED <<queue_head, node, control, kthread, rbuf, ready, delivered,
                 cpc, xpc>>

\* dev_read: copy the tail under the mutex, ...
RLoadTail(r) ==
  /\ RMove(r, "read", "copy")
  /\ rtail' = [rtail EXCEPT ![r] = queue_tail]
  /\ UNCHANGED <<ring, control, kthread, rbuf, ready, delivered, cpc, xpc>>

\* ... copy the node to the user without it, ...
RCopy(r) ==
  /\ RMove(r, "copy", "advance")
  /\ rbuf' = [rbuf EXCEPT ![r] = node[rtail[r]]]
  /\ UNCHANGED <<ring, control, kthread, rtail, ready, delivered, cpc, xpc>>

\* ... store the advanced copy of the tail under the mutex, ...
RAdvance(r) ==
  /\ RMove(r, "advance", "wake_w")
  /\ queue_tail' = Succ(rtail[r])
  /\ delivered' = [delivered EXCEPT ![r] = rbuf[r]]
  /\ UNCHANGED <<queue_head, node, control, kthread, rtail, rbuf, ready,
                 cpc, xpc>>

\* Mistake: the wake-up is left out.
RWakesNobody(r) ==
  /\ RMove(r, "wake_w", "wait")
  /\ UNCHANGED <<ring, control, kthread, rtail, rbuf, ready, delivered,
                 cpc, xpc>>

\* ... and wake the kernel thread.
RWake(r) ==
  /\ RMove(r, "wake_w", "wait")
  /\ WakeKthread
  /\ UNCHANGED <<ring, control, kpc, k, should_stop, rtail, rbuf, ready,
                 delivered, cpc, xpc>>

RClose(r) ==
  /\ RMove(r, "wait", "closed")
  /\ ready' = [ready EXCEPT ![r] = FALSE]
  /\ UNCHANGED <<ring, control, kthread, rtail, rbuf, delivered, cpc, xpc>>

InRead(r) == RLoadTail(r) \/ RCopy(r) \/ RAdvance(r) \/ RWake(r)

Reader(r) ==
  \/ ROpen(r) \/ RPollData(r) \/ RPollEmpty(r) \/ InRead(r) \/ RClose(r)

-----------------------------------------------------------------------------
(* dev_write, called by a commander between its open() and its close().    *)

\* START_DAQ and STOP_DAQ: the command is stored first and then announced.
CAction(c, cmd) ==
  /\ xpc = "live"
  /\ cpc[c] = "idle" /\ cpc' = [cpc EXCEPT ![c] = "wake_w"]
  /\ acquisition_action' = cmd
  /\ after_stop' = IF cmd # acquisition_action THEN 0 ELSE after_stop
  /\ UNCHANGED <<ring, has_points, kthread, user, xpc>>

CWake(c) ==
  /\ cpc[c] = "wake_w" /\ cpc' = [cpc EXCEPT ![c] = "idle"]
  /\ WakeKthread
  /\ UNCHANGED <<ring, control, kpc, k, should_stop, user, xpc>>

\* SET_PARAMTER: no lock, no wake-up, at any time.
CSetParameter(c, points) ==
  /\ xpc = "live" /\ cpc[c] = "idle"
  /\ has_points' = points
  /\ UNCHANGED <<ring, acquisition_action, after_stop, kthread, user, cpc,
                 xpc>>

Commander(c) ==
  \/ \E cmd \in Actions : CAction(c, cmd)
  \/ \E points \in BOOLEAN : CSetParameter(c, points)
  \/ CWake(c)

-----------------------------------------------------------------------------
(* dev_driver_exit / resource_cleanup, and loading the module again.       *)

\* .owner = THIS_MODULE: the module cannot go while a descriptor is open.
InUse ==
  \/ \E r \in Readers : rpc[r] # "closed"
  \/ \E c \in Commanders : cpc[c] # "idle"

XBegin ==
  /\ xpc = "live" /\ ~InUse
  /\ xpc' = "stop"
  /\ WakeKthread
  /\ UNCHANGED <<ring, control, kpc, k, should_stop, user, cpc>>

\* kthread_stop: raise the flag, wake the thread, then wait for it below.
XStop ==
  /\ xpc = "stop" /\ xpc' = "join"
  /\ should_stop' = TRUE
  /\ WakeKthread
  /\ UNCHANGED <<ring, control, kpc, k, user, cpc>>

XJoin ==
  /\ xpc = "join" /\ kpc = "exited"
  /\ xpc' = "gone"
  /\ UNCHANGED <<ring, control, kthread, user, cpc>>

XLoad ==
  /\ xpc = "gone"
  /\ queue_head' = 0 /\ queue_tail' = 0
  /\ node' = [i \in Slots |-> Uninit]
  /\ acquisition_action' = "STOP_DAQ" /\ has_points' = FALSE
  /\ kpc' = "load" /\ kstate' = "RUNNING" /\ should_stop' = FALSE
  /\ k' = KLocals
  /\ xpc' = "live" /\ after_stop' = 0
  /\ UNCHANGED <<user, cpc>>

Module == XBegin \/ XStop \/ XJoin \/ XLoad

-----------------------------------------------------------------------------
Next ==
  \/ Kthread
  \/ \E r \in Readers : Reader(r)
  \/ \E c \in Commanders : Commander(c)
  \/ Module

Spec == Init /\ [][Next]_vars

\* The scheduler owes progress to a kernel thread that can run and to a call
\* in progress; nobody owes an open, a close, a command or an rmmod.
Fairness ==
  /\ WF_vars(Kthread)
  /\ \A r \in Readers : WF_vars(RPollData(r) \/ RPollEmpty(r) \/ InRead(r))
  /\ \A c \in Commanders : WF_vars(CWake(c))
  /\ WF_vars(XStop \/ XJoin)

FairSpec == Spec /\ Fairness

-----------------------------------------------------------------------------
(* Safety.                                                                 *)

KPcs == {"load", "check", "prepare", "schedule", "fill", "publish", "wake_r",
         "exited"}
RPcs == {"closed", "wait", "read", "copy", "advance", "wake_w"}

TypeOK ==
  /\ queue_head \in Slots /\ queue_tail \in Slots
  /\ node \in [Slots -> Packets]
  /\ acquisition_action \in Actions /\ has_points \in BOOLEAN
  /\ kpc \in KPcs /\ kstate \in {"RUNNING", "INTERRUPTIBLE"}
  /\ k \in [head : Slots, tail : Slots, action : Actions]
  /\ should_stop \in BOOLEAN
  /\ rpc \in [Readers -> RPcs] /\ rtail \in [Readers -> Slots]
  /\ rbuf \in [Readers -> Packets] /\ delivered \in [Readers -> Packets]
  /\ ready \in [Readers -> BOOLEAN]
  /\ cpc \in [Commanders -> {"idle", "wake_w"}]
  /\ xpc \in {"live", "stop", "join", "gone"}
  /\ after_stop \in 0 .. 2

\* Both sides touch node contents without the mutex (driver.c 87-89 and
\* 205-225). The node being filled is never a node being copied to a user.
NoSharedNode ==
  \A r \in Readers :
    kpc = "fill" /\ rpc[r] \in {"copy", "advance"} => rtail[r] # k.head

\* dev_read never looks whether there is anything to read (driver.c 83-95):
\* the poll that came before it must still be right when the tail moves.
NoUnderrun ==
  \A r \in Readers : rpc[r] \in {"read", "copy", "advance"} =>
    queue_head # queue_tail

\* The full test uses copies of the cursors taken before the fill, and the
\* publication does not repeat it: it must not make a full ring look empty.
NoOverrun == kpc \in {"fill", "publish"} => ~Full(queue_head, queue_tail)

\* The kernel thread uses the command it copied before the fill. Once STOP is
\* stored, the packet already decided on may still appear, and no other one.
AtMostOnePacketAfterStop == after_stop <= 1

\* The ring keeps the promise of a bounded queue of QUEUE_DEPTH - 1 packets.
Waiting == (queue_head + QUEUE_DEPTH - queue_tail) % QUEUE_DEPTH

Queue == INSTANCE BoundedQueue WITH
  Capacity <- QUEUE_DEPTH - 1,
  Users    <- Readers,
  Nothing  <- Uninit,
  q        <- [i \in 1 .. Waiting |-> node[(queue_tail + i - 1) % QUEUE_DEPTH]],
  out      <- delivered,
  attached <- {r \in Readers : rpc[r] # "closed"}

\* What a user reads is what was published, in order, once, and nothing that
\* was published is lost while a reader has the device open.
ReadsArePublishedPackets == Queue!Spec

-----------------------------------------------------------------------------
(* Liveness.                                                               *)

Asleep == kpc = "schedule" /\ kstate = "INTERRUPTIBLE"

Acquiring == acquisition_action = "START_DAQ" /\ xpc = "live"

Room == ~Full(queue_head, queue_tail)

\* A published packet is read by whoever keeps the device open: publication
\* precedes the wake-up of r_wait, so poll and wake-up cannot miss each other.
PublishedIsRead ==
  \A r \in Readers : \A i \in Slots :
    (rpc[r] # "closed" /\ queue_tail = i /\ queue_head # i)
      ~> (rpc[r] = "closed" \/ queue_tail # i)

\* A wake-up issued while the kernel thread is asleep is enough: with START in
\* force and room in the ring it goes back to filling.
WakeUpRestartsFilling ==
  (/\ Asleep /\ Acquiring /\ Room
   /\ \/ \E c \in Commanders : cpc[c] = "wake_w"
      \/ \E r \in Readers : rpc[r] = "wake_w")
    ~> (kpc = "fill" \/ ~Acquiring)

\* libdaq.c 58-61: start_daq starts the acquisition, 0 is success. So after a
\* START that nobody revokes, with room in the ring, the thread fills a node.
StartStartsAcquisition ==
  (Acquiring /\ Room) ~> (kpc = "fill" \/ ~Acquiring \/ ~Room)

\* driver.c 263: resource_cleanup closes the thread. kthread_stop raises its
\* flag before its one wake-up, so a thread asleep when it is called goes and
\* the removal ends. (A thread about to fall asleep misses the wake-up, as it
\* may miss a START, and the removal then waits for ever.)
UnloadOfSleeperCompletes == (xpc = "stop" /\ Asleep) ~> (xpc = "gone")

\* Of no event that finds the thread asleep is the wake-up wasted: neither of a
\* START, nor of a read that makes room, nor of the removal.
WakeUpsAreHeeded == WakeUpRestartsFilling /\ UnloadOfSleeperCompletes
=============================================================================
