# Verification of the data acquisition project

TLA+ specifications of the data acquisition system in `src/`, TLC
configurations that check them on small instances, and proofs checked by TLAPS.
Every definition is translated from the C code; `PROJECT.json` says which lines
each definition stands for. Line numbers below are those of the source files.

## 1. The system

A (simulated) acquisition card is filled by a kernel driver. One process reads
it and reports the data; another configures it on behalf of users who connect
over TCP or through a local menu over UDP; a third one writes the log.

| Component | State it keeps | Operations |
|---|---|---|
| Card driver, `driver.c` | ring `queue[QUEUE_DEPTH]` with `queue_head` / `queue_tail`, `acquisition_action`, `daq_rate`, `ch_cnt`, `pt_cnt`, the kernel thread, two wait queues | `dev_open`, `dev_poll`, `dev_read`, `dev_write` (START_DAQ, STOP_DAQ, SET_PARAMTER), the thread `data_acquisition_simulation`, `dev_driver_init`, `dev_driver_exit` |
| Card library, `libdaq.c` | the global `point_cnt`, packet headers | `Tspi_OpenDevice`, `Tspi_CloseDevice`, `set_daq_paramter`, `start_daq`, `stop_daq` |
| Acquisition and report, `acqusition_storage_report.c` | `daq_data[QUEUE_DEPTH]`, `sem_full`, `sem_empty`, a cursor in each thread, `fdmap` | `acqusition_data_thread`, `data_deal_thread`, `init_service`, the connection loop of `main` |
| Configuration server, `configuration_management.c` | `fdmap` (socket, epoll set, UDP socket), barrier, configuration file | `main` (accept, UDP requests), `tcp_handle`, `handle_msg` (SET_TCP_PORT, START_DAQ, STOP_DAQ, HEARTBEAT) |
| Socket library, `socketfns.c` | none | `tcp_read`, `tcp_write`, `accept_new_connect`, `handle_close`, `add_fd_epollset`, UDP send and receive |
| Menu, `menu.c` | the menu level, one UDP socket | request and answer for each menu entry |
| TCP menu, `tcp_client.c` | one connection, `recv_buf` | `net_send`, `net_recv`; START, STOP and HEARTBEAT over TCP |
| Configuration file, `minIni.c` (two copies) | the file and its temporary | `ini_gets`, `ini_puts` (write a copy, remove, rename) |
| Log, `log.c` and `logfns.c` | a file, a UDP socket | `write_log`, the receiving loop |

How they interact:

* `daq_function` (acquisition and report) opens the card, polls it with epoll
  and reads one node per `read()`. `configuration_management` opens the card for
  each START or STOP, writes commands to it, and closes it.
* Both threads of `configuration_management` call `handle_msg`, and with it the
  library's globals and `dev_write`, without a lock.
* `main` and `tcp_handle` share `fdmap` without a lock; only a start-up barrier
  is between them. The two threads of `daq_function` share `daq_data`, guarded
  by two semaphores.
* TCP clients and the local menu send requests of one frame or one datagram and
  wait for one answer.
* A START handled by the server writes a line to the log process over UDP.
* Both programs look their port up in the configuration file when they start,
  while `configuration_management` may be replacing it.

What is hard about it: sleeping and waking in the kernel thread while users
change what it tests; node contents copied and filled outside the mutex;
semaphores that are initialised after their threads; permits that error paths
keep; descriptor numbers that are reused while a global still names them;
shared globals in a library; parameters that change during the fill loop;
answers that are not matched to requests; a buffer that keeps the previous
answer; a file replaced in three steps; a driver whose every load step may fail
and whose clean-up takes everything for granted.
`PROJECT.json` lists these hazards at their lines, with the properties that
cover them.

What makes each component correct:

* driver: no packet is lost, duplicated, reordered or overwritten while a reader
  is there; nobody touches a node another one is working on; STOP is prompt;
  START starts; the thread ends when the module goes;
* report process: the two threads never use the same slot at once, each packet
  is dealt with once and in order, and it *is* dealt with;
* server: only live descriptors are used and only dead connections closed; an
  answer goes to whoever asked, and no request is answered twice; a client is
  served;
* commands: the parameters the card is left with fit a packet; the fill loop stays
  in its node; the answer says what happened, and what the user is told holds on
  the card;
* configuration file: a setting is the old or the new one, at every moment and
  after a crash, and a program listens on a port that was set;
* loading and removing the driver: loaded means whole, memory outlives its users,
  nothing is left behind;
* log: a line stands for something that happened.

## 2. The modules

| Module | Models | Proofs |
|---|---|---|
| `BoundedQueue` | abstract specification: a FIFO queue of bounded capacity whose users attach and detach | |
| `CardDriver` | the driver with its kernel thread, readers, commanders, removal and reloading; refines `BoundedQueue` | `CardDriverProofs` |
| `DriverLifecycle` | loading the driver with each step failing, clean-up, removal, users meanwhile | `DriverLifecycleProofs` |
| `DaqPipeline` | the two threads of the report process and their start-up | `AcquisitionPathProofs` |
| `AcquisitionPath` | composition: the card feeds `DaqPipeline`; card and ring together refine `BoundedQueue` | `AcquisitionPathProofs` |
| `ConfigServer` | `main` and `tcp_handle`, descriptors, epoll, clients that close or reset | `ConfigServerProofs` |
| `DaqCommands` | START and STOP from `handle_msg` through `libdaq` and `dev_write` to the fill loop | `DaqCommandsProofs` |
| `TcpClient` | the host's test client: its menu, `net_recv`, its end of the connection | |
| `LogService` | `write_log`, the log process and its file | |
| `RemoteControl` | composition: `TcpClient`, one connection, `DaqCommands` as the server behind it, `LogService` | `RemoteControlProofs` |
| `Settings` | abstract specification: settings replaced in one step between request and answer | |
| `ConfigStore` | the configuration file: `ini_puts` with several writers and crashes, programs that start and read it; refines `Settings` | `ConfigStoreProofs` |
| `MenuProtocol` | the menu and the UDP side of the server, with restarts, losses and several menus | `MenuProtocolProofs` |

How they fit together: `DriverLifecycle` ends where `CardDriver` begins (its
"live"). `CardDriver` refines `BoundedQueue`, and `AcquisitionPath` uses that
queue for the card, so that the ring's own steps need not be interleaved with the
pipeline's. `RemoteControl` EXTENDS `DaqCommands` and INSTANCEs client and log
over its own variables; what a connection may do to others is the matter of
`ConfigServer` alone.

`MCx` instantiates module `x` for TLC; constants are in the `.cfg` files.
Operators introduced by a comment *Mistake:* are plausible wrong versions of the
definition that follows. They are not part of the specification; replacing the
definition by one of them must make TLC find a violation, so they show what each
property is sensitive to.

### CardDriver

`queue_mutex` only protects a few assignments each time, so a locked region is
one step, and what comes between two of them is another. The kernel thread
(driver.c 184-239) is `KLoad` (185-189, copying cursors and command), `KQuit`
(191), `KDecideSleep` / `KDecideFill` (196), `KPrepare` (set the task state),
`KSchedule`, `KFill` (207-225, outside the mutex), `KPublish` (227-229) and
`KWakeReaders` (231). A reader is one thread with epoll: `RPollData` and
`RPollEmpty` are `dev_poll` called by `epoll_wait` for a descriptor on the ready
list (`ready`), and `RLoadTail`, `RCopy`, `RAdvance`, `RWake` are `dev_read`. The
`sem_wait` between the two (acqusition_storage_report.c 112) is not a step here: a
reader may be slow between poll and read, and what makes it wait is in
`AcquisitionPath`. A
commander's `dev_write` is `CAction` then `CWake`, or `CSetParameter`. `XBegin`,
`XStop`, `XJoin`, `XLoad` remove the module and load it again; `.owner =
THIS_MODULE` keeps it while it is open. `kstate` is the task state: a wake-up
only acts on a thread that is already asleep.

The contents of a node are one value: a member of `Samples`, or `Uninit` when
nothing was ever filled in (after `kmalloc`, or when `pt_cnt * ch_cnt` is 0,
which `has_points` records). The timing of the simulation (`daq_rate`) is left
out.

`delivered` and `after_stop` are history: what each read returned, and how many
packets were published since STOP.

### DriverLifecycle

`dev_driver_init` is one action per thing it acquires: `IDev` (kmalloc),
`IRegion`, `ICdev`, `IClass`, `IDevice` (from here on the device has a name),
`IBuff`, `IQueue` (mutex and wait queues), `IThread` (`kthread_create` and
`wake_up_process`). `held` is what is there. `IFails` is `goto failed`;
`INoMemory` the return before it; `IThreadFails` the error pointer that is not
NULL. `dev_driver_exit` is `XExit`; `resource_cleanup` is `CWake`, `CStop` and
`CJoin` (`kthread_stop` raises a flag, then waits), `CDevice`, `CClass`,
`CRegion`, `CBuff`, `CFree`. `mpc` names what comes next, "stuck" an oops of
insmod or rmmod, after which the module can not be removed. The thread is here
only as far as its life goes.

A user's `open` is two steps: `UFind` finds the name and `UOpen` the cdev behind
its number. Nobody calls `cdev_del`, so `CFree` frees a registered cdev, and a
name found before leads to it (`UOpenFreed`). The kernel holds the module while
a descriptor is open (`InUse`). `early` and `late` are history: users who called
the device before the load had ended, and users whose open met a freed cdev.

### DaqPipeline

One action per semaphore operation and per access to the ring. `sem_init` on a
semaphore somebody already uses is undefined for POSIX; the model does what the
C library's implementation does: the value and the count of waiters are
overwritten, so a thread that is asleep may be forgotten by later posts
(`forgotten`) and permits posted before are gone (`erased`). `failed` and
`dropped` count permits that the error paths of lines 118 and 176 keep; the first
of them is there for any device, since `dev_read` itself never fails. What is
done with a packet (lines 178-206 count it; sending is compiled out) is `dealt`.

### AcquisitionPath

`card` is the ring of the driver as `BoundedQueue` has it, `CardCapacity` nodes
of it (`QUEUE_DEPTH - 1` in `driver.h`). `CardPublish` publishes a node: any
packet, because a node that was never filled has whatever `kmalloc` left there.
`CardReload` is the removal and loading of the module. `PathPoll`, `PathRead` and
`PathReadFails` are the actions of `DaqPipeline` with the card they look at: a
poll finds data, a read takes the head, and, because `dev_read` never looks, a
read of an empty card would hand out any node. Everything else of `DaqPipeline`
leaves the card alone.

### ConfigServer

The accesses of `tcp_handle` to `fdmap.socket_fd` (lines 230, 233 and 241) are
steps of their own: `TCompare`, `TRead`, `THandle`. So are the three things `main`
does with a new connection: `MAccept` (384-386), `MStore` (387) and `MAdd` (388).
`tcp_read` is `TRecvFrame`,
`TRecvBad` (length out of range: -1 without consuming anything) or
`TRecvClosed`; `tcp_write` is `TSend`, `TSendFails` or `TSigpipe`. The kernel
gives out the lowest free descriptor, forgets a closed one in every epoll set,
and sends a reset when somebody writes to a connection its client has closed. A
client may reset its connection while it is open (it is killed with an answer
unread); the clients of the repository leave with `close()`, never `shutdown()`,
and have nothing left to abort then, so a client that has sent its FIN does not
reset. `answers` is history: for each connection, who was sent the answers to its
requests.

A frame arrives whole; a partial frame would block `tcp_read` in `recv`, which
the blocking of an empty connection already stands for. Frames are `good` or
`bad`; what a good one asks is the matter of `DaqCommands`. UDP requests, which
`main` handles between two accepts, do not touch this state. `TSigpipe` ends the
process: the state "killed".

### DaqCommands

Sizes are counted in samples of two bytes; `Room` is what fits in a node behind
its header. `HPoints` writes the library's global `point_cnt` and `HBuild` reads
it back; `HStoreCh` and `HStorePt` are the separate stores of `dev_write`;
`FRow`, `FSample`, `FRowEnds` and `FEnd` are the two loops of the fill, which
test `pt_cnt` and `ch_cnt` at every turn. `Channels` holds the values of
`ch_cnt` a request may carry; 0 stands for every parameter that
`set_daq_paramter` refuses. `HHeartbeat` is the branch that answers and does
nothing. `disturbed` is history: parameters have changed during this fill. So is
`clash`: when the last accepted START wrote `point_cnt`, another handler was on its
way (`Passing`) from there to its last store on the card, or one has come since.

### TcpClient, LogService, RemoteControl

`CStart`, `CStop`, `CHeartbeats` and `CLeave` are the choices of the menu, `CBeat`
a turn of the loop of case 3, which case 2 falls into. `Ask` and `Write` are
`net_send` with `tcp_write`. `RRead`, `RClosed`, `RBroken` and `RInterrupted` are
the ways `net_recv` goes on or comes back; the last two return 0 as if an answer
had come, and `Report` then shows what `recv_buf` still holds. `conn` is the
connection as the client's socket sees it (end of stream, reset, reset after
data sent into a closed connection). `pulse` says whether `recv_buf` ever had the
answer field of a heartbeat, without which a pointer is used that was never set.
Requests are numbered although the protocol numbers nothing, so that properties
can say which request an answer in `recv_buf` belongs to.

`WriteLog` sends one datagram from a socket of its own; it may be lost. `LHandle`
is one turn of the log process; `LStop` and `LStart` end and start it.

In `RemoteControl` the server is `STake` (`tcp_read` and the first step of
`handle_msg`), `SParameters` (the steps of `DaqCommands` in between), `SStart`,
`SLog` (`write_log` after the start), and `SReply`. `NServerEnds` is any end of the
server. The kernel closes its socket when the last thread has left the process, and
a thread inside `dev_write` leaves it only when the stores are done, so the
connection never ends between them (`ClientSteps`). `started` and `accepted` are
history.

### ConfigStore

SET_TCP_PORT calls `ini_putl` and with it `ini_puts` (minIni.c 628-813). Names
and files are kept apart: `dir` says which file a name stands for, and a stream
(`rfp`, `wfp`) stays with the file it opened even when the name is removed or
given to another. The steps are those another process can see: `POpen`, `PRead`
(the look-up and both short cuts, 655-678), `PReopen` and `PPatch` (a line of the
same length is overwritten where it was found), `PTemp` and `PCopy` (the changed
copy), `PRemove` and `PRename` (`close_rename`). stdio writes a small file when
its stream is closed, so a write and its close are one step, and a crash before
it leaves the file empty.

A file is a sequence of cells and a line takes `Width` of them, so lines of
different lengths can be torn by a write at a position that is no longer theirs.
The section and comments are left out: every key is in `[General]`. Opening for
writing may fail (`PFails`); writing, closing, `remove` and `rename` do not. Opening
for reading fails only if there is no file. The code takes any failure for that
(639), a lack of descriptors or rights included, and would then empty a file that
is there; this is left out, because the program opens a handful of files that it
has made itself.
A program that starts opens the file (`SOpen`), reads it and listens (`SRead`);
`SStop` stops it. `Listens` cuts the number to the 16 bits of `sin_port`. `Number`
gives the values numbers; that of `Absent` is -1, the default of `ini_getl`.
`fresh` is history, computed by `Watch` in every step: what the program would
read now has been its setting at some moment since it began. A file that only
programs still have open no longer changes. `Kept` forgets it when nobody has it
open (the file system frees it) and, to keep the instance small, reduces it to one
line (`Gist`) when all who have it open look up the same key (`Sought`).

`Current` is the mapping to `Settings`: what the file says or, while there is
none, what its copy says. `Orphan` is the state a crash between 614 and 617
leaves behind: the next `ini_puts` does not look for the copy.

### MenuProtocol

`MSetPort`, `MStartDaq` and `MStopDaq` are the menu entries that send something;
they share `Send`, which is `sendto`. `MReceive` is `ReceiveUDPData` with a
timeout of 0, which `alarm` takes for none. Requests and answers carry no number;
the model gives them one that neither program looks at, so that properties can
say which answer belongs to which request. The server's main loop is `SReceive`,
`SHandle` and `SAnswer`; its handling of connections between two requests touches
none of this. `SStop` is any end of the process, with what its socket held.
Which of several sockets bound to a port gets a datagram is left open.
`recvfrom` itself does not fail here, and no answer is empty (`handle_msg` always
sets its length), so the branch for `nread <= 0` is not taken.

## 3. What is checked

| Run | Shows |
|---|---|
| `driver_lifecycle` | Loading, failing to load, removing, with two users throughout: a loaded module is whole, only a failed load gets stuck, thread and descriptors never outlive the memory, users are killed or blocked in two gaps only, and a removal leaves nothing but a registered cdev |
| `card_ring` | One reader, one commander, removal and reloading, a ring of 3: no overrun, no underrun, no shared node, at most one packet after STOP, and the driver implements a bounded queue of `QUEUE_DEPTH - 1` packets. With fairness: a published packet is read by whoever keeps the device open; a wake-up that finds the thread asleep restarts filling, or ends the thread when the module is removed |
| `card_lost_start` | *Violated:* a START is lost if its wake-up comes between the test (196) and the sleep (197, 235) |
| `acquisition_path` | The card feeds the two threads, whichever overtakes `sem_init`, with oversize and unfilled packets, failing reads and reloading: permits always add up, cursors agree with the backlog, slots never overlap, a poll is still right when its read comes, card and ring together are one bounded queue. With fairness every packet that fits is dealt with, from the ring and from the card |
| `pipeline_oversize` | *Violated:* an oversize packet is never removed from the ring (176), and after `QUEUE_DEPTH` packets both threads are blocked |
| `server_serving` | Three connections on three descriptors: only dead connections are closed, the answers to the requests of a connection, wherever they went, are no more than these requests, and a broken connection takes at least two requests to end the process. With fairness the request of the connection `fdmap` names is read if its descriptor is watched and nobody newer comes, unless the thread waits for good in `recv` on a connection that says nothing |
| `server_misroute` | *Violated:* the answer goes to a client that connected while the request was handled (241 reads `fdmap.socket_fd` anew) |
| `remote_control` | From the host's menu to the fill loop of the card, with one handler: undisturbed fills fit a node; the answer shown is behind by exactly the empty returns of `net_recv`; while there were none, what the user is told holds on the card; a connection that ends costs one request its answer, and every other request reported without one was interrupted; the log tells starts that happened, in order; with fairness a request over an unbroken connection is answered |
| `commands_race` | *Violated:* with two handlers the points of one START go with the channels of another (libdaq.c 136), and the fill loop leaves the node. With `Handlers` reduced to one the same property falls to parameters that change during a fill (driver.c 208) |
| `store_single` | One writer that may die at any step, and a program that starts meanwhile: the file and its copy together behave like `Settings`, and are lost only by the next `ini_puts` after a crash between removal and renaming; the program listens on a port that was set during its start, or on the default if the file had no name just then |
| `store_race` | *Violated:* two writers share the copy; both `ini_puts` return 1 and the file is gone (614) |
| `menu_answers` | Two menus, in turn or at once, and a server that stops and starts: commands are handled once and in order, what is shown was handled, a menu gets out of step only through an answer meant for another, and a lone menu is answered |

Each violated property states what a comment or a message of the repository
says; `findings` in `PROJECT.json` quotes it.

**Bounds.**

* *Rings.* `QUEUE_DEPTH` is 8 in the code and 3 here: the smallest ring that can
  be empty, half full and full, in which both cursors wrap, and in which a node
  is free, being filled and being copied at once. `CardCapacity` is 2 for the
  same reason (a ring of 3 nodes). The theorems hold for every depth. Two packet
  values are enough to see packets exchanged, lost or doubled; the oversize one
  is a third.
* *Actors.* One reader is what the system runs; the code is not safe for two,
  because `dev_read` does not test for an empty ring. One commander is enough for
  the ring, because STOP and START are single stores; the theorems hold for any
  number. Two users of `driver_lifecycle` can be in two gaps at once, or one in a
  call while the other opens; the theorems hold for any number.
* *Connections.* With three connections and three descriptors all of them can be
  open, one that keeps the thread in `recv`, one that lets it in, and a newest one
  that waits; and, as the lowest free descriptor is given out, a third connection
  can have the one a first has left while a second is current. `MaxFrames` bounds
  the frames per connection. One is enough: a second answer to it is one too many
  wherever it goes, and an older connection keeps the thread busy for ever by a
  bad frame, which stays in the socket. Connections that have not been opened
  cannot be told apart, so they are accepted in their order (`InOrder`); TLC's
  symmetry would not be sound for liveness. The theorems hold for any numbers.
* *Handlers.* Two is what the code has. `commands_race` has a count that makes many
  points and one that has many channels.
* *Remote control.* `Channels` includes a count that is refused (0), one that
  fills a node to the last sample (1, with `Room` 3), one that does not divide it
  (2) and one that exceeds it (5). `MaxChoices` 2 allows a START after a START,
  a START after a STOP, or one disturbed command before another. `Heartbeats` is
  20 in the code and 2 here: a first and a last one. `MaxStops` 2 lets answers be
  two behind.
* *Configuration file.* The two keys the code has and three ports, two of one
  width and a wider one, so that all branches of `ini_puts` are taken and a line
  can be torn. As numbers they are 20001, 65536 (which 16 bits do not hold) and
  100001. One program, which looks up one of the two keys, may start and stop any
  number of times.
* *Menus.* Two menus with two commands each are the smallest that can be put out
  of step and then stay so.

**Deadlock** is checked in `ConfigStore`, which can always go on. Elsewhere it is
not, because the system really may stop. `kthread_stop` may wait
for ever, insmod or rmmod may be stuck after an oops, a forgotten or starved
thread of the pipeline sleeps for ever, a process that has ended takes no step, a
menu whose datagram was lost or a host whose connection was closed waits for
ever, and clients may all have gone.

**Fairness.** Weak fairness for threads that can run: the kernel thread, a call
in progress, `main`, `tcp_handle`, the two pipeline threads, a server that has a
request, a menu or a client that has an answer. A running thread is
eventually scheduled and no lock is held for long. In `PathFairSpec` the report
process is owed the return of `epoll_wait` while the card holds data, because
the descriptor is level triggered. Strong fairness per
descriptor in `ConfigServer`: `epoll_wait` rotates its ready list, so that no
descriptor is passed over for ever although events of others keep the thread
busy; without it the descriptor `fdmap` does not name would be a legitimate
excuse. Nothing is owed by users and by chance: starting a program, opening,
closing, commands, connections, `rmmod`, another packet from the card, the log,
a reset, or a failure of `epoll_wait`.

## 4. What is proved

All for every value of the constants, with no assumption on them other than the
named ones next to their declarations. Three kinds say something: that rings,
nodes, lines, descriptors and bounds are numbers (`DepthAssumption`,
`CardAssumption`, `RoomAssumption`, `ChannelAssumption`, `FdAssumption`,
`BoundAssumption`, `HeartbeatAssumption`, `WidthAssumption`, `NumberAssumption`),
that "nothing" is not a thing (`SampleAssumption`, `PacketAssumption`,
`ConnAssumption`, `NoneAssumption`, `AbsentAssumption`, `FileAssumption`), and that
commands and keys are those the programs use (`CommandAssumption`,
`ProgramAssumption`). `FileAssumption` also says that writers and programs are
finitely many, so that a file system with room for all of them has a free file.

A hypothesis on the number of actors is in the theorem:

* `SingleReader`, because the system runs one `daq_function` and `dev_read` does
  not test for an empty ring;
* `SingleHandler`, commands by one of the two threads of
  `configuration_management` only, because nothing keeps them from interleaving in
  `libdaq` and on the card: `commands_race` shows what happens then. It is used for
  what a host is told (`RemoteControl`) and for the fill loop; what the card is left
  with is proved without it;
* `SingleWriter`, ports set by one of these threads only, because nothing keeps
  two from sharing the copy of the configuration file: `store_race` shows what
  happens then.

**CardDriver.** `TypeCorrect` and `StopIsPrompt` hold for any set of readers and
commanders. The argument for the second: a publication after STOP needs a copy
of the command from before it (`StopInv` relates `after_stop` to where the
thread is and what it copied), and the next copy shows STOP.

`NeverUnderruns`, `NeverOverruns` and `NeverSharesNode` hold when there is one
reader. None of them is inductive. `RingInv` strengthens them with what the stale
copies are still worth: the thread's copy of the head is exact until publication,
because only it moves the head; its copy of the tail may be old, but since then
only one reader can have moved the tail, which makes room and never takes it.
Symmetrically the reader's copy of the tail is exact, and the ring that was not
empty when it was polled can only have grown.

`ReadsArePublished` is the refinement: with one reader the driver implements
`BoundedQueue` under the mapping of `CardDriver`. The queue is the part of the
ring from tail to head (`Contents`); `KPublish` is the queue's `Put`, `RAdvance`
its `Take`, and every other step of thread, reader and commander leaves the
queue alone. `RAdvance` happens after the copy, so the mapping needs `BufferInv`
besides `RingInv`: a reader about to advance still holds what the node at the
tail holds. `PublishPuts` and `AdvanceTakes` compute how the contents change when
a cursor moves.

**DriverLifecycle.** For any set of users `LifecycleInvariant` proves `LInv`
inductive: `LoadHolds` and `ExitHolds` say exactly what is held at each place of
the loader, `Phase` who is at work and that the thread exists while it is held,
`UsersFit` that an open descriptor means that a load, and not a removal, is
under way or done. Then `RestsAreProper`, `MemoryIsThere` and
`HarmInTheGapsOnly` follow. The point is in the clean-up after a failure: what
`LoadHolds` lets it find is always short of the queue, so that its first step is
the oops, and its unconditional frees are only reached from `dev_driver_exit`.

**DaqPipeline** (in `AcquisitionPathProofs`). `PipeCorrect` proves `PipeInv` inductive: the types, how far
`main` has come, `PermitsAccounted` and `CursorsAgree`; the other results follow.
The accounting is the heart of it: slots free, being filled, waiting, taken, dealt
with, lost to failures or erased by `sem_init` add up to `QUEUE_DEPTH`. So
overlap (`SlotsNeverOverlap`) would need a backlog of 0 or of `QUEUE_DEPTH`
while both threads are at work on a slot, more permits than there are.

**AcquisitionPath.** `PathRunsThePipeline` shows that the composition implements
`DaqPipeline`: each step is one of its steps or leaves its variables alone. So
its theorems carry over (`PathKeepsSlots`). `ReadFindsItsPacket` and
`CardStaysWithinCapacity` come from `PathInv`: between poll and read only the
thread itself takes packets, and reloading needs a closed device.

`PathImplementsQueue` is the refinement of the whole path: from the kernel thread
to the deal thread, card and process are one `BoundedQueue`. The lemmas
`HeldGrows` and `HeldShrinks` read the backlog off the ring as a sequence. Then
`CardPublish` puts, `DDeal` takes, opening the device attaches, and a read is a
stutter: by `CursorsAgree` it fills the slot just behind the backlog, and by
`PolledDataIsThere` with the card's oldest node. That a reload loses nothing
anybody was promised needs `ClosedIsIdle`: whoever has not opened the device has
no backlog. Oversize packets, failed reads and `sem_init` leave the queue as it
is.

**ConfigServer.** For any connections, descriptors and number of frames.
`ClosesOnlyDeadConnections` is a property of steps:
however stale the descriptor is, each step that closes one has just seen the end
of the connection it stands for now, and only leaving the thread closes without
looking. `AnswersAreForRequests` adds up the answers to the requests of one
connection over all connections that got them, with the request in the thread's
hand counted as one of its asker's (`AskerInv`). `KillingTakesTwo` follows a broken connection backwards
(`KillInv`): a client can close under an answer only after one of its requests
was read, and the write that ends the process answers another.

**DaqCommands.** `CommandsTypeCorrect` and `LoneStartFits` hold for any number of
handler threads. With two of them the parameters on the card need not fit: the
points of one request are stored with the channels of another. `LoneStartFits`
says that this takes an overlap and does not last. Its invariant follows the
number of points of a START without a `clash` from the global through the message
to the card, with nobody else between its first and its last step who could
replace the points or the channels; and as long as no handler is between these
steps, nobody changes what it has left. With a single handler there is no
`clash`, and the parameters always fit, which the next theorem and those on
`RemoteControl` use.
`UndisturbedFillsFit` is about the loop:
while no parameter changes, `index` is the number of whole rows times their
length plus the samples of the current one (`FillInv`), and both loops end before
the product of the limits, which fit when the fill began.

**RemoteControl.** `RemoteRunsTheCommands` shows that handler and card behave as
`DaqCommands` says whatever client, connection and log do; it needs that what is
in the connection are requests a client can make (`RequestInv`). From it come
`RemoteTypeCorrect` and, with one handler, `RemoteFillsFit`. The others, with one
handler as well:

* `LagsByEmptyReturns`: `OrderInv` says that answers under way, the request in
  hand and the requests under way are numbered without a gap, so that each return
  of `net_recv` with nothing leaves the client exactly one further behind
  (`LagInv`).
* `BreakCostsOne`, for any number of choices, interruptions and heartbeats: the
  request after a break closes the socket, so that the break itself is reported
  once (`BreakInv`); with `LagInv` every other request that is shown an old answer
  was interrupted, and those that were not are waiting for ever.
* `LastAcceptedIsKept`: what the handler has in hand on its way to the card is
  the request it took (`StartInv`), and between the two stores of `dev_write`
  the card is already the new request's (`AcceptedInv`).
* `LogIsTrue`: file and socket of the log are together in ascending order, with
  nothing but starts that happened, and the start whose line is due comes after
  all of them (`LogInv`).
* `SuccessIsTrue`: while nothing was interrupted there is one request under way
  at a time (`AskedInv`, `DownInv`); its answer is true from the step that makes
  it until it is shown, because nobody else commands the card meanwhile
  (`ForceInv`).

**ConfigStore.** `StoreTypeCorrect` holds for any number of writers, whatever
they do to each other's files; `TypeOK` says with `StreamsAreOpen` that a stream is
open wherever minIni.c uses one, and its strengthening `Types` that the line to
overwrite was found (`Stage`).
That `fopen` always finds a free file is a count (`FileIsFree`): two names and at
most two streams a writer and one a program.

The others have one writer, and a crash at any step. `Placed` says where its
streams and the two names stand at each step, and that the copy is nobody else's
until it is renamed. It is enough for `ProgramsListenOnASetting`: a file that a
program has open is changed while it is the configuration file, and then to the
current settings, or not at all (`ListenNext`); what `Kept` does to it leaves its
key as it was (`KeptLookup`). It is also enough for `AloneSuccessLeavesAFile`, the
property that `store_race` violates with two writers.

`SettingsKept` is the refinement of `Settings`. It needs to know what the
files say, so `Contents` adds that each is made of whole lines, one for each key
(`Sound`), and that the copy differs from the file by the new value only. Here is
the heart of it: `getkeystring` finds exactly the lines of such a file
(`HasLineIsLineAt`, `LookupIsLine`), and putting a line in the place of another,
however long both are, moves the lines behind it and changes no other setting
(`Splicing`). `Replace`, an overwriting of equal length and the first line of a new
file are all such splices. Then `PFill`, `PPatch`, `PRemove` and a `PRead` that
finds the value already there are the one step of `Settings` that applies a
request, and `PCreate` after a crash the one that loses everything.

**MenuProtocol.** For any menus, at once or in turn, and any number of commands.
`HandlesOnceInOrder`: what a menu's commands are numbered when they are handled,
in hand and in the server's socket is ascending, in that order (`OrderInv`).
`ShowsWhatWasDone`: every answer under way is to a request that was handled
(`DoneInv`). `SlipsNeedAStranger`: as long as a menu has received no answer of
another, it has at most one request under way, in one place, and none at its
prompt (`InStep`); so the first answer that does not fit is a stranger's.

## 5. What is only model-checked, and what is not modelled

Liveness is checked by TLC only: it needs fairness, which is beyond the prover.
These are the temporal properties of `card_ring`, `acquisition_path`
(`PublishedIsDealt`), `server_serving`, `remote_control` and `menu_answers`.
Every invariant and every action property of the passing runs, and each of the
refinements, is a theorem; for `ReadsArePublishedPackets`, `PathIsQueue` and
`SettingsAreKept` this means the safety part, which is all these abstract
specifications say.

The runs keep what the proofs do not show: that the violated properties are
violated, and that the models reach the cases the theorems are about.

Some behaviours are in a model although no run claims anything against them,
because the code is known not to exclude them: a client accepted between the
barrier (206) and the store of `fdmap.epfd` (208) is never served, and neither is
one that was replaced in `fdmap` by a newer one; a connection that is stored
between the comparison (230) and the read (233) of `fdmap.socket_fd` and never
speaks keeps `tcp_handle` in `recv`; SIGPIPE ends the server; a thread of the report process forgotten by `sem_init` sleeps for
ever; `kthread_stop` may miss a thread about to sleep; a load with a failed step
ends in an oops; a cdev stays registered after its memory is freed; calls made
while the driver loads meet an uninitialised queue; the menu waits for ever for a
lost datagram, and the host's client for ever on a connection that was closed in
order; a program that starts between removal and renaming listens on 65535, and
one that reads 65536 on any port. The properties of those modules exclude these
cases by a condition that names them.

Not modelled:

* how packets are laid out in bytes (a read of a node starts 32 bytes in and
  copies 4096), and the timing of the simulation;
* what `handle_msg` answers when `ini_putl` fails: it does not look at the result,
  so that the answer says nothing of the file;
* writes that fail or are cut short in minIni (613), and a file that exists and
  cannot be opened for reading (639); only opening for writing fails;
* browsing, erasing, floats and booleans of minIni, multicast and shell helpers of
  the socket library and `fill_packet_header`, which have no caller;
* the connection loop of the report process, whose reading and writing are
  commented out, and the test program of the driver;
* typing errors in the menus, and the display of the log.

## 6. Plan

Done: all components that keep state, the compositions `AcquisitionPath` and
`RemoteControl`, and the theorems of section 4. Left, in this order:

1. Writes that are cut short in `ConfigStore` (613), with what the settings are
   worth then.
2. What two writers can still be promised of the configuration file.
