---------------------------- MODULE DaqPipeline ----------------------------
(***************************************************************************)
(* The acquisition and report process (acqusition_storage_report.c): one   *)
(* thread reads packets from the card into the ring daq_data, a second one *)
(* deals with them, and two counting semaphores hand the slots to and fro. *)
(* main creates the threads first and initialises the semaphores after.    *)
(*                                                                         *)
(* A semaphore is its value.  sem_init on a semaphore with a waiter resets *)
(* the count of waiters as well: a thread that was already asleep in the   *)
(* semaphore is then never woken (it is forgotten), one that was about to  *)
(* fall asleep looks at the value again.                                   *)
(***************************************************************************)
EXTENDS Naturals, Sequences

CONSTANTS
  QUEUE_DEPTH,  \* slots of daq_data
  Packets,      \* what the card may deliver
  Oversize,     \* the packets whose packet_len exceeds MAX_MSG_LEN
  Blank,        \* a slot never written to
  ReadMayFail   \* whether the card's read() can return an error

ASSUME DepthAssumption == QUEUE_DEPTH \in Nat \ {0}
ASSUME ReadAssumption == ReadMayFail \in BOOLEAN
ASSUME PacketAssumption == Oversize \subseteq Packets /\ Blank \notin Packets

VARIABLES
  mpc,                  \* main: where it is
  apc, queue_head,      \* acqusition_data_thread: where, next slot to fill
  dpc, queue_tail,      \* data_deal_thread: where, next slot to deal with
  daq_data,             \* contents of the slots
  sem_full, sem_empty,  \* values: free slots, slots with a packet
  forgotten,            \* threads asleep in a semaphore that forgot them
  dealt,                \* history: the last packet dealt with
  failed,               \* history: permits of sem_full kept by failed reads
  dropped,              \* history: permits of sem_empty used on oversize packets
  erased                \* history: permits wiped out by sem_init

acq   == <<apc, queue_head>>
deal  == <<dpc, queue_tail, dealt>>
sems  == <<sem_full, sem_empty, forgotten>>
lost  == <<failed, dropped, erased>>
vars  == <<mpc, acq, deal, daq_data, sems, lost>>

Slots == 0 .. QUEUE_DEPTH - 1

\* Mistake: the cursor is advanced without wrapping.
SuccNoWrap(i) == i + 1

Succ(i) == (i + 1) % QUEUE_DEPTH

-----------------------------------------------------------------------------
Init ==
  /\ mpc = "create_acq"
  /\ apc = "none" /\ queue_head = 0
  /\ dpc = "none" /\ queue_tail = 0 /\ dealt = Blank
  /\ daq_data = [i \in Slots |-> Blank]
  /\ sem_full = 0 /\ sem_empty = 0 /\ forgotten = {}
  /\ failed = 0 /\ dropped = 0 /\ erased = 0

-----------------------------------------------------------------------------
(* main and init_service.                                                  *)

MMove(from, to) == mpc = from /\ mpc' = to

MCreateAcq ==
  /\ MMove("create_acq", "create_deal")
  /\ apc' = "start"
  /\ UNCHANGED <<queue_head, deal, daq_data, sems, lost>>

MCreateDeal ==
  /\ MMove("create_deal", "init_full")
  /\ dpc' = "start"
  /\ UNCHANGED <<acq, queue_tail, dealt, daq_data, sems, lost>>

\* sem_init may forget whoever has come to the semaphore already.
MayForget(t, waits) ==
  \/ UNCHANGED forgotten
  \/ waits /\ forgotten' = forgotten \union {t}

\* Mistake: one permit too many.
MInitFullPlusOne ==
  /\ MMove("init_full", "init_empty")
  /\ sem_full' = QUEUE_DEPTH + 1
  /\ MayForget("acq", apc = "wait")
  /\ UNCHANGED <<acq, deal, daq_data, sem_empty, lost>>

MInitFull ==
  /\ MMove("init_full", "init_empty")
  /\ sem_full' = QUEUE_DEPTH
  /\ MayForget("acq", apc = "wait")
  /\ UNCHANGED <<acq, deal, daq_data, sem_empty, lost>>

\* Permits posted between the two sem_init are wiped out.
MInitEmpty ==
  /\ MMove("init_empty", "serve")
  /\ sem_empty' = 0
  /\ erased' = sem_empty
  /\ MayForget("deal", dpc = "wait")
  /\ UNCHANGED <<acq, deal, daq_data, sem_full, failed, dropped>>

\* pthread_create, a socket, epoll_create or epoll_wait fails: main returns,
\* and the process ends with its threads.
MReturn ==
  /\ mpc \in {"create_acq", "create_deal", "serve"}
  /\ mpc' = "gone"
  /\ UNCHANGED <<acq, deal, daq_data, sems, lost>>

Main == MCreateAcq \/ MCreateDeal \/ MInitFull \/ MInitEmpty \/ MReturn

-----------------------------------------------------------------------------
(* acqusition_data_thread.                                                 *)

AMove(from, to) == mpc # "gone" /\ apc = from /\ apc' = to

\* Open the card, bind to CPU 1, set epoll up; the thread returns if one fails.
AStart ==
  /\ AMove("start", "poll") \/ AMove("start", "exited")
  /\ UNCHANGED <<mpc, queue_head, deal, daq_data, sems, lost>>

\* epoll_wait reports that the card has data.
APoll ==
  /\ AMove("poll", "wait")
  /\ UNCHANGED <<mpc, queue_head, deal, daq_data, sems, lost>>

AWait ==
  /\ AMove("wait", "read")
  /\ sem_full > 0 /\ "acq" \notin forgotten
  /\ sem_full' = sem_full - 1
  /\ UNCHANGED <<mpc, queue_head, deal, daq_data, sem_empty, forgotten, lost>>

ARead(p) ==
  /\ AMove("read", "post")
  /\ daq_data' = [daq_data EXCEPT ![queue_head] = p]
  /\ queue_head' = Succ(queue_head)
  /\ UNCHANGED <<mpc, deal, sems, lost>>

\* nbytes < 0: continue, without giving the permit back. The card's own driver
\* never fails a read; each failure costs a permit, so there are few of them.
AReadFails ==
  /\ ReadMayFail
  /\ AMove("read", "poll")
  /\ failed' = failed + 1
  /\ UNCHANGED <<mpc, queue_head, deal, daq_data, sems, dropped, erased>>

APost ==
  /\ AMove("post", "poll")
  /\ sem_empty' = sem_empty + 1
  /\ UNCHANGED <<mpc, queue_head, deal, daq_data, sem_full, forgotten, lost>>

-----------------------------------------------------------------------------
(* data_deal_thread.                                                       *)

DMove(from, to) == mpc # "gone" /\ dpc = from /\ dpc' = to

DStart ==
  /\ DMove("start", "wait") \/ DMove("start", "exited")
  /\ UNCHANGED <<mpc, acq, queue_tail, dealt, daq_data, sems, lost>>

DWait ==
  /\ DMove("wait", "check")
  /\ sem_empty > 0 /\ "deal" \notin forgotten
  /\ sem_empty' = sem_empty - 1
  /\ UNCHANGED <<mpc, acq, queue_tail, dealt, daq_data, sem_full, forgotten,
                 lost>>

\* Mistake: the slot is given back although the packet stays in it.
DOversizePosts ==
  /\ DMove("check", "wait")
  /\ daq_data[queue_tail] \in Oversize
  /\ dropped' = dropped + 1
  /\ sem_full' = sem_full + 1
  /\ UNCHANGED <<mpc, acq, queue_tail, dealt, daq_data, sem_empty, forgotten,
                 failed, erased>>

\* packet_len > MAX_MSG_LEN: continue; the packet stays where it is.
DOversize ==
  /\ DMove("check", "wait")
  /\ daq_data[queue_tail] \in Oversize
  /\ dropped' = dropped + 1
  /\ UNCHANGED <<mpc, acq, queue_tail, dealt, daq_data, sems, failed, erased>>

\* The packet is dealt with (counted; the sending is compiled out).
DDeal ==
  /\ DMove("check", "post")
  /\ daq_data[queue_tail] \notin Oversize
  /\ dealt' = daq_data[queue_tail]
  /\ queue_tail' = Succ(queue_tail)
  /\ UNCHANGED <<mpc, acq, daq_data, sems, lost>>

\* Mistake: the slot is not given back.
DPostForgotten ==
  /\ DMove("post", "wait")
  /\ UNCHANGED <<mpc, acq, queue_tail, dealt, daq_data, sems, lost>>

DPost ==
  /\ DMove("post", "wait")
  /\ sem_full' = sem_full + 1
  /\ UNCHANGED <<mpc, acq, queue_tail, dealt, daq_data, sem_empty, forgotten,
                 lost>>

-----------------------------------------------------------------------------
AcqRuns  == AStart \/ AWait \/ (\E p \in Packets : ARead(p)) \/ AReadFails
              \/ APost
DealRuns == DStart \/ DWait \/ DOversize \/ DDeal \/ DPost

Next == Main \/ AcqRuns \/ APoll \/ DealRuns

Spec == Init /\ [][Next]_vars

\* Threads that can run do run; nobody owes the card another packet.
FairSpec ==
  /\ Spec
  /\ WF_vars(MCreateAcq \/ MCreateDeal \/ MInitFull \/ MInitEmpty)
  /\ WF_vars(AcqRuns) /\ WF_vars(DealRuns)

-----------------------------------------------------------------------------
(* Safety.                                                                 *)

TypeOK ==
  /\ mpc \in {"create_acq", "create_deal", "init_full", "init_empty", "serve",
              "gone"}
  /\ apc \in {"none", "start", "poll", "wait", "read", "post", "exited"}
  /\ dpc \in {"none", "start", "wait", "check", "post", "exited"}
  /\ queue_head \in Slots /\ queue_tail \in Slots
  /\ daq_data \in [Slots -> Packets \union {Blank}]
  /\ dealt \in Packets \union {Blank}
  /\ sem_full \in 0 .. QUEUE_DEPTH /\ sem_empty \in 0 .. QUEUE_DEPTH
  /\ failed \in 0 .. QUEUE_DEPTH /\ dropped \in 0 .. QUEUE_DEPTH
  /\ erased \in 0 .. QUEUE_DEPTH
  /\ forgotten \subseteq {"acq", "deal"}

One(b) == IF b THEN 1 ELSE 0

Initialised == mpc \in {"init_empty", "serve"} \/ (mpc = "gone" /\ dpc # "none")

\* Packets acquired and not dealt with, whatever became of their permits: read
\* but not posted, posted, taken by the deal thread, used up, wiped out.
Backlog == One(apc = "post") + sem_empty + One(dpc = "check") + dropped + erased

\* Every slot is accounted for: free, being filled, in the backlog, dealt with
\* but not yet given back, or lost to a failed read. So the semaphores, which
\* start at QUEUE_DEPTH and 0 with the threads already running, never promise
\* a slot twice, whichever of the two sem_init a thread overtakes.
PermitsAccounted ==
  sem_full + One(apc = "read") + Backlog + One(dpc = "post") + failed
    = IF Initialised THEN QUEUE_DEPTH ELSE 0

\* The two cursors, local to their threads, stay as far apart as the backlog:
\* daq_data[queue_tail] is always the oldest packet not dealt with.
CursorsAgree == queue_head = (queue_tail + Backlog) % QUEUE_DEPTH

\* No lock protects daq_data (lines 114-116 and 170-174): a slot is never being
\* read into while the other thread looks at it.
NoOverlap == apc = "read" /\ dpc = "check" => queue_head # queue_tail

-----------------------------------------------------------------------------
(* Liveness.                                                               *)

\* The service is up and no thread of it was forgotten or has returned.
Working ==
  /\ mpc = "serve" /\ forgotten = {} /\ erased = 0
  /\ dpc \in {"wait", "check", "post"}

\* Every packet that fits is dealt with, once the service has come up with
\* nobody forgotten, however many reads fail: permits are lost by failed reads
\* but never those that stand for a packet already in the ring.
FittingPacketIsDealt ==
  \A i \in Slots :
    (/\ Working /\ queue_tail = i
     /\ Backlog > 0 /\ daq_data[i] \notin Oversize)
      ~> (queue_tail # i \/ mpc = "gone")

\* Line 163: acquired data is sent to the host. Whatever was acquired leaves
\* the ring.
AcquiredIsDealt ==
  \A i \in Slots :
    (Working /\ queue_tail = i /\ Backlog > 0) ~> (queue_tail # i \/ mpc = "gone")
=============================================================================
