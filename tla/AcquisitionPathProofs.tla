----------------------- MODULE AcquisitionPathProofs -----------------------
(* Theorems about the two threads of the acquisition and report process and *)
(* their semaphores (DaqPipeline), for a ring of any depth and any packets  *)
(* from anywhere; then about the card and the process that empties it       *)
(* (AcquisitionPath), which is one of the processes the first are about.    *)
EXTENDS AcquisitionPath, TLAPS

-----------------------------------------------------------------------------
(* The ring index.                                                         *)

\* A cursor advances within the ring.
LEMMA SuccIf ==
  ASSUME NEW i \in Slots
  PROVE  /\ Succ(i) = IF i + 1 < QUEUE_DEPTH THEN i + 1 ELSE 0
         /\ Succ(i) \in Slots
BY DepthAssumption DEF Succ, Slots

\* A position up to one lap beyond a cursor.
LEMMA OneLap ==
  ASSUME NEW t \in Slots, NEW b \in 0 .. QUEUE_DEPTH
  PROVE  (t + b) % QUEUE_DEPTH
           = IF t + b < QUEUE_DEPTH THEN t + b ELSE t + b - QUEUE_DEPTH
BY DepthAssumption DEF Slots

-----------------------------------------------------------------------------
(* The invariant. The semaphores alone say little: a slot is safe because   *)
(* the permits, those in the semaphores, those in the hands of a thread and *)
(* those lost for good, add up to QUEUE_DEPTH, and because the cursors are  *)
(* as far apart as the backlog these permits make.                         *)

\* The types without the bounds, which follow from the sum of the permits.
Types ==
  /\ mpc \in {"create_acq", "create_deal", "init_full", "init_empty", "serve",
              "gone"}
  /\ apc \in {"none", "start", "poll", "wait", "read", "post", "exited"}
  /\ dpc \in {"none", "start", "wait", "check", "post", "exited"}
  /\ queue_head \in Slots /\ queue_tail \in Slots
  /\ daq_data \in [Slots -> Packets \union {Blank}]
  /\ dealt \in Packets \union {Blank}
  /\ sem_full \in Nat /\ sem_empty \in Nat
  /\ failed \in Nat /\ dropped \in Nat /\ erased \in Nat
  /\ forgotten \subseteq {"acq", "deal"}

\* How far main has come, told by the deal thread.
StartUp ==
  /\ mpc \in {"create_acq", "create_deal"} => dpc = "none"
  /\ mpc \in {"init_full", "init_empty", "serve"} => dpc # "none"
  /\ mpc \notin {"serve", "gone"} => erased = 0

PipeInv == Types /\ StartUp /\ PermitsAccounted /\ CursorsAgree

\* The backlog is a number of slots, and fewer than all while one is filled.
LEMMA BacklogBounds ==
  ASSUME Types, PermitsAccounted
  PROVE  /\ Backlog \in 0 .. QUEUE_DEPTH
         /\ apc = "read" => Backlog < QUEUE_DEPTH
         /\ dpc = "check" => Backlog > 0
BY DepthAssumption DEF Types, PermitsAccounted, Backlog, One

\* The sum of the permits bounds each of them.
LEMMA TypesAreBounded ==
  ASSUME Types, PermitsAccounted
  PROVE  TypeOK
<1>1. /\ sem_full <= QUEUE_DEPTH /\ sem_empty <= QUEUE_DEPTH
      /\ failed <= QUEUE_DEPTH /\ dropped <= QUEUE_DEPTH
      /\ erased <= QUEUE_DEPTH
  BY DepthAssumption DEF Types, PermitsAccounted, Backlog, One
<1> QED
  BY <1>1, DepthAssumption DEF Types, TypeOK

\* Advancing the head adds one to the distance between the cursors.
LEMMA HeadAdvances ==
  ASSUME NEW t \in Slots, NEW b \in 0 .. QUEUE_DEPTH - 1
  PROVE  Succ((t + b) % QUEUE_DEPTH) = (t + (b + 1)) % QUEUE_DEPTH
<1>1. (t + b) % QUEUE_DEPTH
        = IF t + b < QUEUE_DEPTH THEN t + b ELSE t + b - QUEUE_DEPTH
  BY OneLap, DepthAssumption
<1>2. (t + (b + 1)) % QUEUE_DEPTH
        = IF t + (b + 1) < QUEUE_DEPTH THEN t + (b + 1)
                                       ELSE t + (b + 1) - QUEUE_DEPTH
  BY OneLap, DepthAssumption
<1>3. (t + b) % QUEUE_DEPTH \in Slots
  BY <1>1, DepthAssumption DEF Slots
<1> QED
  BY <1>1, <1>2, <1>3, SuccIf, DepthAssumption DEF Slots

\* Advancing the tail takes one from it.
LEMMA TailAdvances ==
  ASSUME NEW t \in Slots, NEW b \in 1 .. QUEUE_DEPTH
  PROVE  (Succ(t) + (b - 1)) % QUEUE_DEPTH = (t + b) % QUEUE_DEPTH
<1>1. Succ(t) \in Slots /\ Succ(t) = IF t + 1 < QUEUE_DEPTH THEN t + 1 ELSE 0
  BY SuccIf
<1>2. (t + b) % QUEUE_DEPTH
        = IF t + b < QUEUE_DEPTH THEN t + b ELSE t + b - QUEUE_DEPTH
  BY OneLap, DepthAssumption
<1>3. (Succ(t) + (b - 1)) % QUEUE_DEPTH
        = IF Succ(t) + (b - 1) < QUEUE_DEPTH THEN Succ(t) + (b - 1)
                                     ELSE Succ(t) + (b - 1) - QUEUE_DEPTH
  BY <1>1, OneLap, DepthAssumption
<1> QED
  BY <1>1, <1>2, <1>3, DepthAssumption DEF Slots
-----------------------------------------------------------------------------
(* The invariant is inductive.                                             *)

\* The invariant holds when the process starts.
LEMMA PipeInit == Init => PipeInv
<1> SUFFICES ASSUME Init PROVE PipeInv
  OBVIOUS
<1>1. Backlog = 0 /\ PermitsAccounted
  BY DEF Init, Backlog, One, PermitsAccounted, Initialised
<1>2. 0 \in Slots
  BY DepthAssumption DEF Slots
<1>3. CursorsAgree
  BY <1>1, <1>2, OneLap, DepthAssumption DEF Init, CursorsAgree, Slots
<1>4. Types /\ StartUp
  BY <1>2 DEF Init, Types, StartUp
<1> QED
  BY <1>1, <1>3, <1>4 DEF PipeInv

\* The cursors stay where they belong when neither they nor the backlog move.
LEMMA CursorsStand ==
  ASSUME CursorsAgree, UNCHANGED <<queue_head, queue_tail>>, Backlog' = Backlog
  PROVE  CursorsAgree'
BY DEF CursorsAgree

\* Every step of main keeps the invariant.
LEMMA MainKeepsPipe ==
  ASSUME PipeInv, Main
  PROVE  PipeInv'
<1> USE DEF PipeInv, Types, StartUp, PermitsAccounted, Initialised, Backlog,
            One, MMove
<1>1. CASE MCreateAcq \/ MCreateDeal
  <2>1. Types' /\ StartUp'
    BY <1>1 DEF MCreateAcq, MCreateDeal, acq, deal, sems, lost
  <2>2. PermitsAccounted' /\ Backlog' = Backlog
    BY <1>1, DepthAssumption
       DEF MCreateAcq, MCreateDeal, acq, deal, sems, lost
  <2> QED
    BY <1>1, <2>1, <2>2, CursorsStand DEF MCreateAcq, MCreateDeal, acq, deal
<1>2. CASE MInitFull
  <2>1. forgotten' \subseteq {"acq", "deal"}
    BY <1>2 DEF MInitFull, MayForget
  <2>2. Types' /\ StartUp'
    BY <1>2, <2>1, DepthAssumption DEF MInitFull, acq, deal, lost
  <2>3. PermitsAccounted' /\ Backlog' = Backlog
    BY <1>2, DepthAssumption DEF MInitFull, acq, deal, lost
  <2> QED
    BY <1>2, <2>2, <2>3, CursorsStand DEF MInitFull, acq, deal
<1>3. CASE MInitEmpty
  <2>1. forgotten' \subseteq {"acq", "deal"}
    BY <1>3 DEF MInitEmpty, MayForget
  <2>2. Types' /\ StartUp'
    BY <1>3, <2>1, DepthAssumption DEF MInitEmpty, acq, deal
  <2>3. PermitsAccounted' /\ Backlog' = Backlog
    BY <1>3, DepthAssumption DEF MInitEmpty, acq, deal
  <2> QED
    BY <1>3, <2>2, <2>3, CursorsStand DEF MInitEmpty, acq, deal
<1>4. CASE MReturn
  <2>1. Types' /\ StartUp' /\ PermitsAccounted' /\ Backlog' = Backlog
    BY <1>4, DepthAssumption DEF MReturn, acq, deal, sems, lost
  <2> QED
    BY <1>4, <2>1, CursorsStand DEF MReturn, acq, deal
<1> QED
  BY <1>1, <1>2, <1>3, <1>4 DEF Main

\* Every step of the acquisition thread keeps the invariant.
LEMMA AcqKeepsPipe ==
  ASSUME PipeInv, AcqRuns \/ APoll
  PROVE  PipeInv'
<1> USE DEF PipeInv, Types, StartUp, PermitsAccounted, Initialised, Backlog,
            One, AMove
<1>1. CASE AStart \/ APoll
  <2>1. Types' /\ StartUp' /\ PermitsAccounted' /\ Backlog' = Backlog
    BY <1>1, DepthAssumption DEF AStart, APoll, deal, sems, lost
  <2> QED
    BY <1>1, <2>1, CursorsStand DEF AStart, APoll, deal
<1>2. CASE AWait
  <2>1. Types' /\ StartUp' /\ PermitsAccounted' /\ Backlog' = Backlog
    BY <1>2, DepthAssumption DEF AWait, deal, lost
  <2> QED
    BY <1>2, <2>1, CursorsStand DEF AWait, deal
<1>3. ASSUME NEW p \in Packets, ARead(p)
      PROVE  PipeInv'
  \* The head moves on by one and the backlog grows by one.
  <2>1. Backlog \in 0 .. QUEUE_DEPTH - 1 /\ Backlog' = Backlog + 1
    BY <1>3, DepthAssumption DEF ARead, deal, sems, lost
  <2>2. CursorsAgree'
    <3> HIDE DEF Backlog
    <3>1. queue_head' = Succ(queue_head) /\ queue_tail' = queue_tail
      BY <1>3 DEF ARead, deal
    <3> QED
      BY <2>1, <3>1, HeadAdvances DEF CursorsAgree
  <2>3. Types'
    <3>1. queue_head' \in Slots
      BY <1>3, SuccIf DEF ARead
    <3> QED
      BY <1>3, <3>1 DEF ARead, deal, sems, lost
  <2>4. StartUp' /\ PermitsAccounted'
    BY <1>3, DepthAssumption DEF ARead, deal, sems, lost
  <2> QED
    BY <2>2, <2>3, <2>4
<1>4. CASE AReadFails
  <2>1. Types' /\ StartUp' /\ PermitsAccounted' /\ Backlog' = Backlog
    BY <1>4, DepthAssumption DEF AReadFails, deal, sems
  <2> QED
    BY <1>4, <2>1, CursorsStand DEF AReadFails, deal
<1>5. CASE APost
  <2>1. Types' /\ StartUp' /\ PermitsAccounted' /\ Backlog' = Backlog
    BY <1>5, DepthAssumption DEF APost, deal, lost
  <2> QED
    BY <1>5, <2>1, CursorsStand DEF APost, deal
<1> QED
  BY <1>1, <1>2, <1>3, <1>4, <1>5 DEF AcqRuns

\* Every step of the deal thread keeps the invariant.
LEMMA DealKeepsPipe ==
  ASSUME PipeInv, DealRuns
  PROVE  PipeInv'
<1> USE DEF PipeInv, Types, StartUp, PermitsAccounted, Initialised, Backlog,
            One, DMove
<1>1. CASE DStart
  <2>1. Types' /\ StartUp' /\ PermitsAccounted' /\ Backlog' = Backlog
    BY <1>1, DepthAssumption DEF DStart, acq, sems, lost
  <2> QED
    BY <1>1, <2>1, CursorsStand DEF DStart, acq
<1>2. CASE DWait
  <2>1. Types' /\ StartUp' /\ PermitsAccounted' /\ Backlog' = Backlog
    BY <1>2, DepthAssumption DEF DWait, acq, lost
  <2> QED
    BY <1>2, <2>1, CursorsStand DEF DWait, acq
<1>3. CASE DOversize
  <2>1. Types' /\ StartUp' /\ PermitsAccounted' /\ Backlog' = Backlog
    BY <1>3, DepthAssumption DEF DOversize, acq, sems
  <2> QED
    BY <1>3, <2>1, CursorsStand DEF DOversize, acq
<1>4. CASE DDeal
  \* The tail moves on by one and the backlog shrinks by one.
  <2>1. Backlog \in 1 .. QUEUE_DEPTH /\ Backlog' = Backlog - 1
    BY <1>4, DepthAssumption DEF DDeal, acq, sems, lost
  <2>2. CursorsAgree'
    <3> HIDE DEF Backlog
    <3>1. queue_tail' = Succ(queue_tail) /\ queue_head' = queue_head
      BY <1>4 DEF DDeal, acq
    <3> QED
      BY <2>1, <3>1, TailAdvances DEF CursorsAgree
  <2>3. Types'
    <3>1. queue_tail' \in Slots /\ dealt' \in Packets \union {Blank}
      BY <1>4, SuccIf DEF DDeal
    <3> QED
      BY <1>4, <3>1 DEF DDeal, acq, sems, lost
  <2>4. StartUp' /\ PermitsAccounted'
    BY <1>4, DepthAssumption DEF DDeal, acq, sems, lost
  <2> QED
    BY <2>2, <2>3, <2>4
<1>5. CASE DPost
  <2>1. Types' /\ StartUp' /\ PermitsAccounted' /\ Backlog' = Backlog
    BY <1>5, DepthAssumption DEF DPost, acq, lost
  <2> QED
    BY <1>5, <2>1, CursorsStand DEF DPost, acq
<1> QED
  BY <1>1, <1>2, <1>3, <1>4, <1>5 DEF DealRuns

\* The invariant holds for ever.
THEOREM PipeCorrect == Spec => []PipeInv
<1>1. PipeInv /\ [Next]_vars => PipeInv'
  <2> SUFFICES ASSUME PipeInv, [Next]_vars PROVE PipeInv'
    OBVIOUS
  <2>1. CASE UNCHANGED vars
    BY <2>1 DEF PipeInv, Types, StartUp, PermitsAccounted, CursorsAgree,
       Initialised, Backlog, vars, acq, deal, sems, lost
  <2> QED
    BY <2>1, MainKeepsPipe, AcqKeepsPipe, DealKeepsPipe DEF Next
<1> QED
  BY <1>1, PipeInit, PTL DEF Spec

-----------------------------------------------------------------------------
(* What it gives.                                                          *)

\* Every variable keeps its type; the semaphores never exceed QUEUE_DEPTH.
THEOREM TypeCorrect == Spec => []TypeOK
<1>1. PipeInv => TypeOK
  BY TypesAreBounded DEF PipeInv
<1> QED
  BY <1>1, PipeCorrect, PTL

\* No slot is ever promised twice, whichever of the two sem_init the threads
\* overtake, and whatever the oversize packets and failed reads have lost.
THEOREM PermitsAddUp == Spec => []PermitsAccounted
<1>1. PipeInv => PermitsAccounted
  BY DEF PipeInv
<1> QED
  BY <1>1, PipeCorrect, PTL

\* queue_tail always points at the oldest packet that was not dealt with.
THEOREM CursorsStayApart == Spec => []CursorsAgree
<1>1. PipeInv => CursorsAgree
  BY DEF PipeInv
<1> QED
  BY <1>1, PipeCorrect, PTL

\* The thread that fills a slot of daq_data and the thread that looks at one
\* are never at the same slot, although no lock protects it.
THEOREM SlotsNeverOverlap == Spec => []NoOverlap
<1>1. PipeInv => NoOverlap
  <2> SUFFICES ASSUME PipeInv, apc = "read", dpc = "check"
               PROVE  queue_head # queue_tail
    BY DEF NoOverlap
  <2>1. Backlog \in 1 .. QUEUE_DEPTH - 1
    BY BacklogBounds, DepthAssumption DEF PipeInv
  <2>2. queue_tail \in Slots /\ queue_head = (queue_tail + Backlog) % QUEUE_DEPTH
    BY DEF PipeInv, Types, CursorsAgree
  <2>3. queue_head = IF queue_tail + Backlog < QUEUE_DEPTH
                     THEN queue_tail + Backlog
                     ELSE queue_tail + Backlog - QUEUE_DEPTH
    BY <2>1, <2>2, OneLap, DepthAssumption
  <2> QED
    BY <2>1, <2>2, <2>3, DepthAssumption DEF Slots
<1> QED
  BY <1>1, PipeCorrect, PTL

-----------------------------------------------------------------------------
(* The card and the process.                                               *)

\* Seen without the card, every behaviour of the path is one of the process.
THEOREM PathRunsThePipeline == PathSpec => Spec
<1>1. PathInit => Init
  BY DEF PathInit
<1>2. [PathNext]_pathVars => [Next]_vars
  <2> SUFFICES ASSUME [PathNext]_pathVars PROVE [Next]_vars
    OBVIOUS
  <2>1. CASE PathMain
    BY <2>1 DEF PathMain, Next
  <2>2. CASE PathAcqRuns
    <3>1. AStart \/ AWait \/ APost \/ APoll \/ (\E p \in Packets : ARead(p))
      BY <2>2 DEF PathAcqRuns, PathPoll, PathRead
    <3> QED
      BY <3>1 DEF Next, AcqRuns
  <2>3. CASE PathReadFails \/ PathDealRuns
    BY <2>3 DEF PathReadFails, PathDealRuns, Next, AcqRuns
  <2>4. CASE Card \/ UNCHANGED pathVars
    BY <2>4 DEF Card, CardPublish, CardReload, pathVars
  <2> QED
    BY <2>1, <2>2, <2>3, <2>4 DEF PathNext
<1> QED
  BY <1>1, <1>2, PTL DEF PathSpec, Spec

\* So what is proved of the process holds of it when the card feeds it.
THEOREM PathKeepsSlots ==
  PathSpec => [](PermitsAccounted /\ CursorsAgree /\ NoOverlap)
BY PathRunsThePipeline, PermitsAddUp, CursorsStayApart, SlotsNeverOverlap, PTL

-----------------------------------------------------------------------------
(* The poll and the read it was made for.                                  *)

PathInv ==
  /\ card \in Seq(Packets) /\ Len(card) <= CardCapacity
  /\ PolledDataIsThere

\* A step of the threads' own that leaves the card alone reaches the read only
\* from the poll, and the poll only with a node in the card.
LEMMA ThreadsKeepPath ==
  ASSUME PathInv, PathMain \/ PathAcqRuns \/ PathReadFails \/ PathDealRuns
  PROVE  PathInv'
<1> USE DEF PathInv, PolledDataIsThere
<1>1. CASE PathMain
  BY <1>1 DEF PathMain, Main, MCreateAcq, MCreateDeal, MInitFull, MInitEmpty,
     MReturn, acq, deal, sems, lost
<1>2. CASE (AStart \/ AWait \/ APost) /\ UNCHANGED card
  BY <1>2 DEF AStart, AWait, APost, AMove
<1>3. CASE PathPoll
  BY <1>3 DEF PathPoll, APoll, AMove
<1>4. CASE PathRead
  <2>1. card # <<>> /\ apc' = "post" /\ card' = Tail(card)
    BY <1>4 DEF PathRead, ARead, AMove
  <2> QED
    BY <2>1, CardAssumption
<1>5. CASE PathReadFails
  BY <1>5 DEF PathReadFails, AReadFails, AMove
<1>6. CASE PathDealRuns
  BY <1>6 DEF PathDealRuns, DealRuns, DStart, DWait, DOversize, DDeal, DPost,
     acq
<1> QED
  BY <1>1, <1>2, <1>3, <1>4, <1>5, <1>6 DEF PathAcqRuns

\* The card grows up to its capacity, and is cleared under nobody's feet.
LEMMA CardKeepsPath ==
  ASSUME PathInv, Card
  PROVE  PathInv'
<1> USE DEF PathInv, PolledDataIsThere
<1>1. ASSUME NEW p \in Packets, CardPublish(p)
      PROVE  PathInv'
  <2>1. card' = Append(card, p) /\ Len(card) < CardCapacity /\ apc' = apc
    BY <1>1 DEF CardPublish, vars, acq
  <2>2. Len(card') = Len(card) + 1 /\ card' # <<>> /\ card' \in Seq(Packets)
    BY <2>1
  <2> QED
    BY <2>1, <2>2, CardAssumption
<1>2. CASE CardReload
  <2>1. card' = <<>> /\ apc' = apc /\ apc \notin {"wait", "read"}
    BY <1>2 DEF CardReload, DeviceOpen, vars, acq
  <2> QED
    BY <2>1, CardAssumption
<1> QED
  BY <1>1, <1>2 DEF Card

\* The invariant of the path.
THEOREM PathCorrect == PathSpec => []PathInv
<1>1. PathInit => PathInv
  BY CardAssumption DEF PathInit, Init, PathInv, PolledDataIsThere
<1>2. PathInv /\ [PathNext]_pathVars => PathInv'
  <2>1. PathInv /\ UNCHANGED pathVars => PathInv'
    BY DEF PathInv, PolledDataIsThere, pathVars, vars, acq
  <2> QED
    BY <2>1, ThreadsKeepPath, CardKeepsPath DEF PathNext
<1> QED
  BY <1>1, <1>2, PTL DEF PathSpec

\* Whatever the semaphores do between epoll_wait and read(), dev_read is never
\* called on an empty card.
THEOREM ReadFindsItsPacket == PathSpec => []PolledDataIsThere
<1>1. PathInv => PolledDataIsThere
  BY DEF PathInv
<1> QED
  BY <1>1, PathCorrect, PTL

\* The card never holds more than its ring has room for.
THEOREM CardStaysWithinCapacity == PathSpec => [](Len(card) <= CardCapacity)
<1>1. PathInv => Len(card) <= CardCapacity
  BY DEF PathInv
<1> QED
  BY <1>1, PathCorrect, PTL

-----------------------------------------------------------------------------
(* One queue. The backlog, read off the slots from the tail on, followed by *)
(* the card's nodes is the queue: a read moves the oldest node from one to  *)
(* the other and changes nothing, a deal takes the oldest packet of all.    *)

\* b packets of the slots d, from the slot t on.
Held(d, t, b) == [i \in 1 .. b |-> d[(t + i - 1) % QUEUE_DEPTH]]

\* They are so many packets.
LEMMA HeldIsSeq ==
  ASSUME NEW S, NEW d \in [Slots -> S], NEW t \in Slots, NEW b \in Nat
  PROVE  Held(d, t, b) \in Seq(S) /\ Len(Held(d, t, b)) = b
<1>1. ASSUME NEW i \in 1 .. b PROVE d[(t + i - 1) % QUEUE_DEPTH] \in S
  <2>1. (t + i - 1) % QUEUE_DEPTH \in Slots
    BY DepthAssumption DEF Slots
  <2> QED
    BY <2>1
<1>2. Held(d, t, b) \in [1 .. b -> S]
  BY <1>1 DEF Held
<1> QED
  BY <1>2 DEF Held

\* Filling the first slot beyond them appends a packet.
LEMMA HeldGrows ==
  ASSUME NEW S, NEW d \in [Slots -> S], NEW t \in Slots,
         NEW b \in 0 .. QUEUE_DEPTH - 1, NEW p \in S
  PROVE  Held([d EXCEPT ![(t + b) % QUEUE_DEPTH] = p], t, b + 1)
           = Append(Held(d, t, b), p)
<1> DEFINE k == (t + b) % QUEUE_DEPTH
           e == [d EXCEPT ![k] = p]
<1>1. k \in Slots /\ k = IF t + b < QUEUE_DEPTH THEN t + b
                                                ELSE t + b - QUEUE_DEPTH
  BY OneLap, DepthAssumption DEF Slots
<1>2. e \in [Slots -> S] /\ e[k] = p
  BY <1>1
<1>3. /\ Held(e, t, b + 1) \in Seq(S) /\ Len(Held(e, t, b + 1)) = b + 1
      /\ Held(d, t, b) \in Seq(S) /\ Len(Held(d, t, b)) = b
  <2>1. b \in Nat /\ b + 1 \in Nat
    BY DepthAssumption
  <2> HIDE DEF e
  <2> QED
    BY <1>2, <2>1, HeldIsSeq, Zenon
<1>4. ASSUME NEW i \in 1 .. b
      PROVE  Held(e, t, b + 1)[i] = Held(d, t, b)[i]
  <2> DEFINE j == (t + (i - 1)) % QUEUE_DEPTH
  <2>1. j \in Slots /\ j = IF t + (i - 1) < QUEUE_DEPTH THEN t + (i - 1)
                                           ELSE t + (i - 1) - QUEUE_DEPTH
    <3>1. i - 1 \in 0 .. QUEUE_DEPTH
      BY DepthAssumption
    <3>2. j = IF t + (i - 1) < QUEUE_DEPTH THEN t + (i - 1)
                                           ELSE t + (i - 1) - QUEUE_DEPTH
      BY <3>1, OneLap
    <3> QED
      BY <3>1, <3>2, DepthAssumption DEF Slots
  <2>2. j # k
    BY <1>1, <2>1, DepthAssumption DEF Slots
  <2>3. e[j] = d[j]
    BY <1>1, <2>1, <2>2
  <2>4. t + i - 1 = t + (i - 1) /\ i \in 1 .. b + 1
    BY DEF Slots
  <2>5. Held(e, t, b + 1)[i] = e[j] /\ Held(d, t, b)[i] = d[j]
    <3> HIDE DEF e
    <3> QED
      BY <2>4 DEF Held
  <2> QED
    BY <2>3, <2>5
<1>5. Held(e, t, b + 1)[b + 1] = p
  <2>1. t + (b + 1) - 1 = t + b /\ b + 1 \in 1 .. b + 1
    BY DepthAssumption DEF Slots
  <2>2. Held(e, t, b + 1)[b + 1] = e[k]
    <3> HIDE DEF e
    <3> QED
      BY <2>1 DEF Held
  <2> QED
    BY <1>2, <2>2
<1> HIDE DEF e
<1>6. \A i \in 1 .. b + 1 :
        Held(e, t, b + 1)[i] = Append(Held(d, t, b), p)[i]
  BY <1>3, <1>4, <1>5, DepthAssumption
<1>7. Append(Held(d, t, b), p) \in Seq(S)
      /\ Len(Append(Held(d, t, b), p)) = b + 1
  BY <1>3
<1>8. Held(e, t, b + 1) = Append(Held(d, t, b), p)
  BY <1>3, <1>6, <1>7
<1> QED
  BY <1>8 DEF e

\* Without the first slot they are those from the next slot on.
LEMMA HeldShrinks ==
  ASSUME NEW S, NEW d \in [Slots -> S], NEW t \in Slots,
         NEW b \in 1 .. QUEUE_DEPTH
  PROVE  /\ Held(d, t, b) # <<>>
         /\ Head(Held(d, t, b)) = d[t]
         /\ Tail(Held(d, t, b)) = Held(d, Succ(t), b - 1)
<1>1. Succ(t) \in Slots /\ Succ(t) = IF t + 1 < QUEUE_DEPTH THEN t + 1 ELSE 0
  BY SuccIf
<1>2. /\ Held(d, t, b) \in Seq(S) /\ Len(Held(d, t, b)) = b
      /\ Held(d, Succ(t), b - 1) \in Seq(S)
      /\ Len(Held(d, Succ(t), b - 1)) = b - 1
  <2>1. b \in Nat /\ b - 1 \in Nat
    BY DepthAssumption
  <2> QED
    BY <1>1, <2>1, HeldIsSeq, Zenon
<1>3. Held(d, t, b)[1] = d[t]
  <2>1. (t + 0) % QUEUE_DEPTH = t
    <3>1. 0 \in 0 .. QUEUE_DEPTH
      BY DepthAssumption
    <3>2. (t + 0) % QUEUE_DEPTH = IF t + 0 < QUEUE_DEPTH THEN t + 0
                                               ELSE t + 0 - QUEUE_DEPTH
      BY <3>1, OneLap
    <3> QED
      BY <3>2, DepthAssumption DEF Slots
  <2>2. t + 1 - 1 = t + 0 /\ 1 \in 1 .. b
    BY DepthAssumption DEF Slots
  <2> QED
    BY <2>1, <2>2 DEF Held
<1>4. ASSUME NEW i \in 1 .. b - 1
      PROVE  Held(d, Succ(t), b - 1)[i] = Held(d, t, b)[i + 1]
  <2>1. (Succ(t) + (i - 1)) % QUEUE_DEPTH = (t + i) % QUEUE_DEPTH
    BY TailAdvances, DepthAssumption
  <2>2. /\ Succ(t) + i - 1 = Succ(t) + (i - 1)
        /\ t + (i + 1) - 1 = t + i /\ i + 1 \in 1 .. b
    BY <1>1, DepthAssumption DEF Slots
  <2> QED
    BY <2>1, <2>2 DEF Held
<1>5. Tail(Held(d, t, b)) \in Seq(S) /\ Len(Tail(Held(d, t, b))) = b - 1
  BY <1>2, DepthAssumption
<1>6. \A i \in 1 .. b - 1 : Tail(Held(d, t, b))[i] = Held(d, Succ(t), b - 1)[i]
  BY <1>2, <1>4, DepthAssumption
<1>7. Tail(Held(d, t, b)) = Held(d, Succ(t), b - 1)
  BY <1>2, <1>5, <1>6
<1> QED
  BY <1>2, <1>3, <1>7, DepthAssumption

\* Two sequences end to end, at their ends and at their seam.
LEMMA EndToEnd ==
  ASSUME NEW S, NEW w \in Seq(S), NEW c \in Seq(S)
  PROVE  /\ Len(w \o c) = Len(w) + Len(c)
         /\ \A p \in S : Append(w \o c, p) = w \o Append(c, p)
         /\ w # <<>> => /\ w \o c # <<>>
                        /\ Head(w \o c) = Head(w)
                        /\ Tail(w \o c) = Tail(w) \o c
         /\ c # <<>> => Append(w, Head(c)) \o Tail(c) = w \o c
<1>1. Len(w \o c) = Len(w) + Len(c)
  OBVIOUS
<1>2. ASSUME NEW p \in S PROVE Append(w \o c, p) = w \o Append(c, p)
  OBVIOUS
<1>3. ASSUME w # <<>>
      PROVE  w \o c # <<>> /\ Head(w \o c) = Head(w)
  BY <1>3
<1>4. ASSUME w # <<>>
      PROVE  Tail(w \o c) = Tail(w) \o c
  BY <1>4
<1>5. ASSUME c # <<>>
      PROVE  Append(w, Head(c)) \o Tail(c) = w \o c
  BY <1>5
<1> QED
  BY <1>1, <1>2, <1>3, <1>4, <1>5

\* The packets of the process's own ring, oldest first.
Waiting == Held(daq_data, queue_tail, Backlog)

\* A thread that has not opened the device, or could not, has acquired nothing,
\* and there is no thread before main has created it.
ClosedIsIdle ==
  /\ ~DeviceOpen => Backlog = 0
  /\ mpc = "create_acq" => apc = "none"

QueueInv == PipeInv /\ PathInv /\ ClosedIsIdle

\* What a step did to the two rings and to the open device.
Still == UNCHANGED <<daq_data, queue_tail, Backlog, card, dealt>>

\* The sequences behind a state of the invariant.
LEMMA QueueTypes ==
  ASSUME QueueInv
  PROVE  /\ Backlog \in 0 .. QUEUE_DEPTH
         /\ apc = "read" => Backlog < QUEUE_DEPTH
         /\ dpc = "check" => Backlog > 0
         /\ Waiting \in Seq(Packets \union {Blank})
         /\ Len(Waiting) = Backlog
         /\ card \in Seq(Packets \union {Blank})
<1>1. /\ Backlog \in 0 .. QUEUE_DEPTH
      /\ apc = "read" => Backlog < QUEUE_DEPTH
      /\ dpc = "check" => Backlog > 0
  BY BacklogBounds DEF QueueInv, PipeInv
<1>2. Backlog \in Nat
  BY <1>1, DepthAssumption
<1>3. /\ daq_data \in [Slots -> Packets \union {Blank}]
      /\ queue_tail \in Slots
  BY DEF QueueInv, PipeInv, Types
<1>4. Waiting \in Seq(Packets \union {Blank}) /\ Len(Waiting) = Backlog
  BY <1>2, <1>3, HeldIsSeq, Zenon DEF Waiting
<1>5. card \in Seq(Packets)
  BY DEF QueueInv, PathInv
<1>6. card \in Seq(Packets \union {Blank})
  BY <1>5
<1> QED
  BY <1>1, <1>4, <1>6

\* Nothing moves and the device stays as it was: the queue does not see it.
LEMMA PathStutters ==
  ASSUME Still, DeviceOpen' = DeviceOpen
  PROVE  UNCHANGED Path!vars
BY DEF Still, Path!vars

\* main never touches the rings.
LEMMA MainImplements ==
  ASSUME QueueInv, PathMain
  PROVE  ClosedIsIdle' /\ [Path!Next]_Path!vars
<1>1. mpc \in {"init_empty"} => erased = 0
  BY DEF QueueInv, PipeInv, StartUp
<1>2. Backlog' = Backlog /\ UNCHANGED <<daq_data, queue_tail, card, dealt>>
  <2>1. sem_empty \in Nat /\ dropped \in Nat /\ erased \in Nat
    BY DEF QueueInv, PipeInv, Types
  <2>2. CASE MInitEmpty
    BY <1>1, <2>1, <2>2, PathMain
       DEF PathMain, MInitEmpty, MMove, acq, deal, Backlog, One
  <2>3. CASE MCreateAcq \/ MCreateDeal \/ MInitFull \/ MReturn
    <3>1. UNCHANGED <<daq_data, queue_tail, card, dealt, sem_empty, dropped,
                      erased>>
      BY <2>3, PathMain DEF PathMain, MCreateAcq, MCreateDeal, MInitFull,
         MReturn, acq, deal, sems, lost
    <3>2. (apc = "post") = (apc' = "post") /\ (dpc = "check") = (dpc' = "check")
      <4>1. mpc = "create_acq" => apc = "none"
        BY DEF QueueInv, ClosedIsIdle
      <4>2. mpc = "create_deal" => dpc = "none"
        BY DEF QueueInv, PipeInv, StartUp
      <4> QED
        BY <2>3, <4>1, <4>2 DEF MCreateAcq, MCreateDeal, MInitFull, MReturn,
           acq, deal, MMove
    <3> QED
      BY <3>1, <3>2 DEF Backlog, One
  <2> QED
    BY <2>2, <2>3 DEF PathMain, Main
<1>3. mpc' # "create_acq"
  BY DEF PathMain, Main, MCreateAcq, MCreateDeal, MInitFull, MInitEmpty,
     MReturn, MMove
<1>4. DeviceOpen' = DeviceOpen
  <2>1. mpc = "create_acq" => apc = "none"
    BY DEF QueueInv, ClosedIsIdle
  <2> QED
    BY <2>1 DEF PathMain, Main, MCreateAcq, MCreateDeal, MInitFull, MInitEmpty,
       MReturn, MMove, acq, DeviceOpen
<1>5. ~DeviceOpen => Backlog = 0
  BY DEF QueueInv, ClosedIsIdle
<1>6. ClosedIsIdle'
  BY <1>2, <1>3, <1>4, <1>5 DEF ClosedIsIdle
<1> QED
  BY <1>2, <1>4, <1>6, PathStutters DEF Still

\* The acquisition thread attaches to the queue when it opens the device, and
\* its read only moves a packet on.
LEMMA AcqImplements ==
  ASSUME QueueInv, PathAcqRuns \/ PathReadFails
  PROVE  ClosedIsIdle' /\ [Path!Next]_Path!vars
<1>1. Types /\ PolledDataIsThere
  BY DEF QueueInv, PipeInv, PathInv
<1>2. /\ ~DeviceOpen => Backlog = 0
      /\ mpc = "create_acq" => apc = "none"
  BY DEF QueueInv, ClosedIsIdle
<1>3. CASE AStart /\ UNCHANGED card
  <2>1. Still
    BY <1>3 DEF AStart, AMove, deal, sems, lost, Still, Backlog, One
  <2>2. ~DeviceOpen /\ Backlog = 0 /\ mpc' # "create_acq"
    BY <1>2, <1>3 DEF AStart, AMove, DeviceOpen
  <2>3. ClosedIsIdle'
    BY <2>1, <2>2 DEF Still, ClosedIsIdle
  <2>4. CASE apc' = "poll"
    <3>1. DeviceOpen'
      BY <2>4 DEF DeviceOpen
    <3>2. Path!Attach("deal")
      BY <2>1, <2>2, <3>1 DEF Path!Attach, Still
    <3> QED
      BY <2>3, <3>2 DEF Path!Next
  <2>5. CASE apc' = "exited"
    <3>1. DeviceOpen' = DeviceOpen
      BY <2>2, <2>5 DEF DeviceOpen
    <3>2. UNCHANGED Path!vars
      BY <2>1, <3>1, PathStutters
    <3> QED
      BY <2>3, <3>2
  <2> QED
    BY <1>3, <2>4, <2>5 DEF AStart, AMove
<1>4. CASE (AWait /\ UNCHANGED card) \/ PathPoll \/ PathReadFails
  <2>1. Still
    BY <1>4 DEF AWait, PathPoll, APoll, PathReadFails, AReadFails, AMove, deal,
       sems, lost, Still, Backlog, One
  <2>2. DeviceOpen /\ DeviceOpen'
    BY <1>4 DEF AWait, PathPoll, APoll, PathReadFails, AReadFails, AMove,
       DeviceOpen
  <2>3. mpc' # "create_acq"
    BY <1>2, <1>4 DEF AWait, PathPoll, APoll, PathReadFails, AReadFails, AMove
  <2> QED
    BY <2>1, <2>2, <2>3, PathStutters DEF ClosedIsIdle
<1>5. CASE APost /\ UNCHANGED card
  <2>1. Backlog' = Backlog
    BY <1>1, <1>5 DEF APost, AMove, deal, lost, Backlog, One, Types
  <2>2. Still
    BY <1>5, <2>1 DEF APost, deal, Still
  <2>3. DeviceOpen /\ DeviceOpen'
    BY <1>5 DEF APost, AMove, DeviceOpen
  <2>4. mpc' # "create_acq"
    BY <1>2, <1>5 DEF APost, AMove
  <2> QED
    BY <2>2, <2>3, <2>4, PathStutters DEF ClosedIsIdle
<1>6. CASE PathRead
  <2>1. PICK p \in Packets :
          /\ card # <<>> => p = Head(card)
          /\ ARead(p)
          /\ card' = IF card = <<>> THEN card ELSE Tail(card)
    BY <1>6 DEF PathRead
  <2>2. /\ apc = "read" /\ apc' = "post" /\ mpc' = mpc
        /\ daq_data' = [daq_data EXCEPT ![queue_head] = p]
        /\ queue_tail' = queue_tail /\ dealt' = dealt
    BY <2>1 DEF ARead, AMove, deal
  <2>3. card # <<>> /\ p = Head(card) /\ card' = Tail(card)
    BY <1>1, <2>1, <2>2 DEF PolledDataIsThere
  <2>4. Backlog' = Backlog + 1
    BY <1>1, <2>1 DEF ARead, AMove, deal, sems, lost, Backlog, One, Types
  <2>5. Backlog \in 0 .. QUEUE_DEPTH - 1
    BY <2>2, QueueTypes, DepthAssumption
  <2>6. queue_head = (queue_tail + Backlog) % QUEUE_DEPTH
    BY DEF QueueInv, PipeInv, CursorsAgree
  <2>7. Waiting' = Append(Waiting, p)
    <3>1. /\ daq_data \in [Slots -> Packets \union {Blank}]
          /\ queue_tail \in Slots /\ p \in Packets \union {Blank}
      BY <1>1 DEF Types
    <3>2. Held([daq_data EXCEPT ![(queue_tail + Backlog) % QUEUE_DEPTH] = p],
               queue_tail, Backlog + 1)
            = Append(Held(daq_data, queue_tail, Backlog), p)
      BY <2>5, <3>1, HeldGrows
    <3> HIDE DEF Backlog
    <3> QED
      BY <2>2, <2>4, <2>6, <3>2 DEF Waiting
  <2>8. Waiting' \o card' = Waiting \o card
    BY <2>3, <2>7, QueueTypes, EndToEnd
  <2>9. DeviceOpen /\ DeviceOpen' /\ mpc' # "create_acq"
    BY <1>2, <2>2 DEF DeviceOpen
  <2>10. UNCHANGED Path!vars
    BY <2>2, <2>8, <2>9 DEF Path!vars, Waiting, Held
  <2> QED
    BY <2>9, <2>10 DEF ClosedIsIdle
<1> QED
  BY <1>3, <1>4, <1>5, <1>6 DEF PathAcqRuns

\* The deal thread takes the oldest packet of the queue, or none.
LEMMA DealImplements ==
  ASSUME QueueInv, PathDealRuns
  PROVE  ClosedIsIdle' /\ [Path!Next]_Path!vars
<1>1. Types
  BY DEF QueueInv, PipeInv
<1>2. /\ ~DeviceOpen => Backlog = 0
      /\ mpc = "create_acq" => apc = "none"
  BY DEF QueueInv, ClosedIsIdle
<1>3. UNCHANGED <<mpc, apc, daq_data, card>>
  BY DEF PathDealRuns, DealRuns, DStart, DWait, DOversize, DDeal, DPost, acq
<1>4. DeviceOpen' = DeviceOpen
  BY <1>3 DEF DeviceOpen
<1>5. CASE DStart \/ DPost \/ DWait \/ DOversize
  <2>1. Backlog' = Backlog
    <3>1. CASE DStart \/ DPost
      BY <3>1 DEF DStart, DPost, DMove, acq, sems, lost, Backlog, One
    <3>2. CASE DWait
      BY <1>1, <3>2 DEF DWait, DMove, acq, lost, Backlog, One, Types
    <3>3. CASE DOversize
      BY <1>1, <3>3 DEF DOversize, DMove, acq, sems, Backlog, One, Types
    <3> QED
      BY <1>5, <3>1, <3>2, <3>3
  <2>2. UNCHANGED <<queue_tail, dealt>>
    BY <1>5 DEF DStart, DPost, DWait, DOversize
  <2> QED
    BY <1>2, <1>3, <1>4, <2>1, <2>2, PathStutters DEF Still, ClosedIsIdle
<1>6. CASE DDeal
  <2>1. /\ dpc = "check" /\ dealt' = daq_data[queue_tail]
        /\ queue_tail' = Succ(queue_tail)
    BY <1>6 DEF DDeal, DMove
  <2>2. Backlog' = Backlog - 1
    BY <1>1, <1>6 DEF DDeal, DMove, acq, sems, lost, Backlog, One, Types
  <2>3. Backlog \in 1 .. QUEUE_DEPTH /\ Backlog # 0
    BY <2>1, QueueTypes, DepthAssumption
  <2>4. DeviceOpen /\ DeviceOpen'
    BY <1>2, <1>4, <2>3
  <2>5. /\ Waiting # <<>> /\ Head(Waiting) = daq_data[queue_tail]
        /\ Tail(Waiting) = Waiting'
    <3>1. /\ daq_data \in [Slots -> Packets \union {Blank}]
          /\ queue_tail \in Slots
      BY <1>1 DEF Types
    <3>2. /\ Held(daq_data, queue_tail, Backlog) # <<>>
          /\ Head(Held(daq_data, queue_tail, Backlog)) = daq_data[queue_tail]
          /\ Tail(Held(daq_data, queue_tail, Backlog))
               = Held(daq_data, Succ(queue_tail), Backlog - 1)
      BY <2>3, <3>1, HeldShrinks
    <3> HIDE DEF Backlog
    <3> QED
      BY <1>3, <2>1, <2>2, <3>2 DEF Waiting
  <2>6. /\ Waiting \o card # <<>>
        /\ Head(Waiting \o card) = dealt'
        /\ Tail(Waiting \o card) = Waiting' \o card'
    BY <1>3, <2>1, <2>5, QueueTypes, EndToEnd
  <2>7. Path!Take("deal")
    BY <2>4, <2>6 DEF Path!Take, Waiting, Held
  <2> QED
    BY <1>2, <1>3, <2>4, <2>7 DEF Path!Next, ClosedIsIdle
<1> QED
  BY <1>5, <1>6 DEF PathDealRuns, DealRuns

\* The card puts packets in, and loses them only when nobody is attached.
LEMMA CardImplements ==
  ASSUME QueueInv, Card
  PROVE  ClosedIsIdle' /\ [Path!Next]_Path!vars
<1>1. UNCHANGED <<daq_data, queue_tail, Backlog, dealt, mpc, apc>>
  BY DEF Card, CardPublish, CardReload, vars, acq, deal, sems, lost, Backlog
<1>2. DeviceOpen' = DeviceOpen /\ Waiting' = Waiting
  <2> HIDE DEF Backlog
  <2> QED
    BY <1>1 DEF DeviceOpen, Waiting
<1>3. ClosedIsIdle'
  BY <1>1, <1>2 DEF QueueInv, ClosedIsIdle
<1>4. ASSUME NEW p \in Packets, CardPublish(p)
      PROVE  Path!Next
  <2>1. card' = Append(card, p) /\ Len(card) < CardCapacity
    BY <1>4 DEF CardPublish
  <2>2. /\ Waiting' \o card' = Append(Waiting \o card, p)
        /\ Len(Waiting \o card) = Backlog + Len(card)
    BY <1>2, <2>1, QueueTypes, EndToEnd
  <2>3. Len(Waiting \o card) < CardCapacity + QUEUE_DEPTH
    BY <2>1, <2>2, QueueTypes, DepthAssumption, CardAssumption
  <2>4. Path!Put(p)
    BY <1>1, <1>2, <2>2, <2>3 DEF Path!Put, Waiting, Held
  <2> QED
    BY <2>4 DEF Path!Next
<1>5. CASE CardReload
  <2>1. ~DeviceOpen /\ ~DeviceOpen' /\ card' = <<>>
    BY <1>2, <1>5 DEF CardReload
  <2>2. Backlog' = 0
    BY <1>1, <2>1 DEF QueueInv, ClosedIsIdle
  <2>3. Waiting' = <<>>
    <3> HIDE DEF Backlog
    <3> QED
      BY <2>2 DEF Waiting, Held
  <2>4. Waiting' \o card' = <<>>
    BY <2>1, <2>3
  <2>5. Path!Clear
    BY <1>1, <2>1, <2>4 DEF Path!Clear, Waiting, Held
  <2> QED
    BY <1>3, <2>5 DEF Path!Next
<1> QED
  BY <1>3, <1>4, <1>5 DEF Card

\* From the kernel thread to the deal thread, across both rings and both
\* semaphores, the path is one bounded queue: whatever is dealt with was
\* published, in that order, each packet once.
THEOREM PathImplementsQueue == PathSpec => PathIsQueue
<1>1. PathInit => ClosedIsIdle /\ Path!Init
  <2> SUFFICES ASSUME PathInit PROVE ClosedIsIdle /\ Path!Init
    OBVIOUS
  <2>1. Backlog = 0 /\ ~DeviceOpen /\ card = <<>> /\ dealt = Blank
    BY DEF PathInit, Init, Backlog, One, DeviceOpen
  <2>2. Waiting = <<>>
    <3> HIDE DEF Backlog
    <3> QED
      BY <2>1 DEF Waiting, Held
  <2>3. Waiting \o card = <<>>
    BY <2>1, <2>2
  <2> QED
    BY <2>1, <2>3 DEF PathInit, Init, ClosedIsIdle, Path!Init, Waiting, Held
<1>2. QueueInv /\ [PathNext]_pathVars => ClosedIsIdle' /\ [Path!Next]_Path!vars
  <2> SUFFICES ASSUME QueueInv, [PathNext]_pathVars
               PROVE  ClosedIsIdle' /\ [Path!Next]_Path!vars
    OBVIOUS
  <2>1. CASE UNCHANGED pathVars
    <3>1. Still /\ UNCHANGED <<mpc, apc>> /\ DeviceOpen' = DeviceOpen
      BY <2>1 DEF pathVars, vars, acq, deal, sems, lost, Still, Backlog,
         DeviceOpen
    <3> QED
      BY <3>1, PathStutters DEF Still, ClosedIsIdle, QueueInv
  <2> QED
    BY <2>1, MainImplements, AcqImplements, DealImplements, CardImplements
       DEF PathNext
<1>3. PathSpec => []PipeInv
  BY PathRunsThePipeline, PipeCorrect, PTL
<1>4. PathSpec => []ClosedIsIdle
  <2>1. PipeInv /\ PathInv /\ ClosedIsIdle /\ [PathNext]_pathVars => ClosedIsIdle'
    BY <1>2 DEF QueueInv
  <2> QED
    BY <1>1, <1>3, <2>1, PathCorrect, PTL DEF PathSpec
<1>5. PipeInv /\ PathInv /\ ClosedIsIdle /\ [PathNext]_pathVars
        => [Path!Next]_Path!vars
  BY <1>2 DEF QueueInv
<1> QED
  BY <1>1, <1>3, <1>4, <1>5, PathCorrect, PTL
     DEF PathSpec, PathIsQueue, Path!Spec
=============================================================================
