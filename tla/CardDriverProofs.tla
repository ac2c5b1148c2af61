-------------------------- MODULE CardDriverProofs --------------------------
(* Theorems about the driver for a ring of any depth, any set of commanders *)
(* and, where it matters, a single reader.                                  *)
EXTENDS CardDriver, SequenceTheorems, TLAPS

-----------------------------------------------------------------------------
(* The ring index.                                                         *)

\* The next slot, without the remainder.
LEMMA SuccIf ==
  ASSUME NEW i \in Slots
  PROVE  Succ(i) = IF i = QUEUE_DEPTH - 1 THEN 0 ELSE i + 1
<1>1. CASE i = QUEUE_DEPTH - 1
  <2>1. Succ(i) = QUEUE_DEPTH % QUEUE_DEPTH
    BY <1>1, DepthAssumption DEF Succ, Slots
  <2> QED
    BY <1>1, <2>1, DepthAssumption
<1>2. CASE i # QUEUE_DEPTH - 1
  <2>1. i + 1 \in 0 .. QUEUE_DEPTH - 1
    BY <1>2, DepthAssumption DEF Slots
  <2> QED
    BY <1>2, <2>1, DepthAssumption DEF Succ
<1> QED
  BY <1>1, <1>2

\* Advancing a cursor stays in the ring, moves, and can be undone.
LEMMA SuccSlots ==
  /\ \A i \in Slots : Succ(i) \in Slots /\ Succ(i) # i
  /\ \A i, j \in Slots : Succ(i) = Succ(j) => i = j
<1>1. \A i \in Slots : Succ(i) = IF i = QUEUE_DEPTH - 1 THEN 0 ELSE i + 1
  BY SuccIf
<1> QED
  BY <1>1, DepthAssumption DEF Slots
-----------------------------------------------------------------------------
(* Types.                                                                  *)

\* What dev_driver_init stores is of the right type.
LEMMA FreshTypes ==
  /\ 0 \in Slots
  /\ [i \in Slots |-> Uninit] \in [Slots -> Packets]
  /\ KLocals \in [head : Slots, tail : Slots, action : Actions]
<1>1. 0 \in Slots /\ Uninit \in Packets /\ "STOP_DAQ" \in Actions
  BY DepthAssumption DEF Slots, Packets, Actions
<1> QED
  BY <1>1 DEF KLocals

\* dev_driver_init leaves every variable with its type.
LEMMA TypeInit == Init => TypeOK
<1> SUFFICES ASSUME Init PROVE TypeOK
  OBVIOUS
<1>1. /\ rbuf \in [Readers -> Packets] /\ delivered \in [Readers -> Packets]
      /\ rtail \in [Readers -> Slots]
  BY FreshTypes DEF Init, Packets
<1>2. acquisition_action \in Actions /\ after_stop \in 0 .. 2
  BY DEF Init, Actions
<1> QED
  BY <1>1, <1>2, FreshTypes DEF Init, TypeOK, KPcs, RPcs

\* Every step keeps the types, one case per action.
LEMMA TypeStep == TypeOK /\ [Next]_vars => TypeOK'
<1> SUFFICES ASSUME TypeOK, [Next]_vars
             PROVE  TypeOK'
  OBVIOUS
<1> USE DEF TypeOK
<1>1. CASE KLoad
  BY <1>1 DEF KLoad, KMove, KPcs, ring, control, user
<1>2. CASE KQuit
  BY <1>2 DEF KQuit, KMove, KPcs, ring, control, user
<1>3. CASE KDecideSleep
  BY <1>3 DEF KDecideSleep, KMove, KPcs, ring, control, user
<1>4. CASE KDecideFill
  BY <1>4 DEF KDecideFill, KMove, KPcs, ring, control, user
<1>5. CASE KPrepare
  BY <1>5 DEF KPrepare, KMove, KPcs, ring, control, user
<1>6. CASE KSchedule
  BY <1>6 DEF KSchedule, KMove, KPcs, ring, control, user
<1>7. CASE KFill
  <2>1. node' \in [Slots -> Packets]
    BY <1>7 DEF KFill, Packets
  <2> QED
    BY <1>7, <2>1 DEF KFill, KMove, KPcs, control, user
<1>8. CASE KPublish
  BY <1>8, SuccSlots DEF KPublish, KMove, KPcs, user
<1>9. CASE KWakeReaders
  BY <1>9 DEF KWakeReaders, KMove, KPcs, ring, control
<1>10. CASE \E r \in Readers : Reader(r)
  <2> SUFFICES ASSUME NEW r \in Readers, Reader(r)
               PROVE  TypeOK'
    BY <1>10
  <2> USE DEF RMove, RPcs
  <2>1. CASE ROpen(r)
    BY <2>1 DEF ROpen, ring, control, kthread
  <2>2. CASE RPollData(r)
    BY <2>2 DEF RPollData, ring, control, kthread
  <2>3. CASE RPollEmpty(r)
    BY <2>3 DEF RPollEmpty, ring, control, kthread
  <2>4. CASE RLoadTail(r)
    BY <2>4 DEF RLoadTail, ring, control, kthread
  <2>5. CASE RCopy(r)
    BY <2>5 DEF RCopy, ring, control, kthread
  <2>6. CASE RAdvance(r)
    BY <2>6, SuccSlots DEF RAdvance, control, kthread
  <2>7. CASE RWake(r)
    BY <2>7 DEF RWake, WakeKthread, ring, control
  <2>8. CASE RClose(r)
    BY <2>8 DEF RClose, ring, control, kthread
  <2> QED
    BY <2>1, <2>2, <2>3, <2>4, <2>5, <2>6, <2>7, <2>8 DEF Reader, InRead
<1>11. CASE \E c \in Commanders : Commander(c)
  <2> SUFFICES ASSUME NEW c \in Commanders, Commander(c)
               PROVE  TypeOK'
    BY <1>11
  <2>1. ASSUME NEW cmd \in Actions, CAction(c, cmd)
        PROVE  TypeOK'
    BY <2>1 DEF CAction, ring, kthread, user
  <2>2. ASSUME NEW points \in BOOLEAN, CSetParameter(c, points)
        PROVE  TypeOK'
    BY <2>2 DEF CSetParameter, ring, kthread, user
  <2>3. CASE CWake(c)
    BY <2>3 DEF CWake, WakeKthread, ring, control, user
  <2> QED
    BY <2>1, <2>2, <2>3 DEF Commander
<1>12. CASE Module
  <2>1. CASE XBegin
    BY <2>1 DEF XBegin, WakeKthread, ring, control, user
  <2>2. CASE XStop
    BY <2>2 DEF XStop, WakeKthread, ring, control, user
  <2>3. CASE XJoin
    BY <2>3 DEF XJoin, ring, control, kthread, user
  <2>4. CASE XLoad
    <3>1. /\ queue_head' \in Slots /\ queue_tail' \in Slots
          /\ node' \in [Slots -> Packets]
          /\ k' \in [head : Slots, tail : Slots, action : Actions]
      BY <2>4, FreshTypes DEF XLoad
    <3>2. /\ acquisition_action' \in Actions /\ kpc' \in KPcs
          /\ kstate' \in {"RUNNING", "INTERRUPTIBLE"}
          /\ xpc' \in {"live", "stop", "join", "gone"}
          /\ after_stop' \in 0 .. 2
      BY <2>4 DEF XLoad, KPcs, Actions
    <3>4. has_points' \in BOOLEAN /\ should_stop' \in BOOLEAN
      BY <2>4, Zenon DEF XLoad
    <3>3. UNCHANGED <<rpc, rtail, rbuf, ready, delivered, cpc>>
      BY <2>4 DEF XLoad, user
    <3> QED
      BY <3>1, <3>2, <3>3, <3>4
  <2> QED
    BY <1>12, <2>1, <2>2, <2>3, <2>4 DEF Module
<1>13. CASE UNCHANGED vars
  BY <1>13 DEF vars, ring, control, kthread, user
<1> QED
  BY <1>1, <1>2, <1>3, <1>4, <1>5, <1>6, <1>7, <1>8, <1>9, <1>10, <1>11,
     <1>12, <1>13 DEF Next, Kthread

\* Every variable keeps its type, whoever uses the device.
THEOREM TypeCorrect == Spec => []TypeOK
  BY TypeInit, TypeStep, PTL DEF Spec
-----------------------------------------------------------------------------
(* After STOP. One packet may still appear because the kernel thread works *)
(* on a copy of the command: the invariant follows that copy.              *)

StopInv ==
  /\ acquisition_action = "START_DAQ" => after_stop = 0
  /\ after_stop <= 1
  /\ kpc \in {"fill", "publish"} => k.action = "START_DAQ"
  /\ kpc \in {"check", "fill", "publish"} /\ k.action = "START_DAQ"
       => after_stop = 0

\* At most one packet is published after a STOP, however many commanders and
\* readers there are (the copy of acquisition_action, driver.c 188 and 201).
THEOREM StopIsPrompt == Spec => []AtMostOnePacketAfterStop
<1>1. Init => StopInv
  BY DEF Init, StopInv
<1>2. TypeOK /\ StopInv /\ [Next]_vars => StopInv'
  <2> SUFFICES ASSUME TypeOK, StopInv, [Next]_vars
               PROVE  StopInv'
    OBVIOUS
  <2> USE DEF StopInv
  <2>1. CASE KLoad
    BY <2>1 DEF KLoad, KMove, control
  <2>2. CASE KDecideFill
    BY <2>2 DEF KDecideFill, KMove, control
  <2>3. CASE KQuit \/ KDecideSleep \/ KPrepare \/ KSchedule
    BY <2>3 DEF KQuit, KDecideSleep, KPrepare, KSchedule, KMove, control
  <2>4. CASE KFill
    BY <2>4 DEF KFill, KMove, control
  <2>5. CASE KPublish
    BY <2>5 DEF KPublish, KMove
  <2>6. CASE KWakeReaders
    BY <2>6 DEF KWakeReaders, KMove, control
  <2>7. CASE \E r \in Readers : Reader(r)
    <3>1. UNCHANGED <<control, kpc, k>>
      BY <2>7 DEF Reader, InRead, ROpen, RPollData, RPollEmpty, RLoadTail,
         RCopy, RAdvance, RWake, RClose, kthread
    <3> QED
      BY <3>1 DEF control
  <2>8. CASE \E c \in Commanders : Commander(c)
    <3> SUFFICES ASSUME NEW c \in Commanders, Commander(c)
                 PROVE  StopInv'
      BY <2>8
    <3>1. ASSUME NEW cmd \in Actions, CAction(c, cmd)
          PROVE  StopInv'
      BY <3>1 DEF CAction, kthread, TypeOK, Actions
    <3>2. CASE CWake(c) \/ \E points \in BOOLEAN : CSetParameter(c, points)
      BY <3>2 DEF CWake, CSetParameter, kthread, control
    <3> QED
      BY <3>1, <3>2 DEF Commander
  <2>9. CASE XBegin \/ XStop \/ XJoin
    BY <2>9 DEF XBegin, XStop, XJoin, control, kthread
  <2>10. CASE XLoad
    BY <2>10 DEF XLoad
  <2>11. CASE UNCHANGED vars
    BY <2>11 DEF vars, control, kthread
  <2> QED
    BY <2>1, <2>2, <2>3, <2>4, <2>5, <2>6, <2>7, <2>8, <2>9, <2>10, <2>11
       DEF Next, Kthread, Module
<1>3. StopInv => AtMostOnePacketAfterStop
  BY DEF StopInv, AtMostOnePacketAfterStop
<1> QED
  BY <1>1, <1>2, <1>3, TypeCorrect, PTL DEF Spec

-----------------------------------------------------------------------------
(* The ring with one reader, which is how acqusition_storage_report opens  *)
(* the device.  With two readers the invariant is false: each may act on a *)
(* poll that the other one has made stale.                                 *)

SingleReader == \A r, s \in Readers : r = s

\* What the kernel thread may rely on: only it moves queue_head, and a reader
\* can only make room behind its back.
KernelInv ==
  /\ kpc \in {"check", "fill", "publish"} => k.head = queue_head
  /\ kpc = "check" /\ ~Full(k.head, k.tail) => ~Full(queue_head, queue_tail)
  /\ kpc \in {"fill", "publish"} => ~Full(queue_head, queue_tail)

\* What a reader may rely on: only it moves queue_tail, and the kernel thread
\* can only add packets behind its back.
ReaderInv ==
  \A r \in Readers :
    /\ rpc[r] \in {"read", "copy", "advance"} => queue_head # queue_tail
    /\ rpc[r] \in {"copy", "advance"} => rtail[r] = queue_tail

\* The ring is only set up anew when nobody is reading it.
RemovalInv == xpc # "live" => ~InUse

RingInv == TypeOK /\ KernelInv /\ ReaderInv /\ RemovalInv
\* The invariant holds of a module just loaded.
LEMMA RingInit == Init => RingInv
<1> SUFFICES ASSUME Init PROVE KernelInv /\ ReaderInv /\ RemovalInv /\ TypeOK
  BY DEF RingInv
<1>1. TypeOK
  BY TypeInit
<1>2. KernelInv /\ ReaderInv /\ RemovalInv
  BY DEF Init, KernelInv, ReaderInv, RemovalInv
<1> QED
  BY <1>1, <1>2

\* Every step of the kernel thread keeps it.
LEMMA KthreadKeepsRing ==
  ASSUME RingInv, Kthread, TypeOK'
  PROVE  RingInv'
<1> USE DEF RingInv, KernelInv, ReaderInv, RemovalInv, InUse
<1>1. CASE KLoad
  BY <1>1 DEF KLoad, KMove, ring, user
<1>2. CASE KDecideFill
  BY <1>2 DEF KDecideFill, KMove, ring, user
<1>3. CASE KQuit \/ KDecideSleep \/ KPrepare \/ KSchedule
  BY <1>3 DEF KQuit, KDecideSleep, KPrepare, KSchedule, KMove, ring, user
<1>4. CASE KFill
  BY <1>4 DEF KFill, KMove, user
<1>5. CASE KPublish
  <2>1. queue_head' # queue_tail'
    BY <1>5 DEF KPublish, KMove, Full
  <2> QED
    BY <1>5, <2>1 DEF KPublish, KMove, user
<1>6. CASE KWakeReaders
  BY <1>6 DEF KWakeReaders, KMove, ring
<1> QED
  BY <1>1, <1>2, <1>3, <1>4, <1>5, <1>6 DEF Kthread

\* Every step of the only reader keeps it.
LEMMA ReaderKeepsRing ==
  ASSUME SingleReader, RingInv, NEW r \in Readers, Reader(r), TypeOK'
  PROVE  RingInv'
<1> USE DEF RingInv, KernelInv, ReaderInv, RemovalInv, InUse, RMove
<1>1. \A s \in Readers : s = r
  BY DEF SingleReader
<1>2. rpc \in [Readers -> RPcs] /\ rtail \in [Readers -> Slots]
  BY DEF TypeOK
<1>3. CASE ROpen(r)
  BY <1>1, <1>2, <1>3 DEF ROpen, ring, kthread
<1>4. CASE RPollData(r)
  BY <1>1, <1>2, <1>4 DEF RPollData, ring, kthread
<1>5. CASE RPollEmpty(r)
  BY <1>5 DEF RPollEmpty, ring, kthread
<1>6. CASE RLoadTail(r)
  BY <1>1, <1>2, <1>6 DEF RLoadTail, ring, kthread
<1>7. CASE RCopy(r)
  BY <1>1, <1>2, <1>7 DEF RCopy, ring, kthread
<1>8. CASE RAdvance(r)
  \* Making room: a ring that holds something is not full after the advance.
  <2>1. ~Full(queue_head', queue_tail')
    <3>1. queue_head # queue_tail /\ rtail[r] = queue_tail
      BY <1>8 DEF RAdvance
    <3>2. queue_head' = queue_head /\ queue_tail' = Succ(queue_tail)
      BY <1>8, <3>1 DEF RAdvance
    <3> QED
      BY <3>1, <3>2, SuccSlots DEF Full, TypeOK
  <2> QED
    BY <1>1, <1>2, <1>8, <2>1 DEF RAdvance, kthread
<1>9. CASE RWake(r)
  BY <1>1, <1>2, <1>9 DEF RWake, ring
<1>10. CASE RClose(r)
  BY <1>1, <1>2, <1>10 DEF RClose, ring, kthread
<1> QED
  BY <1>3, <1>4, <1>5, <1>6, <1>7, <1>8, <1>9, <1>10 DEF Reader, InRead

\* So do the commands and the removal and loading of the module.
LEMMA OthersKeepRing ==
  ASSUME RingInv, TypeOK', (\E c \in Commanders : Commander(c)) \/ Module
  PROVE  RingInv'
<1> USE DEF RingInv, KernelInv, ReaderInv, RemovalInv, InUse
<1>1. CASE \E c \in Commanders : Commander(c)
  <2>1. UNCHANGED <<ring, kpc, k, user, xpc>>
    BY <1>1 DEF Commander, CAction, CWake, CSetParameter, kthread
  <2>2. xpc # "live" => UNCHANGED cpc \/ ~InUse'
    BY <1>1 DEF Commander, CAction, CWake, CSetParameter, user
  <2> QED
    BY <2>1, <2>2 DEF ring, user
<1>2. CASE XBegin \/ XStop \/ XJoin
  BY <1>2 DEF XBegin, XStop, XJoin, ring, kthread, user
<1>3. CASE XLoad
  BY <1>3 DEF XLoad, user
<1> QED
  BY <1>1, <1>2, <1>3 DEF Module

\* With one reader the ring invariant holds for ever.
THEOREM RingCorrect == SingleReader => (Spec => []RingInv)
<1> SUFFICES ASSUME SingleReader PROVE Spec => []RingInv
  OBVIOUS
<1>1. RingInv /\ [Next]_vars => RingInv'
  <2> SUFFICES ASSUME RingInv, [Next]_vars PROVE RingInv'
    OBVIOUS
  <2>1. TypeOK'
    BY TypeStep DEF RingInv
  <2>2. CASE UNCHANGED vars
    BY <2>1, <2>2 DEF RingInv, KernelInv, ReaderInv, RemovalInv, InUse,
       vars, ring, kthread, user
  <2> QED
    BY <2>1, <2>2, KthreadKeepsRing, ReaderKeepsRing, OthersKeepRing DEF Next
<1> QED
  BY <1>1, RingInit, PTL DEF Spec

-----------------------------------------------------------------------------
(* What the ring invariant gives.                                          *)

\* With one reader, a read that poll let through always has a packet to
\* return (driver.c 83-95 never looks).
THEOREM NeverUnderruns == SingleReader => (Spec => []NoUnderrun)
<1>1. RingInv => NoUnderrun
  BY DEF RingInv, ReaderInv, NoUnderrun
<1> QED
  BY <1>1, RingCorrect, PTL

\* With one reader, publishing never makes a full ring look empty, although
\* the full test of driver.c 196 uses copies of the cursors.
THEOREM NeverOverruns == SingleReader => (Spec => []NoOverrun)
<1>1. RingInv => NoOverrun
  BY DEF RingInv, KernelInv, NoOverrun
<1> QED
  BY <1>1, RingCorrect, PTL

\* With one reader, the node being filled is never the node being copied to
\* the user (driver.c 87-89 and 205-225, both outside the mutex).
THEOREM NeverSharesNode == SingleReader => (Spec => []NoSharedNode)
<1>1. RingInv => NoSharedNode
  BY DEF RingInv, KernelInv, ReaderInv, NoSharedNode
<1> QED
  BY <1>1, RingCorrect, PTL

-----------------------------------------------------------------------------
(* The ring is a bounded queue. The waiting packets are those between the   *)
(* cursors; these lemmas say how the distance and the places change.        *)

\* The distance from a tail to a head, without the remainder.
LEMMA DistanceIf ==
  ASSUME NEW h \in Slots, NEW t \in Slots
  PROVE  (h + QUEUE_DEPTH - t) % QUEUE_DEPTH
           = IF t <= h THEN h - t ELSE h + QUEUE_DEPTH - t
<1>1. CASE t <= h
  <2>1. h + QUEUE_DEPTH - t = (h - t) + QUEUE_DEPTH /\ h - t \in Slots
    BY <1>1, DepthAssumption DEF Slots
  <2> QED
    BY <1>1, <2>1, DepthAssumption DEF Slots
<1>2. CASE ~(t <= h)
  <2>1. h + QUEUE_DEPTH - t \in Slots
    BY <1>2, DepthAssumption DEF Slots
  <2> QED
    BY <1>2, <2>1, DepthAssumption DEF Slots
<1> QED
  BY <1>1, <1>2

\* A place less than one lap beyond a tail.
LEMMA PlaceIf ==
  ASSUME NEW t \in Slots, NEW i \in 1 .. QUEUE_DEPTH
  PROVE  (t + i - 1) % QUEUE_DEPTH
           = IF t + i - 1 < QUEUE_DEPTH THEN t + i - 1
                                        ELSE t + i - 1 - QUEUE_DEPTH
BY DepthAssumption DEF Slots

\* How many packets wait, and where: none of them in the node at the head.
LEMMA WaitingPlaces ==
  ASSUME TypeOK
  PROVE  /\ Waiting = IF queue_tail <= queue_head THEN queue_head - queue_tail
                      ELSE queue_head + QUEUE_DEPTH - queue_tail
         /\ Waiting \in 0 .. QUEUE_DEPTH - 1
         /\ \A i \in 1 .. Waiting :
              /\ (queue_tail + i - 1) % QUEUE_DEPTH \in Slots
              /\ (queue_tail + i - 1) % QUEUE_DEPTH # queue_head
<1>1. queue_head \in Slots /\ queue_tail \in Slots
  BY DEF TypeOK
<1>2. Waiting = IF queue_tail <= queue_head THEN queue_head - queue_tail
                ELSE queue_head + QUEUE_DEPTH - queue_tail
  BY <1>1, DistanceIf DEF Waiting
<1>3. Waiting \in 0 .. QUEUE_DEPTH - 1
  BY <1>1, <1>2, DepthAssumption DEF Slots
<1>4. ASSUME NEW i \in 1 .. Waiting
      PROVE  /\ (queue_tail + i - 1) % QUEUE_DEPTH \in Slots
             /\ (queue_tail + i - 1) % QUEUE_DEPTH # queue_head
  <2>1. i \in 1 .. QUEUE_DEPTH
    BY <1>3, DepthAssumption
  <2>2. (queue_tail + i - 1) % QUEUE_DEPTH
          = IF queue_tail + i - 1 < QUEUE_DEPTH THEN queue_tail + i - 1
            ELSE queue_tail + i - 1 - QUEUE_DEPTH
    BY <1>1, <2>1, PlaceIf
  <2> QED
    BY <1>1, <1>2, <2>1, <2>2, DepthAssumption DEF Slots
<1> QED
  BY <1>2, <1>3, <1>4

\* The packets that wait, oldest first, as the abstract queue has them.
Contents == [i \in 1 .. Waiting |-> node[(queue_tail + i - 1) % QUEUE_DEPTH]]

\* The same for any cursors and any nodes, to speak of before and after a step.
Distance(h, t) == (h + QUEUE_DEPTH - t) % QUEUE_DEPTH

Between(h, t, n) ==
  [i \in 1 .. Distance(h, t) |-> n[(t + i - 1) % QUEUE_DEPTH]]

\* They are a sequence of packets as long as the cursors are apart.
LEMMA BetweenSeq ==
  ASSUME NEW h \in Slots, NEW t \in Slots, NEW n \in [Slots -> Packets]
  PROVE  /\ Between(h, t, n) \in Seq(Packets)
         /\ Len(Between(h, t, n)) = Distance(h, t)
         /\ Distance(h, t) \in Nat
<1> DEFINE d == Distance(h, t)
           c == Between(h, t, n)
<1>1. d \in 0 .. QUEUE_DEPTH - 1
  BY DistanceIf, DepthAssumption DEF Slots, Distance
<1>2. \A i \in 1 .. d : (t + i - 1) % QUEUE_DEPTH \in Slots
  <2> TAKE i \in 1 .. d
  <2>1. i \in 1 .. QUEUE_DEPTH
    BY <1>1, DepthAssumption
  <2> QED
    BY <2>1, PlaceIf, DepthAssumption DEF Slots
<1>3. c \in [1 .. d -> Packets]
  BY <1>2 DEF Between
<1> HIDE DEF c, d
<1>4. d \in Nat
  BY <1>1, DepthAssumption
<1>5. c \in Seq(Packets)
  BY <1>3, <1>4, SeqDef
<1>6. Len(c) = d
  BY <1>3, <1>4, <1>5, LenProperties
<1> QED
  BY <1>4, <1>5, <1>6 DEF c, d

\* So of the contents of the ring.
LEMMA ContentsSeq ==
  ASSUME TypeOK
  PROVE  /\ Contents \in Seq(Packets)
         /\ Len(Contents) = Waiting
         /\ Waiting \in Nat
<1>1. /\ queue_head \in Slots /\ queue_tail \in Slots
      /\ node \in [Slots -> Packets]
  BY DEF TypeOK
<1> QED
  BY <1>1, BetweenSeq DEF Contents, Waiting, Between, Distance

\* They are none exactly when the cursors are equal.
LEMMA EmptyWhenEqual ==
  ASSUME TypeOK
  PROVE  Contents = <<>> <=> queue_head = queue_tail
<1>1. queue_head \in Slots /\ queue_tail \in Slots
  BY DEF TypeOK
<1>2. Waiting = 0 <=> queue_head = queue_tail
  BY <1>1, WaitingPlaces, DepthAssumption DEF Slots
<1> QED
  BY <1>2, ContentsSeq, EmptySeq

\* A ring that is not full has room for one more packet.
LEMMA RoomForOne ==
  ASSUME TypeOK, ~Full(queue_head, queue_tail)
  PROVE  Waiting < QUEUE_DEPTH - 1
<1>1. queue_head \in Slots /\ queue_tail \in Slots
  BY DEF TypeOK
<1> QED
  BY <1>1, WaitingPlaces, SuccIf, DepthAssumption DEF Full, Slots

\* Publishing the filled node puts its packet behind those that wait.
LEMMA PublishPuts ==
  ASSUME TypeOK, TypeOK', ~Full(queue_head, queue_tail),
         queue_head' = Succ(queue_head), UNCHANGED <<queue_tail, node>>
  PROVE  Contents' = Append(Contents, node[queue_head])
<1>1. queue_head \in Slots /\ queue_tail \in Slots
  BY DEF TypeOK
<1>2. Waiting' = Waiting + 1
  <2>1. Waiting' = IF queue_tail <= Succ(queue_head)
                   THEN Succ(queue_head) - queue_tail
                   ELSE Succ(queue_head) + QUEUE_DEPTH - queue_tail
    BY <1>1, SuccSlots, DistanceIf DEF Waiting
  <2> QED
    BY <1>1, <2>1, WaitingPlaces, SuccIf, DepthAssumption DEF Full, Slots
<1>3. (queue_tail + (Waiting + 1) - 1) % QUEUE_DEPTH = queue_head
  <2>1. Waiting + 1 \in 1 .. QUEUE_DEPTH
    BY WaitingPlaces, DepthAssumption
  <2>2. (queue_tail + (Waiting + 1) - 1) % QUEUE_DEPTH
          = IF queue_tail + (Waiting + 1) - 1 < QUEUE_DEPTH
            THEN queue_tail + (Waiting + 1) - 1
            ELSE queue_tail + (Waiting + 1) - 1 - QUEUE_DEPTH
    BY <1>1, <2>1, PlaceIf
  <2> QED
    BY <1>1, <2>1, <2>2, WaitingPlaces, DepthAssumption DEF Slots
<1>4. /\ Contents' \in Seq(Packets) /\ Len(Contents') = Waiting + 1
      /\ Contents \in Seq(Packets) /\ Len(Contents) = Waiting
      /\ Waiting \in Nat
  <2>1. /\ Contents' \in Seq(Packets)
        /\ Len(Contents') = Waiting'
    <3>1. /\ queue_head' \in Slots /\ queue_tail' \in Slots
          /\ node' \in [Slots -> Packets]
      BY DEF TypeOK
    <3> QED
      BY <3>1, BetweenSeq DEF Contents, Waiting, Between, Distance
  <2> QED
    BY <1>2, <2>1, ContentsSeq
<1>5. node[queue_head] \in Packets
  BY <1>1 DEF TypeOK
<1>6. /\ Append(Contents, node[queue_head]) \in Seq(Packets)
      /\ Len(Append(Contents, node[queue_head])) = Waiting + 1
  BY <1>4, <1>5, AppendProperties
<1>7. ASSUME NEW i \in 1 .. Waiting + 1
      PROVE  Contents'[i] = Append(Contents, node[queue_head])[i]
  <2>1. Contents'[i] = node[(queue_tail + i - 1) % QUEUE_DEPTH]
    BY <1>2 DEF Contents
  <2>2. CASE i \in 1 .. Waiting
    <3>1. Append(Contents, node[queue_head])[i] = Contents[i]
      BY <1>4, <1>5, <2>2, AppendProperties
    <3> QED
      BY <2>1, <2>2, <3>1 DEF Contents
  <2>3. CASE i = Waiting + 1
    <3>1. Append(Contents, node[queue_head])[i] = node[queue_head]
      BY <1>4, <1>5, <2>3, AppendProperties
    <3> QED
      BY <1>3, <2>1, <2>3, <3>1
  <2> QED
    BY <1>4, <2>2, <2>3
<1> QED
  BY <1>4, <1>6, <1>7, SeqEqual

\* Advancing the tail takes the oldest packet, the one in the node at the tail.
LEMMA AdvanceTakes ==
  ASSUME TypeOK, TypeOK', queue_head # queue_tail,
         queue_tail' = Succ(queue_tail), UNCHANGED <<queue_head, node>>
  PROVE  /\ Contents # <<>>
         /\ Head(Contents) = node[queue_tail]
         /\ Contents' = Tail(Contents)
<1>1. queue_head \in Slots /\ queue_tail \in Slots
  BY DEF TypeOK
<1>2. Waiting' = Waiting - 1
  <2>1. Waiting' = IF Succ(queue_tail) <= queue_head
                   THEN queue_head - Succ(queue_tail)
                   ELSE queue_head + QUEUE_DEPTH - Succ(queue_tail)
    BY <1>1, SuccSlots, DistanceIf DEF Waiting
  <2> QED
    BY <1>1, <2>1, WaitingPlaces, SuccIf, DepthAssumption DEF Slots
<1>3. Contents # <<>>
  BY EmptyWhenEqual
<1>4. /\ Contents' \in Seq(Packets) /\ Len(Contents') = Waiting - 1
      /\ Contents \in Seq(Packets) /\ Len(Contents) = Waiting
      /\ Waiting \in 1 .. QUEUE_DEPTH - 1
  <2>1. /\ Contents' \in Seq(Packets)
        /\ Len(Contents') = Waiting'
    <3>1. /\ queue_head' \in Slots /\ queue_tail' \in Slots
          /\ node' \in [Slots -> Packets]
      BY DEF TypeOK
    <3> QED
      BY <3>1, BetweenSeq DEF Contents, Waiting, Between, Distance
  <2>2. Waiting \in 1 .. QUEUE_DEPTH - 1
    BY <1>1, WaitingPlaces, DepthAssumption DEF Slots
  <2> QED
    BY <1>2, <2>1, <2>2, ContentsSeq
<1>5. Head(Contents) = node[queue_tail]
  <2>1. Head(Contents) = Contents[1]
    BY <1>3, <1>4, HeadTailProperties
  <2>2. Contents[1] = node[(queue_tail + 1 - 1) % QUEUE_DEPTH]
    BY <1>4, DepthAssumption DEF Contents
  <2>3. (queue_tail + 1 - 1) % QUEUE_DEPTH = queue_tail
    BY <1>1, PlaceIf, DepthAssumption DEF Slots
  <2> QED
    BY <2>1, <2>2, <2>3
<1>6. /\ Tail(Contents) \in Seq(Packets)
      /\ Len(Tail(Contents)) = Waiting - 1
  BY <1>3, <1>4, HeadTailProperties
<1>7. ASSUME NEW i \in 1 .. Waiting - 1
      PROVE  Contents'[i] = Tail(Contents)[i]
  <2>1. Contents'[i] = node[(Succ(queue_tail) + i - 1) % QUEUE_DEPTH]
    BY <1>2 DEF Contents
  <2>2. Tail(Contents)[i] = Contents[i + 1]
    BY <1>3, <1>4, HeadTailProperties
  <2>3. Contents[i + 1] = node[(queue_tail + (i + 1) - 1) % QUEUE_DEPTH]
    BY <1>4, DepthAssumption DEF Contents
  <2>4. (Succ(queue_tail) + i - 1) % QUEUE_DEPTH
          = (queue_tail + (i + 1) - 1) % QUEUE_DEPTH
    <3>1. i \in 1 .. QUEUE_DEPTH /\ i + 1 \in 1 .. QUEUE_DEPTH
      BY <1>4, DepthAssumption
    <3>2. (queue_tail + (i + 1) - 1) % QUEUE_DEPTH
            = IF queue_tail + (i + 1) - 1 < QUEUE_DEPTH
              THEN queue_tail + (i + 1) - 1
              ELSE queue_tail + (i + 1) - 1 - QUEUE_DEPTH
      BY <1>1, <3>1, PlaceIf
    <3>3. (Succ(queue_tail) + i - 1) % QUEUE_DEPTH
            = IF Succ(queue_tail) + i - 1 < QUEUE_DEPTH
              THEN Succ(queue_tail) + i - 1
              ELSE Succ(queue_tail) + i - 1 - QUEUE_DEPTH
      BY <1>1, <3>1, PlaceIf, SuccSlots
    <3>4. Succ(queue_tail)
            = IF queue_tail = QUEUE_DEPTH - 1 THEN 0 ELSE queue_tail + 1
      BY <1>1, SuccIf
    <3> QED
      BY <1>1, <3>1, <3>2, <3>3, <3>4, DepthAssumption DEF Slots
  <2> QED
    BY <2>1, <2>2, <2>3, <2>4
<1> QED
  BY <1>3, <1>4, <1>5, <1>6, <1>7, SeqEqual

\* Filling the node at the head disturbs no packet that waits.
LEMMA FillLeavesWaiting ==
  ASSUME TypeOK, UNCHANGED <<queue_head, queue_tail>>,
         \A i \in Slots \ {queue_head} : node'[i] = node[i]
  PROVE  Contents' = Contents
<1>1. Waiting' = Waiting
  BY DEF Waiting
<1>2. \A i \in 1 .. Waiting :
        node'[(queue_tail + i - 1) % QUEUE_DEPTH]
          = node[(queue_tail + i - 1) % QUEUE_DEPTH]
  BY WaitingPlaces
<1> QED
  BY <1>1, <1>2 DEF Contents

-----------------------------------------------------------------------------
(* The refinement. A reader that is about to advance the tail still holds   *)
(* the packet of the node at the tail: nobody has filled that node since.   *)

BufferInv ==
  \A r \in Readers : rpc[r] = "advance" => rbuf[r] = node[queue_tail]

\* Every step of the kernel thread leaves the readers' packets in the ring.
LEMMA KthreadKeepsBuffer ==
  ASSUME RingInv, BufferInv, Kthread
  PROVE  BufferInv'
<1> USE DEF BufferInv
<1>1. CASE KFill
  <2>1. k.head = queue_head /\ queue_tail \in Slots
    BY <1>1 DEF RingInv, KernelInv, TypeOK, KFill, KMove
  <2>2. ASSUME NEW r \in Readers, rpc[r] = "advance"
        PROVE  node'[queue_tail] = node[queue_tail]
    <3>1. queue_head # queue_tail
      BY <2>2 DEF RingInv, ReaderInv
    <3> QED
      BY <1>1, <2>1, <3>1 DEF KFill, RingInv, TypeOK
  <2> QED
    BY <1>1, <2>2 DEF KFill, user
<1>2. CASE KLoad \/ KQuit \/ KDecideSleep \/ KDecideFill \/ KPrepare \/ KSchedule
  BY <1>2 DEF KLoad, KQuit, KDecideSleep, KDecideFill, KPrepare, KSchedule,
     ring, user
<1>3. CASE KPublish \/ KWakeReaders
  BY <1>3 DEF KPublish, KWakeReaders, ring, user
<1> QED
  BY <1>1, <1>2, <1>3 DEF Kthread

\* So does every step of the only reader.
LEMMA ReaderKeepsBuffer ==
  ASSUME SingleReader, RingInv, BufferInv, NEW r \in Readers, Reader(r)
  PROVE  BufferInv'
<1> USE DEF BufferInv, RMove
<1>1. \A s \in Readers : s = r
  BY DEF SingleReader
<1>2. rpc \in [Readers -> RPcs] /\ rbuf \in [Readers -> Packets]
  BY DEF RingInv, TypeOK
<1>3. CASE RCopy(r)
  <2>1. rtail[r] = queue_tail
    BY <1>3 DEF RCopy, RingInv, ReaderInv
  <2> QED
    BY <1>1, <1>2, <1>3, <2>1 DEF RCopy, ring
<1>4. CASE RAdvance(r)
  BY <1>1, <1>2, <1>4 DEF RAdvance
<1>5. CASE ROpen(r) \/ RPollData(r) \/ RLoadTail(r) \/ RWake(r) \/ RClose(r)
  BY <1>1, <1>2, <1>5 DEF ROpen, RPollData, RLoadTail, RWake, RClose, ring
<1>6. CASE RPollEmpty(r)
  BY <1>6 DEF RPollEmpty, ring
<1> QED
  BY <1>3, <1>4, <1>5, <1>6 DEF Reader, InRead

\* With one reader the packet in its buffer is the oldest until it moves on.
LEMMA BufferCorrect == SingleReader => (Spec => []BufferInv)
<1> SUFFICES ASSUME SingleReader PROVE Spec => []BufferInv
  OBVIOUS
<1>1. Init => BufferInv
  BY DEF Init, BufferInv
<1>2. RingInv /\ BufferInv /\ [Next]_vars => BufferInv'
  <2> SUFFICES ASSUME RingInv, BufferInv, [Next]_vars PROVE BufferInv'
    OBVIOUS
  <2>1. CASE (\E c \in Commanders : Commander(c)) \/ XBegin \/ XStop \/ XJoin
    BY <2>1 DEF BufferInv, Commander, CAction, CSetParameter, CWake, XBegin,
       XStop, XJoin, ring, user
  <2>2. CASE XLoad
    BY <2>2 DEF BufferInv, XLoad, user, RingInv, RemovalInv, InUse
  <2>3. CASE UNCHANGED vars
    BY <2>3 DEF BufferInv, vars, ring, user
  <2> QED
    BY <2>1, <2>2, <2>3, KthreadKeepsBuffer, ReaderKeepsBuffer DEF Next, Module
<1> QED
  BY <1>1, <1>2, RingCorrect, PTL DEF Spec

\* A module just loaded is an empty queue.
LEMMA QueueInit == Init => Queue!Init
<1> SUFFICES ASSUME Init PROVE Queue!Init
  OBVIOUS
<1>1. TypeOK
  BY TypeInit
<1>2. Contents = <<>>
  BY <1>1, EmptyWhenEqual DEF Init
<1> QED
  BY <1>2 DEF Queue!Init, Contents, Init

\* What the queue does not see: the ring, the packets the readers have had and
\* which readers have the device open all stay.
LEMMA QueueStutters ==
  ASSUME UNCHANGED ring, delivered' = delivered, rpc' = rpc
  PROVE  UNCHANGED Queue!vars
BY DEF Queue!vars, ring, Waiting

\* A step of the kernel thread puts a packet or is not seen.
LEMMA KthreadImplements ==
  ASSUME RingInv, TypeOK', Kthread
  PROVE  [Queue!Next]_Queue!vars
<1>1. TypeOK
  BY DEF RingInv
<1>2. CASE KFill
  <2>1. k.head = queue_head
    BY <1>2 DEF RingInv, KernelInv, KFill, KMove
  <2>2. \A i \in Slots \ {queue_head} : node'[i] = node[i]
    BY <1>1, <1>2, <2>1 DEF KFill, TypeOK
  <2>3. Contents' = Contents
    BY <1>1, <1>2, <2>2, FillLeavesWaiting DEF KFill
  <2> QED
    BY <1>2, <2>3 DEF Queue!vars, Contents, KFill, user
<1>3. CASE KPublish
  <2>1. ~Full(queue_head, queue_tail)
    BY <1>3 DEF RingInv, KernelInv, KPublish, KMove
  <2>2. Contents' = Append(Contents, node[queue_head])
    BY <1>1, <1>3, <2>1, PublishPuts DEF KPublish
  <2>3. Len(Contents) < QUEUE_DEPTH - 1
    BY <1>1, <2>1, RoomForOne, ContentsSeq
  <2>4. node[queue_head] \in Packets
    BY <1>1 DEF TypeOK
  <2>5. UNCHANGED <<delivered, rpc>>
    BY <1>3 DEF KPublish, user
  <2>6. \E p \in Packets : Queue!Put(p)
    BY <2>2, <2>3, <2>4, <2>5 DEF Queue!Put, Contents
  <2> QED
    BY <2>6 DEF Queue!Next
<1>4. CASE KLoad \/ KQuit \/ KDecideSleep \/ KDecideFill \/ KPrepare \/ KSchedule
  BY <1>4, QueueStutters DEF KLoad, KQuit, KDecideSleep, KDecideFill, KPrepare,
     KSchedule, user
<1>5. CASE KWakeReaders
  BY <1>5, QueueStutters DEF KWakeReaders
<1> QED
  BY <1>2, <1>3, <1>4, <1>5 DEF Kthread

\* A step of the only reader attaches it, detaches it, takes the oldest packet
\* or is not seen.
LEMMA ReaderImplements ==
  ASSUME RingInv, BufferInv, TypeOK', NEW r \in Readers, Reader(r)
  PROVE  [Queue!Next]_Queue!vars
<1> USE DEF RMove
<1>1. TypeOK /\ rpc \in [Readers -> RPcs]
  BY DEF RingInv, TypeOK
<1>2. CASE ROpen(r)
  <2>1. {s \in Readers : rpc'[s] # "closed"}
          = {s \in Readers : rpc[s] # "closed"} \union {r}
    BY <1>1, <1>2 DEF ROpen
  <2>2. Queue!Attach(r)
    BY <1>2, <2>1 DEF Queue!Attach, ROpen, ring, Waiting
  <2> QED
    BY <2>2 DEF Queue!Next
<1>3. CASE RClose(r)
  <2>1. {s \in Readers : rpc'[s] # "closed"}
          = {s \in Readers : rpc[s] # "closed"} \ {r}
    BY <1>1, <1>3 DEF RClose
  <2>2. Queue!Detach(r)
    BY <1>3, <2>1 DEF Queue!Detach, RClose, ring, Waiting
  <2> QED
    BY <2>2 DEF Queue!Next
<1>4. CASE RAdvance(r)
  <2>1. /\ queue_head # queue_tail /\ rtail[r] = queue_tail
        /\ rbuf[r] = node[queue_tail]
    BY <1>4 DEF RAdvance, RingInv, ReaderInv, BufferInv
  <2>2. /\ Contents # <<>>
        /\ Head(Contents) = node[queue_tail]
        /\ Contents' = Tail(Contents)
    BY <1>1, <1>4, <2>1, AdvanceTakes DEF RAdvance
  <2>3. /\ r \in {s \in Readers : rpc[s] # "closed"}
        /\ {s \in Readers : rpc'[s] # "closed"}
             = {s \in Readers : rpc[s] # "closed"}
    BY <1>1, <1>4 DEF RAdvance
  <2>4. delivered' = [delivered EXCEPT ![r] = Head(Contents)]
    BY <1>4, <2>1, <2>2 DEF RAdvance
  <2>5. Queue!Take(r)
    BY <2>2, <2>3, <2>4 DEF Queue!Take, Contents
  <2> QED
    BY <2>5 DEF Queue!Next
<1>5. CASE RPollData(r) \/ RLoadTail(r) \/ RCopy(r) \/ RWake(r)
  <2>1. {s \in Readers : rpc'[s] # "closed"}
          = {s \in Readers : rpc[s] # "closed"}
    BY <1>1, <1>5 DEF RPollData, RLoadTail, RCopy, RWake
  <2>2. UNCHANGED <<queue_head, queue_tail, node, delivered>>
    BY <1>5 DEF RPollData, RLoadTail, RCopy, RWake, ring
  <2> QED
    BY <2>1, <2>2 DEF Queue!vars, Waiting
<1>6. CASE RPollEmpty(r)
  BY <1>6, QueueStutters DEF RPollEmpty
<1> QED
  BY <1>2, <1>3, <1>4, <1>5, <1>6 DEF Reader, InRead

\* A command is not seen; loading the module empties the queue, and nobody has
\* the device open then.
LEMMA OthersImplement ==
  ASSUME RingInv, TypeOK', (\E c \in Commanders : Commander(c)) \/ Module
  PROVE  [Queue!Next]_Queue!vars
<1>1. CASE \E c \in Commanders : Commander(c)
  BY <1>1, QueueStutters DEF Commander, CAction, CWake, CSetParameter, user
<1>2. CASE XBegin \/ XStop \/ XJoin
  BY <1>2, QueueStutters DEF XBegin, XStop, XJoin, user
<1>3. CASE XLoad
  <2>1. \A r \in Readers : rpc[r] = "closed"
    BY <1>3 DEF XLoad, RingInv, RemovalInv, InUse
  <2>2. Waiting' = 0
    <3>1. (0 + QUEUE_DEPTH - 0) % QUEUE_DEPTH = 0
      BY DepthAssumption
    <3> QED
      BY <1>3, <3>1 DEF XLoad, Waiting
  <2>3. Contents' = <<>>
    BY <2>2 DEF Contents
  <2>4. UNCHANGED <<delivered, rpc>>
    BY <1>3 DEF XLoad, user
  <2>5. Queue!Clear
    BY <2>1, <2>3, <2>4 DEF Queue!Clear, Contents
  <2> QED
    BY <2>5 DEF Queue!Next
<1> QED
  BY <1>1, <1>2, <1>3 DEF Module

\* With one reader the driver is a bounded queue of QUEUE_DEPTH - 1 packets:
\* what is read is what was published, in order, once (driver.c 60-110 and
\* 178-262).
THEOREM ReadsArePublished == SingleReader => (Spec => ReadsArePublishedPackets)
<1> SUFFICES ASSUME SingleReader PROVE Spec => ReadsArePublishedPackets
  OBVIOUS
<1>1. RingInv /\ BufferInv /\ TypeOK' /\ [Next]_vars => [Queue!Next]_Queue!vars
  <2> SUFFICES ASSUME RingInv, BufferInv, TypeOK', [Next]_vars
               PROVE  [Queue!Next]_Queue!vars
    OBVIOUS
  <2>1. CASE UNCHANGED vars
    BY <2>1, QueueStutters DEF vars, user
  <2> QED
    BY <2>1, KthreadImplements, ReaderImplements, OthersImplement DEF Next
<1> QED
  BY <1>1, QueueInit, RingCorrect, BufferCorrect, TypeCorrect, PTL
     DEF Spec, ReadsArePublishedPackets, Queue!Spec
=============================================================================
