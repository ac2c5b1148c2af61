------------------------- MODULE DaqCommandsProofs -------------------------
(* Theorems about the parameters of the card, for a node of any size, any   *)
(* channel counts and any number of threads that handle requests, and about *)
(* the fill loop when a single thread handles them.                         *)
EXTENDS DaqCommands, TLAPS

-----------------------------------------------------------------------------
SingleHandler == \A g, h \in Handlers : g = h

\* The part of the type invariant the argument needs.
ParameterTypes ==
  /\ hpc \in [Handlers -> {"idle", "check", "build", "store_ch", "store_pt",
                           "start", "reply"}]
  /\ hch \in [Handlers -> Nat] /\ send_pt \in [Handlers -> Nat]
  /\ point_cnt \in Nat /\ ch_cnt \in Nat /\ pt_cnt \in Nat

\* Where the number of points is on its way from the request to the card.
ParameterInv ==
  /\ ParameterTypes
  /\ \A h \in Handlers :
       /\ hpc[h] \in {"build", "store_ch", "store_pt"} => hch[h] # 0
       /\ hpc[h] = "build" => point_cnt = Room \div hch[h]
       /\ hpc[h] \in {"store_ch", "store_pt"} => send_pt[h] = Room \div hch[h]
       /\ hpc[h] = "store_pt" => ch_cnt = hch[h]
  /\ (\A h \in Handlers : hpc[h] # "store_pt") => ch_cnt * pt_cnt <= Room

\* Rounding down leaves a packet that fits.
LEMMA PointsFit ==
  ASSUME NEW ch \in Nat \ {0}
  PROVE  Room \div ch \in Nat /\ ch * (Room \div ch) <= Room
BY RoomAssumption

\* A request of the only handler keeps the invariant.
LEMMA HandlerKeepsParameters ==
  ASSUME SingleHandler, ParameterInv, NEW h \in Handlers, Handler(h)
  PROVE  ParameterInv'
<1> USE DEF ParameterInv, ParameterTypes, HMove, library
<1>1. \A g \in Handlers : g = h
  BY DEF SingleHandler
<1>2. ASSUME NEW ch \in Channels, HOpen(h, ch)
      PROVE  ParameterInv'
  BY <1>1, <1>2, ChannelAssumption DEF HOpen, driver
<1>3. CASE HOpenFails(h) \/ HHeartbeat(h)
  BY <1>1, <1>3 DEF HOpenFails, HHeartbeat, driver
<1>4. CASE HReject(h)
  BY <1>1, <1>4 DEF HReject, driver
<1>5. CASE HPoints(h)
  <2>1. Room \div hch[h] \in Nat
    BY <1>5, PointsFit DEF HPoints
  <2> QED
    BY <1>1, <1>5, <2>1 DEF HPoints, driver
<1>6. CASE HBuild(h)
  BY <1>1, <1>6 DEF HBuild, driver
<1>7. CASE HStoreCh(h)
  BY <1>1, <1>7 DEF HStoreCh
<1>8. CASE HStorePt(h)
  <2>1. ch_cnt' = hch[h] /\ pt_cnt' = Room \div hch[h] /\ hch[h] \in Nat \ {0}
    BY <1>8 DEF HStorePt
  <2>2. ch_cnt' * pt_cnt' <= Room
    BY <2>1, PointsFit
  <2> QED
    BY <1>1, <1>8, <2>2 DEF HStorePt
<1>9. CASE HStart(h) \/ HStop(h)
  BY <1>1, <1>9 DEF HStart, HStop
<1>10. CASE HReply(h)
  BY <1>1, <1>10 DEF HReply, driver
<1> QED
  BY <1>2, <1>3, <1>4, <1>5, <1>6, <1>7, <1>8, <1>9, <1>10 DEF Handler

\* It is inductive.
LEMMA ParametersInduct == SingleHandler => (Spec => []ParameterInv)
<1> SUFFICES ASSUME SingleHandler PROVE Spec => []ParameterInv
  OBVIOUS
<1>1. Init => ParameterInv
  BY RoomAssumption DEF Init, ParameterInv, ParameterTypes
<1>2. ParameterInv /\ [Next]_vars => ParameterInv'
  <2> SUFFICES ASSUME ParameterInv, [Next]_vars PROVE ParameterInv'
    OBVIOUS
  <2>1. CASE Fill \/ UNCHANGED vars
    <3>1. UNCHANGED <<handlers, library, driver>>
      BY <2>1 DEF Fill, FBegin, FRow, FSample, FRowEnds, FEnd, vars
    <3> QED
      BY <3>1 DEF ParameterInv, ParameterTypes, handlers, library, driver
  <2> QED
    BY <2>1, HandlerKeepsParameters DEF Next
<1> QED
  BY <1>1, <1>2, PTL DEF Spec

-----------------------------------------------------------------------------
(* The types.                                                               *)

\* Rounding down never makes more points than there is room for.
LEMMA PointsInRange ==
  ASSUME NEW ch \in Nat \ {0}
  PROVE  Room \div ch \in 0 .. Room
<1>1. Room \div ch \in Nat /\ ch * (Room \div ch) <= Room
  BY PointsFit
<1>2. ASSUME NEW p \in Nat, ch * p <= Room
      PROVE  p <= Room
  BY <1>2, RoomAssumption
<1> QED
  BY <1>1, <1>2, RoomAssumption

\* A handler keeps the types: no number of points passes Room on its way from
\* the request to the card.
LEMMA HandlerKeepsTypes ==
  ASSUME TypeOK, NEW h \in Handlers, Handler(h)
  PROVE  TypeOK'
<1>1. ASSUME NEW ch \in Channels, HOpen(h, ch)
      PROVE  TypeOK'
  BY <1>1 DEF HOpen, TypeOK, HMove, library, driver, fill
<1>2. CASE HOpenFails(h)
  BY <1>2 DEF HOpenFails, TypeOK, HMove, library, driver, fill
<1>3. CASE HReject(h)
  BY <1>3 DEF HReject, TypeOK, HMove, library, driver, fill
<1>4. CASE HPoints(h)
  <2>1. hch[h] \in Nat \ {0}
    BY <1>4, ChannelAssumption DEF HPoints, TypeOK
  <2>2. point_cnt' \in 0 .. Room
    BY <1>4, <2>1, PointsInRange DEF HPoints
  <2> QED
    BY <1>4, <2>2 DEF HPoints, TypeOK, HMove, driver, fill
<1>5. CASE HBuild(h)
  BY <1>5 DEF HBuild, TypeOK, HMove, library, driver, fill
<1>6. CASE HStoreCh(h)
  BY <1>6 DEF HStoreCh, TypeOK, HMove, library, fill
<1>7. CASE HStorePt(h)
  BY <1>7 DEF HStorePt, TypeOK, HMove, library, fill
<1>8. CASE HStart(h)
  BY <1>8 DEF HStart, TypeOK, HMove, library, fill, Commands
<1>9. CASE HStop(h)
  BY <1>9 DEF HStop, TypeOK, HMove, library, fill, Commands
<1>10. CASE HHeartbeat(h)
  BY <1>10 DEF HHeartbeat, TypeOK, HMove, library, driver, fill
<1>11. CASE HReply(h)
  BY <1>11 DEF HReply, TypeOK, HMove, library, driver, fill
<1> QED
  BY <1>1, <1>2, <1>3, <1>4, <1>5, <1>6, <1>7, <1>8, <1>9, <1>10, <1>11
     DEF Handler

\* Every variable keeps its type, for any number of handlers.
THEOREM CommandsTypeCorrect == Spec => []TypeOK
<1>1. Init => TypeOK
  <2> SUFFICES ASSUME Init PROVE TypeOK
    OBVIOUS
  <2>1. 0 \in 0 .. Room
    BY RoomAssumption
  <2>2. /\ hpc = [h \in Handlers |-> "idle"] /\ hch = [h \in Handlers |-> 0]
        /\ hret = [h \in Handlers |-> 0] /\ send_pt = [h \in Handlers |-> 0]
    BY DEF Init
  <2> QED
    BY <2>1, <2>2 DEF Init, TypeOK, Commands
<1>2. TypeOK /\ [Next]_vars => TypeOK'
  <2> SUFFICES ASSUME TypeOK, [Next]_vars PROVE TypeOK'
    OBVIOUS
  <2>1. CASE UNCHANGED vars
    BY <2>1 DEF TypeOK, vars, handlers, library, driver, fill
  <2>2. CASE Fill
    <3>1. UNCHANGED <<handlers, library, driver>>
      BY <2>2 DEF Fill, FBegin, FRow, FSample, FRowEnds, FEnd
    <3>2. /\ fpc' \in {"idle", "outer", "inner"}
          /\ i' \in Nat /\ j' \in Nat /\ index' \in Nat
          /\ disturbed' \in BOOLEAN
      <4>1. /\ fpc \in {"idle", "outer", "inner"}
            /\ i \in Nat /\ j \in Nat /\ index \in Nat
            /\ disturbed \in BOOLEAN
        BY DEF TypeOK
      <4>2. CASE FBegin
        BY <4>1, <4>2 DEF FBegin, FMove
      <4>3. CASE FRow
        BY <4>1, <4>3 DEF FRow, FMove
      <4>4. CASE FSample
        BY <4>1, <4>4 DEF FSample
      <4>5. CASE FRowEnds
        BY <4>1, <4>5 DEF FRowEnds, FMove
      <4>6. CASE FEnd
        BY <4>1, <4>6 DEF FEnd, FMove
      <4> QED
        BY <2>2, <4>2, <4>3, <4>4, <4>5, <4>6 DEF Fill
    <3> QED
      BY <3>1, <3>2 DEF TypeOK, handlers, library, driver
  <2> QED
    BY <2>1, <2>2, HandlerKeepsTypes DEF Next
<1> QED
  BY <1>1, <1>2, PTL DEF Spec

-----------------------------------------------------------------------------
(* The fill loop. As long as no parameter has changed since it began, index *)
(* counts the rows and samples written, and the last packet fitted.         *)

Storing == \E h \in Handlers : hpc[h] = "store_pt"

FillInv ==
  ~disturbed =>
    /\ fpc = "idle" => index <= Room \/ Storing
    /\ fpc = "outer" => i <= pt_cnt /\ index = i * ch_cnt
    /\ fpc = "inner" => i < pt_cnt /\ j <= ch_cnt /\ index = i * ch_cnt + j

\* A complete row counts as one more.
LEMMA OneRowMore ==
  ASSUME NEW r \in Nat, NEW w \in Nat
  PROVE  r * w + w = (r + 1) * w /\ 0 * w = 0
OBVIOUS

\* Part of a packet is no longer than the whole.
LEMMA PartOfPacket ==
  ASSUME NEW r \in Nat, NEW w \in Nat, NEW p \in Nat, NEW s \in 0 .. w,
         r < p
  PROVE  r * w + s <= w * p
<1>1. r * w + s <= (r + 1) * w
  BY OneRowMore
<1>2. (r + 1) * w <= w * p
  BY r + 1 <= p
<1> QED
  BY <1>1, <1>2

\* The loop keeps its count, whatever its limits.
LEMMA LoopKeepsCount ==
  ASSUME TypeOK, ParameterInv, FillInv, Fill
  PROVE  FillInv'
<1> USE DEF FillInv, FMove
<1>1. ch_cnt \in Nat /\ pt_cnt \in Nat /\ i \in Nat /\ j \in Nat /\ index \in Nat
  BY ChannelAssumption DEF TypeOK
<1>2. Storing' = Storing /\ UNCHANGED driver
  BY DEF Fill, FBegin, FRow, FSample, FRowEnds, FEnd, handlers, Storing
<1>3. Storing \/ ch_cnt * pt_cnt <= Room
  BY DEF ParameterInv, Storing
<1>4. CASE FBegin
  BY <1>1, <1>4, OneRowMore DEF FBegin, driver
<1>5. CASE FRow
  BY <1>1, <1>5 DEF FRow, driver
<1>6. CASE FSample
  BY <1>1, <1>6 DEF FSample, driver
<1>7. CASE FRowEnds
  BY <1>1, <1>7, OneRowMore DEF FRowEnds, driver
<1>8. CASE FEnd
  <2>1. ~disturbed => index = pt_cnt * ch_cnt
    BY <1>1, <1>8 DEF FEnd
  <2>2. ~disturbed => index <= Room \/ Storing
    BY <1>1, <1>3, <2>1
  <2> QED
    BY <1>2, <1>8, <2>2 DEF FEnd
<1> QED
  BY <1>4, <1>5, <1>6, <1>7, <1>8 DEF Fill

\* A handler that changes a limit leaves its mark.
LEMMA HandlersMarkChanges ==
  ASSUME TypeOK, FillInv, NEW h \in Handlers, Handler(h)
  PROVE  FillInv'
<1>1. CASE HStoreCh(h) \/ HStorePt(h)
  BY <1>1 DEF HStoreCh, HStorePt, FillInv
<1>2. CASE ~(HStoreCh(h) \/ HStorePt(h))
  <2>1. hpc[h] # "store_pt" /\ UNCHANGED <<ch_cnt, pt_cnt, fill, disturbed>>
    BY <1>2 DEF Handler, HOpen, HOpenFails, HReject, HPoints, HBuild, HStart,
       HStop, HHeartbeat, HReply, HMove, driver
  <2>2. \E to : hpc' = [hpc EXCEPT ![h] = to]
    BY <1>2 DEF Handler, HOpen, HOpenFails, HReject, HPoints, HBuild, HStart,
       HStop, HHeartbeat, HReply, HMove
  <2>3. Storing => Storing'
    BY <2>1, <2>2 DEF Storing, TypeOK
  <2> QED
    BY <2>1, <2>3 DEF FillInv, fill
<1> QED
  BY <1>1, <1>2

\* With one handler thread a fill whose limits nobody changes stays inside its
\* node, of any size: only parameters stored during the fill take it further.
THEOREM UndisturbedFillsFit == SingleHandler => (Spec => []UndisturbedFillFits)
<1> SUFFICES ASSUME SingleHandler PROVE Spec => []UndisturbedFillFits
  OBVIOUS
<1>1. Init => FillInv
  BY RoomAssumption DEF Init, FillInv
<1>2. TypeOK /\ ParameterInv /\ FillInv /\ [Next]_vars => FillInv'
  <2> SUFFICES ASSUME TypeOK, ParameterInv, FillInv, [Next]_vars
               PROVE  FillInv'
    OBVIOUS
  <2>1. CASE UNCHANGED vars
    BY <2>1 DEF vars, handlers, driver, fill, FillInv, Storing
  <2> QED
    BY <2>1, LoopKeepsCount, HandlersMarkChanges DEF Next
<1>3. TypeOK /\ ParameterInv /\ FillInv => UndisturbedFillFits
  <2> SUFFICES ASSUME TypeOK, ParameterInv, FillInv, ~disturbed, ~Storing
               PROVE  index <= Room
    BY DEF UndisturbedFillFits, Storing
  <2>1. /\ ch_cnt \in Nat /\ pt_cnt \in Nat /\ i \in Nat /\ j \in Nat
        /\ ch_cnt * pt_cnt <= Room /\ Room \in Nat
    BY ChannelAssumption, RoomAssumption
       DEF TypeOK, ParameterInv, Storing
  <2>2. CASE fpc = "idle"
    BY <2>2 DEF FillInv
  <2>3. CASE fpc = "outer"
    <3>1. i <= pt_cnt /\ index = i * ch_cnt
      BY <2>3 DEF FillInv
    <3>2. i * ch_cnt <= ch_cnt * pt_cnt
      BY <2>1, <3>1
    <3> QED
      BY <2>1, <3>1, <3>2
  <2>4. CASE fpc = "inner"
    <3>1. i < pt_cnt /\ j \in 0 .. ch_cnt /\ index = i * ch_cnt + j
      BY <2>1, <2>4 DEF FillInv
    <3>2. index <= ch_cnt * pt_cnt
      BY <2>1, <3>1, PartOfPacket
    <3> QED
      BY <2>1, <3>1, <3>2
  <2> QED
    BY <2>2, <2>3, <2>4 DEF TypeOK
<1> QED
  BY <1>1, <1>2, <1>3, ParametersInduct, CommandsTypeCorrect, PTL DEF Spec

-----------------------------------------------------------------------------
(* Any number of handlers. While there is no clash one handler at most is on *)
(* its way from libdaq's global to the card, and the points it carries are   *)
(* its own; once none is, the parameters fit. A clash ends when a handler    *)
(* sets out alone, whatever the parameters are by then.                      *)

RaceInv ==
  ~clash =>
    /\ \A g, h \in Handlers : Passing(g) /\ Passing(h) => g = h
    /\ \A h \in Handlers :
         /\ Passing(h) => hch[h] # 0
         /\ hpc[h] = "build" => point_cnt = Room \div hch[h]
         /\ hpc[h] \in {"store_ch", "store_pt"} => send_pt[h] = Room \div hch[h]
         /\ hpc[h] = "store_pt" => ch_cnt = hch[h]
    /\ (\A h \in Handlers : ~Passing(h)) => ch_cnt * pt_cnt <= Room

\* What a handler does to the others' progress: nothing.
LEMMA HandlerMoves ==
  ASSUME TypeOK, NEW h \in Handlers, NEW to, hpc' = [hpc EXCEPT ![h] = to]
  PROVE  /\ hpc'[h] = to
         /\ \A g \in Handlers : g # h => hpc'[g] = hpc[g]
         /\ \A g \in Handlers : g # h => (Passing(g)' <=> Passing(g))
         /\ Passing(h)' <=> to \in {"build", "store_ch", "store_pt"}
BY DEF TypeOK, Passing

\* A handler keeps it.
LEMMA HandlerKeepsRace ==
  ASSUME TypeOK, RaceInv, NEW h \in Handlers, Handler(h)
  PROVE  RaceInv'
<1> USE DEF HMove
<1>1. CASE \/ \E ch \in Channels : HOpen(h, ch)
           \/ HOpenFails(h) \/ HReject(h) \/ HStart(h) \/ HStop(h)
           \/ HHeartbeat(h) \/ HReply(h)
  <2>1. /\ UNCHANGED <<library, ch_cnt, pt_cnt, send_pt>>
        /\ ~Passing(h)
        /\ \E to : hpc' = [hpc EXCEPT ![h] = to]
                     /\ to \notin {"build", "store_ch", "store_pt"}
        /\ \A g \in Handlers : g # h => hch'[g] = hch[g]
    BY <1>1 DEF HOpen, HOpenFails, HReject, HStart, HStop, HHeartbeat, HReply,
       driver, Passing, TypeOK
  <2>2. /\ ~Passing(h)'
        /\ \A g \in Handlers :
             g # h => hpc'[g] = hpc[g] /\ (Passing(g)' <=> Passing(g))
    BY <2>1, HandlerMoves
  <2>3. hpc'[h] \notin {"build", "store_ch", "store_pt"}
    BY <2>2 DEF Passing
  <2> QED
    BY <2>1, <2>2, <2>3 DEF RaceInv, library
<1>2. CASE HPoints(h)
  <2>1. /\ hpc'[h] = "build" /\ Passing(h)'
        /\ \A g \in Handlers :
             g # h => hpc'[g] = hpc[g] /\ (Passing(g)' <=> Passing(g))
    BY <1>2, HandlerMoves DEF HPoints
  <2>2. /\ hch' = hch /\ hch[h] # 0 /\ point_cnt' = Room \div hch[h]
        /\ clash' = \E g \in Handlers \ {h} : Passing(g)
    BY <1>2 DEF HPoints
  <2>3. ASSUME ~clash'
        PROVE  \A g \in Handlers : g # h =>
                 /\ ~Passing(g)'
                 /\ hpc'[g] \notin {"build", "store_ch", "store_pt"}
    BY <2>1, <2>2, <2>3 DEF Passing
  <2> QED
    BY <2>1, <2>2, <2>3 DEF RaceInv
<1>3. CASE HBuild(h)
  <2>1. /\ hpc[h] = "build" /\ hpc'[h] = "store_ch"
        /\ Passing(h) /\ Passing(h)'
        /\ \A g \in Handlers :
             g # h => hpc'[g] = hpc[g] /\ (Passing(g)' <=> Passing(g))
    BY <1>3, HandlerMoves DEF HBuild, Passing
  <2>2. /\ UNCHANGED <<hch, library, ch_cnt, pt_cnt>>
        /\ send_pt'[h] = point_cnt
        /\ \A g \in Handlers : g # h => send_pt'[g] = send_pt[g]
    BY <1>3 DEF HBuild, driver, TypeOK
  <2> QED
    BY <2>1, <2>2 DEF RaceInv, library
<1>4. CASE HStoreCh(h)
  <2>1. /\ hpc[h] = "store_ch" /\ hpc'[h] = "store_pt"
        /\ Passing(h) /\ Passing(h)'
        /\ \A g \in Handlers :
             g # h => hpc'[g] = hpc[g] /\ (Passing(g)' <=> Passing(g))
    BY <1>4, HandlerMoves DEF HStoreCh, Passing
  <2>2. UNCHANGED <<hch, send_pt, library, pt_cnt>> /\ ch_cnt' = hch[h]
    BY <1>4 DEF HStoreCh
  <2>3. \A g \in Handlers : hpc[g] = "store_pt" => Passing(g)
    BY DEF Passing
  <2> QED
    BY <2>1, <2>2, <2>3 DEF RaceInv, library
<1>5. CASE HStorePt(h)
  <2>1. /\ hpc[h] = "store_pt" /\ hpc'[h] = "start"
        /\ Passing(h) /\ ~Passing(h)'
        /\ \A g \in Handlers :
             g # h => hpc'[g] = hpc[g] /\ (Passing(g)' <=> Passing(g))
    <3>1. hpc[h] = "store_pt" /\ hpc' = [hpc EXCEPT ![h] = "start"]
      BY <1>5 DEF HStorePt
    <3>2. hpc'[h] = "start" /\ Passing(h) /\ ~Passing(h)'
      BY <3>1 DEF Passing, TypeOK
    <3> QED
      BY <3>1, <3>2, HandlerMoves
  <2>2. UNCHANGED <<hch, send_pt, library, ch_cnt>> /\ pt_cnt' = send_pt[h]
    BY <1>5 DEF HStorePt
  <2>3. ASSUME ~clash
        PROVE  ch_cnt' * pt_cnt' <= Room
    <3>1. /\ hch[h] # 0 /\ send_pt[h] = Room \div hch[h] /\ ch_cnt = hch[h]
      BY <2>1, <2>3 DEF RaceInv
    <3>2. hch[h] \in Nat \ {0}
      BY <3>1, ChannelAssumption DEF TypeOK
    <3> QED
      BY <2>2, <3>1, <3>2, PointsFit
  <2> QED
    BY <2>1, <2>2, <2>3 DEF RaceInv, library
<1> QED
  BY <1>1, <1>2, <1>3, <1>4, <1>5 DEF Handler

\* However many threads handle requests, and whatever their clashes have left in
\* the library and on the card: after a START that had the way to the card to
\* itself, packets fit a node of any size (libdaq.c 129).
THEOREM LoneStartFits == Spec => []ParametersFitUnlessClash
<1>1. Init => RaceInv
  BY RoomAssumption DEF Init, RaceInv, Passing
<1>2. TypeOK /\ RaceInv /\ [Next]_vars => RaceInv'
  <2> SUFFICES ASSUME TypeOK, RaceInv, [Next]_vars PROVE RaceInv'
    OBVIOUS
  <2>1. CASE Fill \/ UNCHANGED vars
    <3>1. UNCHANGED <<handlers, library, driver>>
      BY <2>1 DEF Fill, FBegin, FRow, FSample, FRowEnds, FEnd, vars
    <3> QED
      BY <3>1 DEF RaceInv, Passing, handlers, library, driver
  <2> QED
    BY <2>1, HandlerKeepsRace DEF Next
<1>3. RaceInv => ParametersFitUnlessClash
  BY DEF RaceInv, ParametersFitUnlessClash
<1> QED
  BY <1>1, <1>2, <1>3, CommandsTypeCorrect, PTL DEF Spec
=============================================================================
