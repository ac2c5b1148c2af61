---------------------------- MODULE DaqCommands ----------------------------
(***************************************************************************)
(* What START_DAQ and STOP_DAQ do on their way to the card: handle_msg of  *)
(* configuration_management.c, which main (for UDP) and tcp_handle run     *)
(* concurrently, libdaq.c, whose globals they share, dev_write of          *)
(* driver.c, which stores the parameters one by one and without a lock,    *)
(* and the fill loop of the driver's kernel thread, which reads them at    *)
(* every turn.  Sizes are counted in samples of two bytes.                 *)
(***************************************************************************)
EXTENDS Naturals

CONSTANTS
  Handlers,   \* threads that run handle_msg
  Channels,   \* ch_cnt of a request; 0 stands for any parameter that is rejected
  Room        \* samples that fit in a node behind the packet header

ASSUME RoomAssumption == Room \in Nat \ {0}
ASSUME ChannelAssumption == Channels \subseteq Nat

VARIABLES
  hpc, hch, hret,  \* handlers: where, ch_cnt of the request, result so far
  send_pt,         \* handlers: pt_cnt of the message for the card
  point_cnt,       \* libdaq: the global point_cnt
  clash,           \* history: the last START to use it had not the card to itself
  ch_cnt, pt_cnt,  \* driver: channels, points per channel
  acquisition_action,
  fpc, i, j,       \* fill loop: where it is, the two loop counters
  index,           \* fill loop: samples written to the node
  disturbed        \* history: a parameter changed since the fill began

handlers == <<hpc, hch, hret, send_pt>>
library  == <<point_cnt, clash>>
driver   == <<ch_cnt, pt_cnt, acquisition_action>>
fill     == <<fpc, i, j, index>>
vars     == <<handlers, library, driver, fill, disturbed>>

Commands == {"START_DAQ", "STOP_DAQ"}

Init ==
  /\ hpc = [h \in Handlers |-> "idle"] /\ hch = [h \in Handlers |-> 0]
  /\ hret = [h \in Handlers |-> 0] /\ send_pt = [h \in Handlers |-> 0]
  /\ point_cnt = 0 /\ clash = FALSE /\ ch_cnt = 0 /\ pt_cnt = 0
  /\ acquisition_action = "STOP_DAQ"
  /\ fpc = "idle" /\ i = 0 /\ j = 0 /\ index = 0
  /\ disturbed = FALSE

-----------------------------------------------------------------------------
(* handle_msg and libdaq. *)

HMove(h, from, to) == hpc[h] = from /\ hpc' = [hpc EXCEPT ![h] = to]

\* A START request arrives and the card is opened.
HOpen(h, ch) ==
  /\ HMove(h, "idle", "check")
  /\ hch' = [hch EXCEPT ![h] = ch]
  /\ UNCHANGED <<hret, send_pt, library, driver, fill, disturbed>>

\* Tspi_OpenDevice fails: the result is 1, as it is for an unknown command.
HOpenFails(h) ==
  /\ HMove(h, "idle", "reply")
  /\ hret' = [hret EXCEPT ![h] = 1]
  /\ UNCHANGED <<hch, send_pt, library, driver, fill, disturbed>>

\* Mistake: handle_msg does not keep the result.
HRejectUnnoticed(h) ==
  /\ hch[h] = 0
  /\ HMove(h, "check", "start")
  /\ hret' = [hret EXCEPT ![h] = 0]
  /\ UNCHANGED <<hch, send_pt, library, driver, fill, disturbed>>

\* Mistake: the card has the channels before they are looked at.
HRejectTooLate(h) ==
  /\ hch[h] = 0
  /\ HMove(h, "check", "start")
  /\ hret' = [hret EXCEPT ![h] = 1]
  /\ ch_cnt' = hch[h]
  /\ UNCHANGED <<hch, send_pt, library, pt_cnt, acquisition_action, fill,
                 disturbed>>

\* set_daq_paramter refuses a zero (its result is -1) ...
HReject(h) ==
  /\ hch[h] = 0
  /\ HMove(h, "check", "start")
  /\ hret' = [hret EXCEPT ![h] = 1]
  /\ UNCHANGED <<hch, send_pt, library, driver, fill, disturbed>>

\* A handler between its use of libdaq's global and its last store to the card.
Passing(h) == hpc[h] \in {"build", "store_ch", "store_pt"}

\* Mistake: one point too many.
HPointsPlusOne(h) ==
  /\ hch[h] # 0
  /\ HMove(h, "check", "build")
  /\ point_cnt' = Room \div hch[h] + 1
  /\ clash' = \E g \in Handlers \ {h} : Passing(g)
  /\ UNCHANGED <<hch, hret, send_pt, driver, fill, disturbed>>

\* ... or works out how many points fit, in a global, ...
HPoints(h) ==
  /\ hch[h] # 0
  /\ HMove(h, "check", "build")
  /\ point_cnt' = Room \div hch[h]
  /\ clash' = \E g \in Handlers \ {h} : Passing(g)
  /\ UNCHANGED <<hch, hret, send_pt, driver, fill, disturbed>>

\* ... copies it from there into the message ...
HBuild(h) ==
  /\ HMove(h, "build", "store_ch")
  /\ send_pt' = [send_pt EXCEPT ![h] = point_cnt]
  /\ UNCHANGED <<hch, hret, library, driver, fill, disturbed>>

\* ... and writes the message to the card: dev_write stores one parameter
\* after the other.
HStoreCh(h) ==
  /\ HMove(h, "store_ch", "store_pt")
  /\ ch_cnt' = hch[h]
  /\ disturbed' = TRUE
  /\ UNCHANGED <<hch, hret, send_pt, library, pt_cnt, acquisition_action,
                 fill>>

HStorePt(h) ==
  /\ HMove(h, "store_pt", "start")
  /\ pt_cnt' = send_pt[h]
  /\ disturbed' = TRUE
  /\ hret' = [hret EXCEPT ![h] = 0]
  /\ UNCHANGED <<hch, send_pt, library, ch_cnt, acquisition_action, fill>>

\* start_daq, whatever became of the parameters.
HStart(h) ==
  /\ HMove(h, "start", "reply")
  /\ acquisition_action' = "START_DAQ"
  /\ UNCHANGED <<hch, hret, send_pt, library, ch_cnt, pt_cnt, fill, disturbed>>

\* A STOP request, with the card opened and closed around it.
HStop(h) ==
  /\ HMove(h, "idle", "reply")
  /\ acquisition_action' = "STOP_DAQ"
  /\ hret' = [hret EXCEPT ![h] = 0]
  /\ UNCHANGED <<hch, send_pt, library, ch_cnt, pt_cnt, fill, disturbed>>

\* A HEARTBEAT: ask is assigned where it was to be compared, so any will do.
HHeartbeat(h) ==
  /\ HMove(h, "idle", "reply")
  /\ hret' = [hret EXCEPT ![h] = 0]
  /\ UNCHANGED <<hch, send_pt, library, driver, fill, disturbed>>

\* The result goes into the answer.
HReply(h) ==
  /\ HMove(h, "reply", "idle")
  /\ UNCHANGED <<hch, hret, send_pt, library, driver, fill, disturbed>>

Handler(h) ==
  \/ \E ch \in Channels : HOpen(h, ch)
  \/ HOpenFails(h) \/ HReject(h) \/ HPoints(h) \/ HBuild(h)
  \/ HStoreCh(h) \/ HStorePt(h) \/ HStart(h) \/ HStop(h)
  \/ HHeartbeat(h) \/ HReply(h)

-----------------------------------------------------------------------------
(* The fill loop. *)

FMove(from, to) == fpc = from /\ fpc' = to

FBegin ==
  /\ acquisition_action = "START_DAQ"
  /\ FMove("idle", "outer")
  /\ i' = 0 /\ index' = 0
  /\ disturbed' = FALSE
  /\ UNCHANGED <<handlers, library, driver, j>>

\* Mistake: one row too many.
FRowOneMore ==
  /\ i <= pt_cnt
  /\ FMove("outer", "inner")
  /\ j' = 0
  /\ UNCHANGED <<handlers, library, driver, i, index, disturbed>>

FRow ==
  /\ i < pt_cnt
  /\ FMove("outer", "inner")
  /\ j' = 0
  /\ UNCHANGED <<handlers, library, driver, i, index, disturbed>>

FSample ==
  /\ fpc = "inner" /\ j < ch_cnt
  /\ j' = j + 1 /\ index' = index + 1
  /\ UNCHANGED <<handlers, library, driver, fpc, i, disturbed>>

FRowEnds ==
  /\ ~(j < ch_cnt)
  /\ FMove("inner", "outer")
  /\ i' = i + 1
  /\ UNCHANGED <<handlers, library, driver, j, index, disturbed>>

\* The packet is complete; the thread publishes it and starts over.
FEnd ==
  /\ ~(i < pt_cnt)
  /\ FMove("outer", "idle")
  /\ UNCHANGED <<handlers, library, driver, i, j, index, disturbed>>

Fill == FBegin \/ FRow \/ FSample \/ FRowEnds \/ FEnd

Next == Fill \/ \E h \in Handlers : Handler(h)

Spec == Init /\ [][Next]_vars

-----------------------------------------------------------------------------
(* Safety. *)

TypeOK ==
  /\ hpc \in [Handlers -> {"idle", "check", "build", "store_ch", "store_pt",
                           "start", "reply"}]
  /\ hch \in [Handlers -> Channels \union {0}] /\ hret \in [Handlers -> {0, 1}]
  /\ send_pt \in [Handlers -> 0 .. Room] /\ point_cnt \in 0 .. Room
  /\ clash \in BOOLEAN
  /\ ch_cnt \in Channels \union {0} /\ pt_cnt \in 0 .. Room
  /\ acquisition_action \in Commands
  /\ fpc \in {"idle", "outer", "inner"}
  /\ i \in Nat /\ j \in Nat /\ index \in Nat
  /\ disturbed \in BOOLEAN

\* A START whose points are taken from the other thread's, or whose stores
\* interleave with the other's, leaves the card with parameters that do not fit a
\* node. But it takes just that, and it does not last: whatever mixture earlier
\* requests have left in the library and on the card, and whatever else is
\* handled meanwhile, after a START that had the way to the card to itself the
\* parameters fit.
ParametersFitUnlessClash ==
  (\A h \in Handlers : ~Passing(h)) /\ ~clash => ch_cnt * pt_cnt <= Room

\* The loop reads its limits anew at every turn: with limits that fit and that
\* nobody changes meanwhile it never leaves the node.
UndisturbedFillFits ==
  index <= Room \/ disturbed
    \/ \E h \in Handlers : hpc[h] \in {"store_pt"}

\* libdaq.c 129: a packet is at most 4K. Whichever threads handle requests, and
\* whatever they do to the library's global, to the parameters and to a fill that
\* is under way, the loop never writes beyond the node.
FillFits == index <= Room

=============================================================================
