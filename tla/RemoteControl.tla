--------------------------- MODULE RemoteControl ---------------------------
(***************************************************************************)
(* From the keyboard of the host to the kernel thread of the card: the     *)
(* client (TcpClient), one connection, the handler thread of the server    *)
(* with libdaq, dev_write and the fill loop (DaqCommands), and the log     *)
(* that is written on the way (LogService). The connection is the one      *)
(* fdmap names; what happens to others is ConfigServer's subject.          *)
(***************************************************************************)
EXTENDS DaqCommands, Sequences

CONSTANTS Heartbeats, MaxChoices, MaxStops   \* see TcpClient

ASSUME HeartbeatAssumption == Heartbeats \in Nat \ {0}
ASSUME BoundAssumption == MaxChoices \in Nat /\ MaxStops \in Nat

VARIABLES
  cpc, request, beats, recv_buf, pulse, up, down, conn, sent, choices,
  stops, breaks, shown,    \* the client, see TcpClient
  logger, port, log_txt,   \* the log, see LogService
  frame,                   \* server: the request in its buffer
  log_due,                 \* server: write_log has still to be called
  started,                 \* history: the requests that have started the card
  accepted                 \* history: ch_cnt of the last START answered with 0

Client == INSTANCE TcpClient
Log    == INSTANCE LogService

client  == <<cpc, request, beats, recv_buf, pulse, up, down, conn, sent,
             choices, stops, breaks, shown>>
logs    == <<logger, port, log_txt>>
server  == <<frame, log_due, started, accepted>>
allVars == <<vars, client, logs, server>>

RInit ==
  /\ Init /\ Client!CInit /\ Log!LInit
  /\ frame = Client!None /\ log_due = FALSE
  /\ started = {} /\ accepted = 0

-----------------------------------------------------------------------------
(* tcp_handle: a request is read, handled and answered. The thread ends     *)
(* with its process, which the client sees as the end of the connection.   *)

\* tcp_read, and the first step of handle_msg; a HEARTBEAT takes no other.
STake(h) ==
  /\ conn = "up" /\ up # <<>>
  /\ frame' = Head(up) /\ up' = Tail(up)
  /\ CASE Head(up).cmd = "START_DAQ" -> HOpen(h, Head(up).ch) \/ HOpenFails(h)
       [] Head(up).cmd = "STOP_DAQ"  -> HStop(h) \/ HOpenFails(h)
       [] OTHER                      -> HHeartbeat(h)
  /\ UNCHANGED <<cpc, request, beats, recv_buf, pulse, down, conn, sent, choices,
                 stops, breaks, shown, logs, log_due, started, accepted>>

SParameters(h) ==
  /\ conn = "up"
  /\ HReject(h) \/ HPoints(h) \/ HBuild(h) \/ HStoreCh(h) \/ HStorePt(h)
  /\ UNCHANGED <<client, logs, server>>

SStart(h) ==
  /\ conn = "up"
  /\ HStart(h)
  /\ started' = started \union {frame.id} /\ log_due' = TRUE
  /\ UNCHANGED <<client, logs, frame, accepted>>

\* write_log, after the card has been started and closed.
SLog(h) ==
  /\ conn = "up"
  /\ hpc[h] = "reply" /\ log_due
  /\ Log!WriteLog(frame.id)
  /\ log_due' = FALSE
  /\ UNCHANGED <<vars, client, frame, started, accepted>>

\* Mistake: a HEARTBEAT is handled but not answered.
SReplyOnlyResults(h) ==
  /\ conn = "up"
  /\ ~log_due
  /\ HReply(h)
  /\ down' = IF frame.cmd = "HEARTBEAT" THEN down
             ELSE Append(down, [id |-> frame.id, cmd |-> frame.cmd,
                                result |-> hret[h]])
  /\ accepted' = IF frame.cmd = "START_DAQ" /\ hret[h] = 0 THEN frame.ch
                                                     ELSE accepted
  /\ UNCHANGED <<cpc, request, beats, recv_buf, pulse, up, conn, sent, choices,
                 stops, breaks, shown, logs, frame, log_due, started>>

\* The answer, and tcp_write.
SReply(h) ==
  /\ conn = "up"
  /\ ~log_due
  /\ HReply(h)
  /\ down' = Append(down, [id |-> frame.id, cmd |-> frame.cmd,
                           result |-> hret[h]])
  /\ accepted' = IF frame.cmd = "START_DAQ" /\ hret[h] = 0 THEN frame.ch
                                                     ELSE accepted
  /\ UNCHANGED <<cpc, request, beats, recv_buf, pulse, up, conn, sent, choices,
                 stops, breaks, shown, logs, frame, log_due, started>>

Server(h) == STake(h) \/ SParameters(h) \/ SStart(h) \/ SLog(h) \/ SReply(h)

\* The client and the connection. The server's kernel ends the connection when
\* the last thread of the process has left it, so never inside dev_write.
ClientSteps ==
  /\ Client!CNext
  /\ conn = "up" /\ conn' # "up" => \A h \in Handlers : hpc[h] # "store_pt"
  /\ UNCHANGED <<vars, logs, server>>

LogSteps    == Log!LNext /\ UNCHANGED <<vars, client, server>>
FillSteps   == Fill /\ UNCHANGED <<client, logs, server>>

RNext ==
  ClientSteps \/ LogSteps \/ FillSteps \/ \E h \in Handlers : Server(h)

RSpec == RInit /\ [][RNext]_allVars

\* The server's thread and a client that waits for an answer do run.
RFairSpec ==
  /\ RSpec
  /\ \A h \in Handlers : WF_allVars(Server(h))
  /\ WF_allVars(Client!Receive /\ UNCHANGED <<vars, logs, server>>)

-----------------------------------------------------------------------------
\* The requests whose outcome the user has been shown.
Reported == IF cpc = "recv" THEN sent - 1 ELSE sent

\* Nothing in an answer names its request (tcp_client.c 79-81): the answer the
\* user is shown is behind by the number of times net_recv came back with
\* nothing, no more, and with an unbroken connection that was never interrupted
\* it is the answer to what was asked.
AnswersLagByEmptyReturns ==
  cpc # "gone" => recv_buf.id + stops + breaks = Reported

\* However a connection ends, and however often the user goes on asking then,
\* the requests that are reported without an answer of their own are no more
\* than the interruptions and one: the report of the break itself. Every other
\* request on the dead connection is waited for, or interrupted too.
BreakCostsOneAnswer ==
  cpc # "gone" => Reported <= recv_buf.id + stops + 1

Undisturbed == stops = 0 /\ breaks = 0

\* No START or STOP is under way that is newer than the one shown.
ShownIsLast == request = shown.asked \/ request.cmd = "HEARTBEAT"

\* What the user is told holds on the card, five interfaces further down: after
\* a reported START the card acquires with the channels that were typed in and
\* packets that fit, after a reported STOP it does not acquire.
SuccessIsInForce ==
  Undisturbed /\ ShownIsLast /\ shown.told.result = 0 =>
    CASE shown.asked.cmd = "START_DAQ" ->
           /\ acquisition_action = "START_DAQ"
           /\ ch_cnt = shown.asked.ch /\ ch_cnt * pt_cnt <= Room
      [] shown.asked.cmd = "STOP_DAQ" -> acquisition_action = "STOP_DAQ"
      [] OTHER -> TRUE

\* configuration_management.c 465-467 starts the card whatever became of the
\* parameters; those it is left with are always those of the last START that
\* was answered with success.
ParametersAreTheLastAccepted ==
  (\A h \in Handlers : hpc[h] = "idle") => ch_cnt = accepted

\* A line of the log stands for a START that did reach the card, in the order
\* of the starts, and for no other; lines may be missing.
LogTellsStarts ==
  /\ \A a, b \in DOMAIN log_txt : a < b => log_txt[a] < log_txt[b]
  /\ \A a \in DOMAIN log_txt : log_txt[a] \in started

\* A request whose connection holds is answered.
RequestIsAnswered ==
  (cpc = "recv" /\ conn = "up") ~> (cpc # "recv" \/ conn # "up")
=============================================================================
