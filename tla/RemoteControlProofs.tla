------------------------ MODULE RemoteControlProofs ------------------------
(* Theorems about the card as the host controls it over the network.        *)
EXTENDS RemoteControl, DaqCommandsProofs

\* The requests a client may have under way.
Requests ==
  {r \in [id : Nat, cmd : {"START_DAQ", "STOP_DAQ", "HEARTBEAT"}, ch : Nat] :
     r.cmd = "START_DAQ" => r.ch \in Channels}

RequestInv == up \in Seq(Requests) /\ sent \in Nat

\* The client puts requests of its menu into the connection, or empties it.
LEMMA ClientSendsRequests ==
  ASSUME RequestInv, ClientSteps
  PROVE  RequestInv'
<1> USE DEF RequestInv
<1>1. ASSUME NEW cmd \in {"START_DAQ", "STOP_DAQ", "HEARTBEAT"}, NEW ch \in Nat,
             cmd = "START_DAQ" => ch \in Channels,
             Client!Ask(cmd, ch), Client!Write
      PROVE  RequestInv'
  <2>1. request' \in Requests /\ sent' \in Nat
    BY <1>1 DEF Client!Ask, Requests
  <2>2. up' = Append(up, request') \/ up' = up
    BY <1>1 DEF Client!Write
  <2> QED
    BY <2>1, <2>2
<1>2. ASSUME NEW ch \in Channels, Client!CStart(ch)
      PROVE  RequestInv'
  BY <1>1, <1>2, ChannelAssumption DEF Client!CStart
<1>3. CASE Client!CStop
  BY <1>1, <1>3 DEF Client!CStop
<1>4. CASE Client!CBeat
  BY <1>1, <1>4 DEF Client!CBeat
<1>5. CASE Client!CHeartbeats \/ Client!CLeave \/ Client!RInterrupted
  BY <1>5 DEF Client!CHeartbeats, Client!CLeave, Client!RInterrupted,
     Client!wire
<1>6. CASE Client!Receive
  BY <1>6 DEF Client!Receive, Client!RRead, Client!RClosed, Client!RBroken,
     Client!wire, Client!menu
<1>7. CASE Client!NServerEnds
  <2>1. up' = <<>> /\ sent' = sent
    BY <1>7 DEF Client!NServerEnds, Client!menu
  <2> QED
    BY <2>1
<1>8. CASE Client!NReset
  BY <1>8 DEF Client!NReset, Client!menu
<1> QED
  BY <1>2, <1>3, <1>4, <1>5, <1>6, <1>7, <1>8
     DEF ClientSteps, Client!CNext, Client!User

\* Everyone else only takes requests from it.
LEMMA RequestsAreKept ==
  ASSUME RequestInv, [RNext]_allVars
  PROVE  RequestInv'
<1> USE DEF RequestInv, client
<1>1. CASE LogSteps \/ FillSteps \/ UNCHANGED allVars
  BY <1>1 DEF LogSteps, FillSteps, allVars
<1>2. ASSUME NEW h \in Handlers, Server(h)
      PROVE  RequestInv'
  <2>1. CASE STake(h)
    <3>1. up # <<>> /\ up' = Tail(up) /\ sent' = sent
      BY <2>1 DEF STake
    <3> QED
      BY <3>1
  <2>2. CASE SParameters(h) \/ SStart(h) \/ SLog(h) \/ SReply(h)
    BY <2>2 DEF SParameters, SStart, SLog, SReply
  <2> QED
    BY <1>2, <2>1, <2>2 DEF Server
<1> QED
  BY <1>1, <1>2, ClientSendsRequests DEF RNext

\* A step of the server is one of DaqCommands' handler, or the log's.
LEMMA ServerRunsTheHandler ==
  ASSUME RequestInv, NEW h \in Handlers, Server(h)
  PROVE  [Next]_vars
<1>1. CASE STake(h)
  <2>1. Head(up) \in Requests
    BY <1>1 DEF STake, RequestInv
  <2>2. CASE Head(up).cmd = "START_DAQ"
    <3>1. Head(up).ch \in Channels
      BY <2>1, <2>2 DEF Requests
    <3>2. HOpen(h, Head(up).ch) \/ HOpenFails(h)
      BY <1>1, <2>2 DEF STake
    <3> QED
      BY <3>1, <3>2 DEF Next, Handler
  <2>3. CASE Head(up).cmd = "STOP_DAQ"
    BY <1>1, <2>3 DEF STake, Next, Handler
  <2>4. CASE Head(up).cmd \notin {"START_DAQ", "STOP_DAQ"}
    BY <1>1, <2>4 DEF STake, Next, Handler
  <2> QED
    BY <2>2, <2>3, <2>4
<1>2. CASE SParameters(h) \/ SStart(h) \/ SReply(h)
  BY <1>2 DEF SParameters, SStart, SReply, Next, Handler
<1>3. CASE SLog(h)
  BY <1>3 DEF SLog
<1> QED
  BY <1>1, <1>2, <1>3 DEF Server

\* Whatever the client, the connection and the log do, the server's handler and
\* the card behave as DaqCommands says.
THEOREM RemoteRunsTheCommands == RSpec => Spec
<1>1. RInit => Init /\ RequestInv
  BY DEF RInit, RequestInv, Client!CInit
<1>2. RequestInv /\ [RNext]_allVars => [Next]_vars
  <2> SUFFICES ASSUME RequestInv, [RNext]_allVars PROVE [Next]_vars
    OBVIOUS
  <2>1. CASE ClientSteps \/ LogSteps \/ UNCHANGED allVars
    BY <2>1 DEF ClientSteps, LogSteps, allVars
  <2>2. CASE FillSteps
    BY <2>2 DEF FillSteps, Next
  <2> QED
    BY <2>1, <2>2, ServerRunsTheHandler DEF RNext
<1>3. RequestInv /\ [RNext]_allVars => RequestInv'
  BY RequestsAreKept
<1> QED
  BY <1>1, <1>2, <1>3, PTL DEF RSpec, Spec

-----------------------------------------------------------------------------
(* After a break.                                                          *)

Broken == {"rst", "rst_fin"}

\* A broken connection is reported with an old answer once, after which the
\* client is back at its menu and can only find the socket dead.
BreakInv ==
  /\ breaks \in {0, 1}
  /\ breaks = 1 => conn \in Broken \union {"closed"}
  /\ breaks = 1 /\ conn \in Broken => cpc # "recv"

\* Reporting leads back to the menu, to the next heartbeat or to the end.
LEMMA ReportLeavesRecv ==
  ASSUME Client!Report
  PROVE  cpc' # "recv"
BY DEF Client!Report

\* Sending on a broken connection closes it, or ends the client.
LEMMA SendingKeepsBreaks ==
  ASSUME BreakInv, NEW cmd, NEW ch, Client!Ask(cmd, ch), Client!Write,
         breaks' = breaks
  PROVE  BreakInv'
<1>1. CASE conn = "rst"
  BY <1>1 DEF BreakInv, Broken, Client!Write
<1>2. CASE conn = "rst_fin"
  BY <1>2 DEF BreakInv, Broken, Client!Ask, Client!Write
<1>3. CASE conn \notin Broken
  BY <1>3 DEF BreakInv, Broken, Client!Write
<1> QED
  BY <1>1, <1>2, <1>3 DEF Broken

\* Every step of the client keeps count.
LEMMA ClientKeepsBreaks ==
  ASSUME BreakInv, Client!CNext
  PROVE  BreakInv'
<1>1. ASSUME NEW ch \in Channels, Client!CStart(ch)
      PROVE  BreakInv'
  BY <1>1, SendingKeepsBreaks DEF Client!CStart
<1>2. CASE Client!CStop
  BY <1>2, SendingKeepsBreaks DEF Client!CStop
<1>3. CASE Client!CBeat
  BY <1>3, SendingKeepsBreaks DEF Client!CBeat
<1>4. CASE Client!CHeartbeats \/ Client!CLeave
  BY <1>4 DEF Client!CHeartbeats, Client!CLeave, Client!wire, BreakInv
<1>5. CASE Client!RRead
  BY <1>5, ReportLeavesRecv DEF Client!RRead, BreakInv
<1>6. CASE Client!RInterrupted
  BY <1>6, ReportLeavesRecv DEF Client!RInterrupted, Client!wire, BreakInv
<1>7. CASE Client!RBroken
  BY <1>7, ReportLeavesRecv DEF Client!RBroken, Client!wire, BreakInv, Broken
<1>8. CASE Client!RClosed \/ Client!NServerEnds \/ Client!NReset
  BY <1>8 DEF Client!RClosed, Client!NServerEnds, Client!NReset, Client!menu,
     BreakInv, Broken
<1> QED
  BY <1>1, <1>2, <1>3, <1>4, <1>5, <1>6, <1>7, <1>8
     DEF Client!CNext, Client!User, Client!Receive

\* One break is all there is to a connection.
LEMMA BreaksHold == RSpec => []BreakInv
<1>1. RInit => BreakInv
  BY DEF RInit, Client!CInit, BreakInv
<1>2. BreakInv /\ [RNext]_allVars => BreakInv'
  <2> SUFFICES ASSUME BreakInv, [RNext]_allVars PROVE BreakInv'
    OBVIOUS
  <2>1. CASE ClientSteps
    BY <2>1, ClientKeepsBreaks DEF ClientSteps
  <2>2. CASE LogSteps \/ FillSteps \/ UNCHANGED allVars
    BY <2>2 DEF LogSteps, FillSteps, allVars, client, BreakInv
  <2>3. ASSUME NEW h \in Handlers, Server(h)
        PROVE  BreakInv'
    BY <2>3 DEF Server, STake, SParameters, SStart, SLog, SReply, client,
       BreakInv
  <2> QED
    BY <2>1, <2>2, <2>3 DEF RNext
<1> QED
  BY <1>1, <1>2, PTL DEF RSpec

-----------------------------------------------------------------------------
(* The kinds of steps. A request is asked; its answer is read, or the wait  *)
(* for it is given up; the server takes, handles and answers it; everything *)
(* else leaves requests and answers as they are, or ends the connection.    *)

Told     == [id : Nat, result : {0, 1}]
Answers  == [id : Nat, cmd : {"START_DAQ", "STOP_DAQ", "HEARTBEAT", "none"},
             result : {0, 1}]
AskedFor == Requests \union {[id |-> 0, cmd |-> "none", ch |-> 0]}

RemoteTypes ==
  /\ RequestInv /\ TypeOK
  /\ down \in Seq(Answers) /\ recv_buf \in Told
  /\ frame \in AskedFor /\ request \in AskedFor
  /\ stops \in Nat /\ breaks \in Nat
  /\ shown \in [asked : AskedFor, told : Told]
  /\ cpc \in {"menu", "beat", "recv", "gone"}

Asks ==
  /\ cpc \in {"menu", "beat"}
  /\ \E cmd \in {"START_DAQ", "STOP_DAQ", "HEARTBEAT"}, ch \in Nat :
       /\ cmd = "START_DAQ" => ch \in Channels
       /\ Client!Ask(cmd, ch)
  /\ Client!Write
  /\ UNCHANGED <<recv_buf, stops, breaks, shown, vars, logs, server>>

Reads == Client!RRead /\ UNCHANGED <<vars, logs, server>>

GivesUp ==
  /\ cpc = "recv" /\ Client!Report
  /\ \/ stops' = stops + 1 /\ breaks' = breaks
     \/ breaks' = breaks + 1 /\ stops' = stops
  /\ UNCHANGED <<request, recv_buf, up, down, conn, sent, vars, logs, server>>

LeavesAnswers ==
  /\ \/ cpc' = cpc
     \/ cpc = "menu" /\ cpc' \in {"beat", "gone"}
  /\ \/ UNCHANGED <<up, conn>>
     \/ conn' # "up" /\ up' \in {up, <<>>}
  /\ UNCHANGED <<request, recv_buf, down, sent, stops, breaks, shown, handlers,
                 library, driver, server>>

\* Every step of the host is of one of four kinds.
LEMMA ClientKinds ==
  ASSUME ClientSteps
  PROVE  Asks \/ Reads \/ GivesUp \/ (LeavesAnswers /\ UNCHANGED logs)
<1> USE DEF ClientSteps, vars, Client!wire, Client!menu
<1>1. ASSUME NEW ch \in Channels, Client!CStart(ch)
      PROVE  Asks
  BY <1>1, ChannelAssumption DEF Client!CStart, Client!Choose, Asks
<1>2. CASE Client!CStop
  BY <1>2 DEF Client!CStop, Client!Choose, Asks
<1>3. CASE Client!CBeat
  BY <1>3 DEF Client!CBeat, Asks
<1>4. CASE Client!CHeartbeats \/ Client!CLeave
  BY <1>4 DEF Client!CHeartbeats, Client!CLeave, Client!Choose, LeavesAnswers
<1>5. CASE Client!RRead
  BY <1>5 DEF Reads
<1>6. CASE Client!RBroken \/ Client!RInterrupted
  BY <1>6 DEF Client!RBroken, Client!RInterrupted, GivesUp
<1>7. CASE Client!RClosed \/ Client!NServerEnds \/ Client!NReset
  BY <1>7 DEF Client!RClosed, Client!NServerEnds, Client!NReset, LeavesAnswers
<1> QED
  BY <1>1, <1>2, <1>3, <1>4, <1>5, <1>6, <1>7
     DEF Client!CNext, Client!User, Client!Receive

\* Every step of the whole is of one of these, or a handler's.
LEMMA RemoteKinds ==
  ASSUME [RNext]_allVars
  PROVE  \/ Asks \/ Reads \/ GivesUp \/ LeavesAnswers
         \/ \E h \in Handlers : Server(h)
<1>1. CASE ClientSteps
  BY <1>1, ClientKinds
<1>2. CASE LogSteps \/ UNCHANGED allVars
  BY <1>2 DEF LogSteps, allVars, vars, client, LeavesAnswers
<1>3. CASE FillSteps
  <2>1. UNCHANGED <<handlers, library, driver>>
    BY <1>3 DEF FillSteps, Fill, FBegin, FRow, FSample, FRowEnds, FEnd
  <2> QED
    BY <1>3, <2>1 DEF FillSteps, client, LeavesAnswers
<1> QED
  BY <1>1, <1>2, <1>3 DEF RNext

\* What a request looks like, and what it leaves.
LEMMA AskEffect ==
  ASSUME RemoteTypes, Asks
  PROVE  /\ sent' = sent + 1 /\ request' \in Requests /\ request'.id = sent + 1
         /\ cpc' \in {"recv", "gone"} /\ cpc \in {"menu", "beat"}
         /\ cpc' = "gone" => conn = "rst_fin"
         /\ up' = IF conn = "up" THEN Append(up, request') ELSE up
         /\ conn' = "up" <=> conn = "up"
         /\ UNCHANGED <<down, recv_buf, stops, breaks, shown, vars, logs, server>>
<1>1. PICK cmd \in {"START_DAQ", "STOP_DAQ", "HEARTBEAT"}, ch \in Nat :
        (cmd = "START_DAQ" => ch \in Channels) /\ Client!Ask(cmd, ch)
  BY DEF Asks
<1>2. request' = [id |-> sent + 1, cmd |-> cmd, ch |-> ch] /\ sent' = sent + 1
  BY <1>1 DEF Client!Ask
<1>3. request' \in Requests
  BY <1>1, <1>2 DEF Requests, RemoteTypes, RequestInv
<1>4. cpc' = IF conn = "rst_fin" THEN "gone" ELSE "recv"
  BY <1>1 DEF Client!Ask
<1> QED
  BY <1>2, <1>3, <1>4 DEF Asks, Client!Write

\* What the client makes of a report.
LEMMA ReportEffect ==
  ASSUME RemoteTypes, Client!Report, recv_buf' \in Told
  PROVE  /\ cpc' \in {"menu", "beat", "gone"}
         /\ shown' \in [asked : AskedFor, told : Told]
         /\ shown' = IF request.cmd = "HEARTBEAT" THEN shown
                     ELSE [asked |-> request, told |-> recv_buf']
BY DEF RemoteTypes, Client!Report

\* Reading takes the first answer.
LEMMA ReadEffect ==
  ASSUME RemoteTypes, Reads
  PROVE  /\ cpc = "recv" /\ down # <<>> /\ down' = Tail(down)
         /\ recv_buf' = [id |-> down[1].id, result |-> down[1].result]
         /\ down[1] \in Answers /\ recv_buf' \in Told /\ Client!Report
         /\ UNCHANGED <<request, up, conn, sent, stops, breaks, vars, logs,
                        server>>
<1>1. down # <<>> /\ Head(down) = down[1] /\ down[1] \in Answers
  BY DEF RemoteTypes, Reads, Client!RRead
<1> QED
  BY <1>1 DEF Reads, Client!RRead, Answers, Told

\* Giving up changes nothing but the account.
LEMMA GivesUpEffect ==
  ASSUME RemoteTypes, GivesUp
  PROVE  /\ stops' \in Nat /\ breaks' \in Nat
         /\ stops' + breaks' = stops + breaks + 1
         /\ recv_buf' \in Told /\ recv_buf' = recv_buf
BY DEF RemoteTypes, GivesUp

\* An answer is taken from the request in hand.
LEMMA ReplyEffect ==
  ASSUME RemoteTypes, NEW h \in Handlers, SReply(h)
  PROVE  \E a \in Answers :
           /\ a.id = frame.id /\ a.result = hret[h] /\ down' = Append(down, a)
<1> DEFINE a == [id |-> frame.id, cmd |-> frame.cmd, result |-> hret[h]]
<1>1. frame.id \in Nat
      /\ frame.cmd \in {"START_DAQ", "STOP_DAQ", "HEARTBEAT", "none"}
  BY DEF RemoteTypes, AskedFor, Requests
<1>2. hret[h] \in {0, 1}
  BY DEF RemoteTypes, TypeOK
<1>3. a \in Answers /\ a.id = frame.id /\ a.result = hret[h]
  BY <1>1, <1>2 DEF Answers
<1>4. down' = Append(down, a)
  BY DEF SReply
<1> QED
  BY <1>3, <1>4

\* The requests, answers and reports keep their types.
LEMMA RemoteTypesStep ==
  ASSUME RemoteTypes, TypeOK', [RNext]_allVars
  PROVE  RemoteTypes'
<1>1. RequestInv'
  BY RequestsAreKept DEF RemoteTypes
<1>2. CASE Asks
  BY <1>1, <1>2, AskEffect DEF RemoteTypes, AskedFor, server
<1>3. CASE Reads
  <2>1. Tail(down) \in Seq(Answers)
    BY <1>3, ReadEffect DEF RemoteTypes
  <2> QED
    BY <1>1, <1>3, <2>1, ReadEffect, ReportEffect DEF RemoteTypes, server
<1>4. CASE GivesUp
  BY <1>1, <1>4, GivesUpEffect, ReportEffect DEF GivesUp, RemoteTypes, server
<1>5. CASE LeavesAnswers
  BY <1>1, <1>5 DEF LeavesAnswers, RemoteTypes, server
<1>6. ASSUME NEW h \in Handlers, Server(h)
      PROVE  RemoteTypes'
  <2>1. CASE STake(h)
    <3>1. Head(up) \in Requests
      BY <2>1 DEF STake, RemoteTypes, RequestInv
    <3> QED
      BY <1>1, <2>1, <3>1 DEF STake, RemoteTypes, AskedFor
  <2>2. CASE SReply(h)
    <3>1. down' \in Seq(Answers)
      BY <2>2, ReplyEffect DEF RemoteTypes
    <3> QED
      BY <1>1, <2>2, <3>1 DEF SReply, RemoteTypes
  <2>3. CASE SParameters(h) \/ SStart(h) \/ SLog(h)
    BY <1>1, <2>3 DEF SParameters, SStart, SLog, client, server, RemoteTypes
  <2> QED
    BY <1>6, <2>1, <2>2, <2>3 DEF Server
<1> QED
  BY <1>2, <1>3, <1>4, <1>5, <1>6, RemoteKinds

\* The commands keep their types below the client and the connection as well.
THEOREM RemoteTypeCorrect == RSpec => []TypeOK
BY RemoteRunsTheCommands, CommandsTypeCorrect, PTL

\* A fill that no parameter disturbs stays inside its node, however the host is
\* interrupted or cut off while it sends them.
THEOREM RemoteFillsFit == SingleHandler => (RSpec => []UndisturbedFillFits)
<1> SUFFICES ASSUME SingleHandler PROVE RSpec => []UndisturbedFillFits
  OBVIOUS
<1>1. Spec => []UndisturbedFillFits
  BY UndisturbedFillsFit
<1> QED
  BY <1>1, RemoteRunsTheCommands, PTL

\* Requests, answers and reports always have theirs.
LEMMA RemoteTypesHold == RSpec => []RemoteTypes
<1>1. RInit /\ TypeOK => RemoteTypes
  <2> SUFFICES ASSUME RInit, TypeOK PROVE RemoteTypes
    OBVIOUS
  <2>1. recv_buf \in Told
    BY DEF RInit, Client!CInit, Client!Empty, Told
  <2>2. shown \in [asked : AskedFor, told : Told]
    BY DEF RInit, Client!CInit, Client!Empty, Client!None, Told, AskedFor
  <2>3. frame \in AskedFor /\ request \in AskedFor
    BY DEF RInit, Client!CInit, Client!None, AskedFor
  <2> QED
    BY <2>1, <2>2, <2>3 DEF RInit, Client!CInit, RemoteTypes, RequestInv
<1>2. RemoteTypes /\ TypeOK' /\ [RNext]_allVars => RemoteTypes'
  BY RemoteTypesStep
<1> QED
  BY <1>1, <1>2, RemoteTypeCorrect, PTL DEF RSpec

-----------------------------------------------------------------------------
(* The order of requests and answers, with one handler. What has been       *)
(* answered, is in hand and waits to be taken are the requests one after    *)
(* the other, and the client is behind by what it gave up.                  *)

Busy == \E h \in Handlers : hpc[h] # "idle"

InHand == IF Busy THEN 1 ELSE 0

OrderInv ==
  /\ \A a \in DOMAIN down : down[a].id = recv_buf.id + a
  /\ conn = "up" =>
       /\ frame.id = recv_buf.id + Len(down) + InHand
       /\ \A a \in DOMAIN up : up[a].id = frame.id + a
       /\ sent = frame.id + Len(up)

LagInv ==
  cpc # "gone" \/ conn = "up" =>
    recv_buf.id + stops + breaks = Reported

\* Numbers that follow each other do so without the first.
LEMMA NumberedTail ==
  ASSUME NEW S, NEW s \in Seq(S), s # <<>>, NEW n \in Nat,
         \A a \in DOMAIN s : s[a].id = n + a
  PROVE  /\ s[1].id = n + 1 /\ Len(Tail(s)) = Len(s) - 1
         /\ Tail(s) \in Seq(S)
         /\ \A a \in DOMAIN Tail(s) : Tail(s)[a].id = (n + 1) + a
<1>1. Len(Tail(s)) = Len(s) - 1 /\ Len(s) \in Nat \ {0}
  OBVIOUS
<1>2. DOMAIN s = 1 .. Len(s) /\ DOMAIN Tail(s) = 1 .. (Len(s) - 1)
  OBVIOUS
<1>3. \A a \in 1 .. (Len(s) - 1) : Tail(s)[a] = s[a + 1]
  OBVIOUS
<1>4. \A a \in 1 .. (Len(s) - 1) : s[a + 1].id = n + (a + 1)
  BY <1>1, <1>2
<1> QED
  BY <1>1, <1>2, <1>3, <1>4

\* And with the next one after the last.
LEMMA NumberedAppend ==
  ASSUME NEW S, NEW s \in Seq(S), NEW n \in Nat, NEW x \in S,
         \A a \in DOMAIN s : s[a].id = n + a, x.id = n + Len(s) + 1
  PROVE  /\ Len(Append(s, x)) = Len(s) + 1
         /\ \A a \in DOMAIN Append(s, x) : Append(s, x)[a].id = n + a
<1>1. Len(Append(s, x)) = Len(s) + 1 /\ Len(s) \in Nat
  OBVIOUS
<1>2. DOMAIN s = 1 .. Len(s) /\ DOMAIN Append(s, x) = 1 .. (Len(s) + 1)
  OBVIOUS
<1>3. \A a \in 1 .. (Len(s) + 1) :
        Append(s, x)[a] = IF a = Len(s) + 1 THEN x ELSE s[a]
  OBVIOUS
<1> QED
  BY <1>1, <1>2, <1>3

\* The numbers that the types give.
LEMMA Numbers ==
  ASSUME RemoteTypes
  PROVE  /\ sent \in Nat /\ recv_buf.id \in Nat /\ frame.id \in Nat
         /\ Len(up) \in Nat /\ Len(down) \in Nat
         /\ stops \in Nat /\ breaks \in Nat
BY DEF RemoteTypes, RequestInv, Told, AskedFor, Requests

\* What the server's steps are to the order: it takes the first request, works
\* on it, and puts the answer behind the others.
LEMMA ServerEffect ==
  ASSUME SingleHandler, RemoteTypes, NEW h \in Handlers, Server(h)
  PROVE  /\ conn = "up" /\ UNCHANGED <<conn, recv_buf, sent, stops, breaks, cpc,
                                       request, shown>>
         /\ \/ /\ ~Busy /\ Busy' /\ up # <<>> /\ down' = down
               /\ frame' = up[1] /\ up' = Tail(up)
            \/ /\ Busy /\ Busy' /\ UNCHANGED <<up, down, frame>>
            \/ /\ Busy /\ ~Busy' /\ UNCHANGED <<up, frame>>
               /\ \E a \in Answers : a.id = frame.id /\ a.result = hret[h]
                                       /\ down' = Append(down, a)
<1>1. /\ Busy <=> hpc[h] # "idle"
      /\ Busy' <=> hpc'[h] # "idle"
  BY DEF Busy, SingleHandler
<1> USE DEF client, server, HMove
<1> HIDE DEF Busy
<1>2. hpc \in [Handlers -> {"idle", "check", "build", "store_ch", "store_pt",
                            "start", "reply"}]
  BY DEF RemoteTypes, TypeOK
<1>3. CASE STake(h)
  <2>1. hpc[h] = "idle" /\ hpc'[h] # "idle"
    BY <1>2, <1>3 DEF STake, HOpen, HOpenFails, HStop, HHeartbeat
  <2>2. Head(up) = up[1]
    BY DEF RemoteTypes, RequestInv
  <2> QED
    BY <1>1, <1>3, <2>1, <2>2 DEF STake
<1>4. CASE SParameters(h)
  <2>1. hpc[h] # "idle" /\ hpc'[h] # "idle"
    BY <1>2, <1>4 DEF SParameters, HReject, HPoints, HBuild, HStoreCh, HStorePt
  <2> QED
    BY <1>1, <1>4, <2>1 DEF SParameters
<1>5. CASE SStart(h)
  BY <1>1, <1>2, <1>5 DEF SStart, HStart
<1>6. CASE SLog(h)
  BY <1>1, <1>6 DEF SLog, vars, handlers
<1>7. CASE SReply(h)
  <2>1. hpc[h] # "idle" /\ hpc'[h] = "idle"
    BY <1>2, <1>7 DEF SReply, HReply
  <2> QED
    BY <1>1, <1>7, <2>1, ReplyEffect DEF SReply
<1> QED
  BY <1>3, <1>4, <1>5, <1>6, <1>7 DEF Server

\* Nobody else touches the request in hand.
LEMMA OthersKeepHand ==
  ASSUME Asks \/ Reads \/ GivesUp \/ LeavesAnswers
  PROVE  (Busy' <=> Busy) /\ UNCHANGED <<handlers, frame, accepted, ch_cnt,
                                         pt_cnt, acquisition_action>>
BY DEF Asks, Reads, GivesUp, LeavesAnswers, Busy, vars, handlers, server, driver

\* Every step keeps the order.
LEMMA OrderStep ==
  ASSUME SingleHandler, RemoteTypes, OrderInv, [RNext]_allVars
  PROVE  OrderInv'
<1>0. /\ sent \in Nat /\ recv_buf.id \in Nat /\ frame.id \in Nat
      /\ Len(up) \in Nat /\ Len(down) \in Nat
  BY Numbers
<1>1. InHand \in {0, 1} /\ InHand' \in {0, 1}
  BY DEF InHand
<1>2. CASE Asks
  <2>1. CASE conn = "up"
    <3> DEFINE r == request'
    <3>1. /\ up \in Seq(Requests) /\ r \in Requests /\ up' = Append(up, r)
          /\ frame.id \in Nat /\ r.id = frame.id + Len(up) + 1
          /\ \A a \in DOMAIN up : up[a].id = frame.id + a
      BY <1>0, <1>2, <2>1, AskEffect DEF OrderInv, RemoteTypes, RequestInv
    <3> HIDE DEF r
    <3>2. /\ Len(Append(up, r)) = Len(up) + 1
          /\ \A a \in DOMAIN Append(up, r) : Append(up, r)[a].id = frame.id + a
      BY <3>1, NumberedAppend
    <3>3. /\ sent' = sent + 1 /\ frame' = frame /\ InHand' = InHand
          /\ down' = down /\ recv_buf' = recv_buf
      BY <1>2, AskEffect, OthersKeepHand DEF InHand
    <3> QED
      BY <1>0, <1>1, <2>1, <3>1, <3>2, <3>3 DEF OrderInv
  <2>2. CASE conn # "up"
    BY <1>2, <2>2, AskEffect DEF OrderInv
  <2> QED
    BY <2>1, <2>2
<1>3. CASE Reads
  <2>1. /\ down[1].id = recv_buf.id + 1 /\ Len(down') = Len(down) - 1
        /\ \A a \in DOMAIN down' : down'[a].id = (recv_buf.id + 1) + a
    <3>1. down \in Seq(Answers) /\ down # <<>> /\ down' = Tail(down)
      BY <1>3, ReadEffect DEF RemoteTypes
    <3>2. \A a \in DOMAIN down : down[a].id = recv_buf.id + a
      BY DEF OrderInv
    <3>3. /\ down[1].id = recv_buf.id + 1 /\ Len(Tail(down)) = Len(down) - 1
          /\ \A a \in DOMAIN Tail(down) :
               Tail(down)[a].id = (recv_buf.id + 1) + a
      BY <1>0, <3>1, <3>2, NumberedTail
    <3> QED
      BY <3>1, <3>3
  <2>2. recv_buf'.id = recv_buf.id + 1
    BY <1>3, <2>1, ReadEffect
  <2>3. UNCHANGED <<up, conn, sent, frame>> /\ InHand' = InHand
    BY <1>3, ReadEffect, OthersKeepHand DEF InHand
  <2>4. \A a \in DOMAIN down' : down'[a].id = recv_buf'.id + a
    BY <2>1, <2>2
  <2>5. recv_buf'.id + Len(down') = recv_buf.id + Len(down)
    BY <1>0, <2>1, <2>2
  <2>6. conn' = "up" => frame'.id = recv_buf'.id + Len(down') + InHand'
    BY <1>0, <1>1, <2>3, <2>5 DEF OrderInv
  <2> QED
    BY <2>3, <2>4, <2>6 DEF OrderInv
<1>4. CASE GivesUp \/ LeavesAnswers
  <2>1. UNCHANGED <<recv_buf, down, sent>> /\ (conn' = "up" => UNCHANGED <<conn, up>>)
    BY <1>4 DEF GivesUp, LeavesAnswers
  <2> QED
    BY <1>4, <2>1, OthersKeepHand DEF OrderInv, InHand
<1>5. ASSUME NEW h \in Handlers, Server(h)
      PROVE  OrderInv'
  <2>1. conn = "up" /\ UNCHANGED <<conn, recv_buf, sent>>
    BY <1>5, ServerEffect
  <2>2. CASE ~Busy /\ Busy' /\ up # <<>> /\ down' = down /\ frame' = up[1]
               /\ up' = Tail(up)
    <3>1. /\ up[1].id = frame.id + 1 /\ Len(Tail(up)) = Len(up) - 1
          /\ \A a \in DOMAIN Tail(up) : Tail(up)[a].id = (frame.id + 1) + a
      BY <1>0, <2>1, <2>2, NumberedTail DEF OrderInv, RemoteTypes, RequestInv
    <3> QED
      BY <1>0, <2>1, <2>2, <3>1 DEF OrderInv, InHand
  <2>3. CASE Busy /\ Busy' /\ UNCHANGED <<up, down, frame>>
    BY <2>1, <2>3 DEF OrderInv, InHand
  <2>4. CASE /\ Busy /\ ~Busy' /\ UNCHANGED <<up, frame>>
             /\ \E a \in Answers : a.id = frame.id /\ a.result = hret[h]
                                     /\ down' = Append(down, a)
    <3>1. frame.id = recv_buf.id + Len(down) + 1
      BY <1>0, <2>1, <2>4 DEF OrderInv, InHand
    <3>2. PICK a \in Answers : a.id = frame.id /\ down' = Append(down, a)
      BY <2>4
    <3>3. /\ down \in Seq(Answers) /\ recv_buf.id \in Nat
          /\ a.id = recv_buf.id + Len(down) + 1
          /\ \A b \in DOMAIN down : down[b].id = recv_buf.id + b
      BY <1>0, <3>1, <3>2 DEF OrderInv, RemoteTypes
    <3>4. /\ Len(Append(down, a)) = Len(down) + 1
          /\ \A b \in DOMAIN Append(down, a) :
               Append(down, a)[b].id = recv_buf.id + b
      BY <3>3, NumberedAppend
    <3> QED
      <4>1. \A b \in DOMAIN down' : down'[b].id = recv_buf'.id + b
        BY <2>1, <3>2, <3>4
      <4>2. frame'.id = recv_buf'.id + Len(down') + InHand'
        BY <1>0, <2>1, <2>4, <3>1, <3>2, <3>4 DEF InHand
      <4> QED
        BY <2>1, <2>4, <4>1, <4>2 DEF OrderInv
  <2> QED
    BY <1>5, <2>2, <2>3, <2>4, ServerEffect
<1> QED
  BY <1>2, <1>3, <1>4, <1>5, RemoteKinds

\* The order holds at all times.
LEMMA OrderHolds == SingleHandler => (RSpec => []OrderInv)
<1> SUFFICES ASSUME SingleHandler PROVE RSpec => []OrderInv
  OBVIOUS
<1>1. RInit => OrderInv
  <2> SUFFICES ASSUME RInit PROVE OrderInv
    OBVIOUS
  <2>1. recv_buf.id = 0 /\ frame.id = 0 /\ sent = 0 /\ up = <<>> /\ down = <<>>
    BY DEF RInit, Client!CInit, Client!Empty, Client!None
  <2>2. InHand = 0
    BY DEF RInit, Init, InHand, Busy
  <2> QED
    BY <2>1, <2>2 DEF OrderInv
<1>2. RemoteTypes /\ OrderInv /\ [RNext]_allVars => OrderInv'
  BY OrderStep
<1> QED
  BY <1>1, <1>2, RemoteTypesHold, PTL DEF RSpec

\* Every step keeps the account of what was given up.
LEMMA LagStep ==
  ASSUME RemoteTypes, OrderInv, LagInv, [RNext]_allVars
  PROVE  LagInv'
<1>1. /\ sent \in Nat /\ recv_buf.id \in Nat /\ stops \in Nat /\ breaks \in Nat
  BY Numbers
<1>2. CASE Asks
  <2>1. UNCHANGED <<recv_buf, stops, breaks>> /\ sent' = sent + 1
    BY <1>2, AskEffect
  <2>2. cpc' # "gone" \/ conn' = "up" => cpc' = "recv"
    BY <1>2, AskEffect
  <2>3. recv_buf.id + stops + breaks = sent
    BY <1>2, AskEffect DEF LagInv, Reported
  <2> QED
    BY <1>1, <2>1, <2>2, <2>3 DEF LagInv, Reported
<1>3. CASE Reads
  <2>1. /\ cpc = "recv" /\ cpc' # "recv"
        /\ UNCHANGED <<sent, stops, breaks>>
    BY <1>3, ReadEffect, ReportEffect
  <2>2. recv_buf'.id = recv_buf.id + 1
    <3>1. 1 \in DOMAIN down
      BY <1>3, ReadEffect DEF RemoteTypes
    <3> QED
      BY <1>3, <3>1, ReadEffect DEF OrderInv
  <2>3. recv_buf.id + stops + breaks = sent - 1
    BY <2>1 DEF LagInv, Reported
  <2> QED
    BY <1>1, <2>1, <2>2, <2>3 DEF LagInv, Reported
<1>4. CASE GivesUp
  <2>1. cpc = "recv" /\ cpc' # "recv" /\ UNCHANGED <<sent, recv_buf>>
    BY <1>4, GivesUpEffect, ReportEffect DEF GivesUp
  <2>2. recv_buf.id + stops + breaks = sent - 1
    BY <2>1 DEF LagInv, Reported
  <2> QED
    BY <1>1, <1>4, <2>1, <2>2, GivesUpEffect DEF LagInv, Reported
<1>5. CASE LeavesAnswers
  BY <1>5 DEF LeavesAnswers, LagInv, Reported
<1>6. ASSUME NEW h \in Handlers, Server(h)
      PROVE  LagInv'
  <2>1. UNCHANGED <<conn, recv_buf, sent, stops, breaks, cpc>>
    BY <1>6 DEF Server, STake, SParameters, SStart, SLog, SReply, client
  <2> QED
    BY <2>1 DEF LagInv, Reported
<1> QED
  BY <1>2, <1>3, <1>4, <1>5, <1>6, RemoteKinds

\* The client is told what it asked, but for the answers it gave up waiting
\* for: these it stays behind for good, whatever the sockets do.
LEMMA LagHolds == SingleHandler => (RSpec => []LagInv)
<1> SUFFICES ASSUME SingleHandler PROVE RSpec => []LagInv
  OBVIOUS
<1>1. RInit => LagInv
  BY DEF RInit, Client!CInit, Client!Empty, LagInv, Reported
<1>2. RemoteTypes /\ OrderInv /\ LagInv /\ [RNext]_allVars => LagInv'
  BY LagStep
<1>3. RSpec => []OrderInv
  BY OrderHolds
<1> QED
  BY <1>1, <1>2, <1>3, RemoteTypesHold, PTL DEF RSpec

\* Nothing in an answer names its request; still the client is behind by just
\* the number of times net_recv came back with nothing.
THEOREM LagsByEmptyReturns ==
  SingleHandler => (RSpec => []AnswersLagByEmptyReturns)
<1>1. LagInv => AnswersLagByEmptyReturns
  BY DEF LagInv, Reported, AnswersLagByEmptyReturns
<1> QED
  BY <1>1, LagHolds, PTL

\* However a connection ends and however often the user goes on asking, all but
\* one of the requests reported without an answer of their own are reported
\* because net_recv was interrupted, interruptions on the dead connection
\* included.
THEOREM BreakCostsOne == SingleHandler => (RSpec => []BreakCostsOneAnswer)
<1>1. RemoteTypes /\ LagInv /\ BreakInv => BreakCostsOneAnswer
  <2> SUFFICES ASSUME RemoteTypes, LagInv, BreakInv, cpc # "gone"
               PROVE  Reported <= recv_buf.id + stops + 1
    BY DEF BreakCostsOneAnswer
  <2>1. recv_buf.id \in Nat /\ stops \in Nat /\ breaks \in {0, 1}
    BY Numbers DEF BreakInv
  <2>2. recv_buf.id + stops + breaks = Reported
    BY DEF LagInv, Reported
  <2> QED
    BY <2>1, <2>2
<1> QED
  BY <1>1, LagHolds, BreaksHold, RemoteTypesHold, PTL

-----------------------------------------------------------------------------
(* What the card is left with, however its process or its connection ends.  *)

Starting == {"check", "build", "store_ch", "store_pt", "start"}

\* The handler that works its way to the card has the request in its hand.
StartInv ==
  \A h \in Handlers :
    hpc[h] \in Starting => frame.cmd = "START_DAQ" /\ hch[h] = frame.ch

AcceptedInv ==
  /\ (\A h \in Handlers : hpc[h] \in {"idle", "check", "build", "store_ch"}) =>
       ch_cnt = accepted
  /\ \A h \in Handlers :
       /\ hpc[h] = "store_pt" => ch_cnt = hch[h]
       /\ hpc[h] \in {"start", "reply"} =>
            ch_cnt = IF frame.cmd = "START_DAQ" /\ hret[h] = 0 THEN frame.ch
                                                               ELSE accepted

\* With one handler, its own steps keep it.
LEMMA HandlerKeepsAccepted ==
  ASSUME SingleHandler, RemoteTypes, StartInv, AcceptedInv,
         NEW h \in Handlers, Server(h)
  PROVE  StartInv' /\ AcceptedInv'
<1>1. \A g \in Handlers : g = h
  BY DEF SingleHandler
<1>2. /\ hpc \in [Handlers -> {"idle", "check", "build", "store_ch", "store_pt",
                               "start", "reply"}]
      /\ hret \in [Handlers -> {0, 1}] /\ hch \in [Handlers -> Channels \union {0}]
  BY DEF RemoteTypes, TypeOK
<1>3. /\ hpc[h] \in Starting => frame.cmd = "START_DAQ" /\ hch[h] = frame.ch
      /\ hpc[h] \in {"idle", "check", "build", "store_ch"} => ch_cnt = accepted
      /\ hpc[h] = "store_pt" => ch_cnt = hch[h]
      /\ hpc[h] \in {"start", "reply"} =>
           ch_cnt = IF frame.cmd = "START_DAQ" /\ hret[h] = 0 THEN frame.ch
                                                              ELSE accepted
  BY <1>1 DEF StartInv, AcceptedInv
<1>4. SUFFICES
        /\ hpc'[h] \in Starting => frame'.cmd = "START_DAQ" /\ hch'[h] = frame'.ch
        /\ hpc'[h] \in {"idle", "check", "build", "store_ch"} =>
             ch_cnt' = accepted'
        /\ hpc'[h] = "store_pt" => ch_cnt' = hch'[h]
        /\ hpc'[h] \in {"start", "reply"} =>
             ch_cnt' = IF frame'.cmd = "START_DAQ" /\ hret'[h] = 0 THEN frame'.ch
                                                            ELSE accepted'
  BY <1>1 DEF StartInv, AcceptedInv
<1> USE DEF HMove, Starting, driver, server
<1>5. CASE STake(h)
  <2>1. UNCHANGED <<ch_cnt, accepted>> /\ frame' = Head(up) /\ hpc[h] = "idle"
    BY <1>5 DEF STake, HOpen, HOpenFails, HStop, HHeartbeat
  <2>2. CASE Head(up).cmd = "START_DAQ" /\ HOpen(h, Head(up).ch)
    BY <1>2, <1>3, <2>1, <2>2 DEF HOpen
  <2>3. CASE HOpenFails(h)
    BY <1>2, <1>3, <2>1, <2>3 DEF HOpenFails
  <2>4. CASE Head(up).cmd = "STOP_DAQ" /\ HStop(h)
    BY <1>2, <1>3, <2>1, <2>4 DEF HStop
  <2>5. CASE Head(up).cmd \notin {"START_DAQ", "STOP_DAQ"} /\ HHeartbeat(h)
    BY <1>2, <1>3, <2>1, <2>5 DEF HHeartbeat
  <2> QED
    BY <1>5, <2>2, <2>3, <2>4, <2>5 DEF STake
<1>6. CASE SParameters(h)
  <2>1. UNCHANGED <<frame, accepted>>
    BY <1>6 DEF SParameters
  <2>2. CASE HReject(h)
    BY <1>2, <1>3, <2>1, <2>2 DEF HReject
  <2>3. CASE HPoints(h)
    BY <1>2, <1>3, <2>1, <2>3 DEF HPoints
  <2>4. CASE HBuild(h)
    BY <1>2, <1>3, <2>1, <2>4 DEF HBuild
  <2>5. CASE HStoreCh(h)
    BY <1>2, <1>3, <2>1, <2>5 DEF HStoreCh
  <2>6. CASE HStorePt(h)
    BY <1>2, <1>3, <2>1, <2>6 DEF HStorePt
  <2> QED
    BY <1>6, <2>2, <2>3, <2>4, <2>5, <2>6 DEF SParameters
<1>7. CASE SStart(h)
  BY <1>2, <1>3, <1>7 DEF SStart, HStart
<1>8. CASE SLog(h)
  BY <1>3, <1>8 DEF SLog, vars, handlers
<1>9. CASE SReply(h)
  BY <1>2, <1>3, <1>9 DEF SReply, HReply
<1> QED
  BY <1>5, <1>6, <1>7, <1>8, <1>9 DEF Server

\* Both hold at all times.
LEMMA AcceptedHolds == SingleHandler => (RSpec => [](StartInv /\ AcceptedInv))
<1> SUFFICES ASSUME SingleHandler PROVE RSpec => [](StartInv /\ AcceptedInv)
  OBVIOUS
<1>1. RInit => StartInv /\ AcceptedInv
  BY DEF RInit, Init, StartInv, AcceptedInv, Starting
<1>2. RemoteTypes /\ (StartInv /\ AcceptedInv) /\ [RNext]_allVars
        => (StartInv /\ AcceptedInv)'
  <2> SUFFICES ASSUME RemoteTypes, StartInv, AcceptedInv, [RNext]_allVars
               PROVE  StartInv' /\ AcceptedInv'
    OBVIOUS
  <2>1. CASE Asks \/ Reads \/ GivesUp \/ LeavesAnswers
    BY <2>1, OthersKeepHand DEF StartInv, AcceptedInv, handlers
  <2> QED
    BY <2>1, HandlerKeepsAccepted, RemoteKinds
<1> QED
  BY <1>1, <1>2, RemoteTypesHold, PTL DEF RSpec

\* The card is started whatever became of the parameters, but those it is left
\* with are the ones of the last START that was answered with success.
THEOREM LastAcceptedIsKept ==
  SingleHandler => (RSpec => []ParametersAreTheLastAccepted)
<1>1. AcceptedInv => ParametersAreTheLastAccepted
  BY DEF AcceptedInv, ParametersAreTheLastAccepted
<1> QED
  BY <1>1, AcceptedHolds, PTL

-----------------------------------------------------------------------------
(* The log. Its lines, and those that wait at its port, are numbers of      *)
(* requests that started the card, in their order; the request in hand is   *)
(* not among them until it has started the card and been written.           *)

Rising(s) == \A a, b \in DOMAIN s : a < b => s[a] < s[b]

Lines(s) == {s[a] : a \in DOMAIN s}

LogInv ==
  /\ log_txt \in Seq(Nat) /\ port \in Seq(Nat) /\ started \subseteq Nat
  /\ Rising(log_txt) /\ Rising(port)
  /\ \A m \in Lines(log_txt), n \in Lines(port) : m < n
  /\ Lines(log_txt) \subseteq started /\ Lines(port) \subseteq started
  /\ \A n \in started : n <= frame.id
  /\ \A h \in Handlers : hpc[h] \in Starting => frame.id \notin started
  /\ log_due => /\ \E h \in Handlers : hpc[h] = "reply"
                /\ frame.id \in started
                /\ frame.id \notin Lines(log_txt) \union Lines(port)

\* A number above all others goes to the end.
LEMMA RisingAppend ==
  ASSUME NEW s \in Seq(Nat), NEW n \in Nat, NEW t, t = Append(s, n),
         Rising(s), \A m \in Lines(s) : m < n
  PROVE  t \in Seq(Nat) /\ Rising(t) /\ Lines(t) = Lines(s) \union {n}
<1>1. t \in Seq(Nat) /\ Len(t) = Len(s) + 1 /\ Len(s) \in Nat
  OBVIOUS
<1>2. DOMAIN s = 1 .. Len(s) /\ DOMAIN t = 1 .. (Len(s) + 1)
  OBVIOUS
<1>3. \A a \in DOMAIN t : t[a] = IF a = Len(s) + 1 THEN n ELSE s[a]
  OBVIOUS
<1>4. \A a \in DOMAIN s : s[a] < n
  BY DEF Lines
<1>5. Rising(t)
  BY <1>1, <1>2, <1>3, <1>4 DEF Rising
<1>6. Lines(t) = Lines(s) \union {n}
  <2>1. ASSUME NEW m \in Lines(t) PROVE m \in Lines(s) \union {n}
    BY <1>1, <1>2, <1>3, <2>1 DEF Lines
  <2>2. ASSUME NEW m \in Lines(s) PROVE m \in Lines(t)
    <3>1. PICK a \in DOMAIN s : m = s[a]
      BY <2>2 DEF Lines
    <3>2. a \in DOMAIN t /\ t[a] = m
      BY <1>1, <1>2, <1>3, <3>1
    <3> QED
      BY <3>2 DEF Lines
  <2>3. n \in Lines(t)
    <3>1. Len(s) + 1 \in DOMAIN t /\ t[Len(s) + 1] = n
      BY <1>1, <1>2, <1>3
    <3> QED
      BY <3>1 DEF Lines
  <2> QED
    BY <2>1, <2>2, <2>3
<1> QED
  BY <1>1, <1>5, <1>6

\* The first is below the others.
LEMMA RisingTail ==
  ASSUME NEW s \in Seq(Nat), s # <<>>, Rising(s), NEW t, t = Tail(s)
  PROVE  /\ t \in Seq(Nat) /\ Rising(t)
         /\ Head(s) \in Lines(s) /\ Lines(t) \subseteq Lines(s)
         /\ \A m \in Lines(t) : Head(s) < m
<1>1. t \in Seq(Nat) /\ Len(t) = Len(s) - 1 /\ Len(s) \in Nat \ {0}
  OBVIOUS
<1>2. DOMAIN s = 1 .. Len(s) /\ DOMAIN t = 1 .. (Len(s) - 1)
  OBVIOUS
<1>3. Head(s) = s[1] /\ \A a \in DOMAIN t : t[a] = s[a + 1]
  OBVIOUS
<1>4. Rising(t)
  BY <1>1, <1>2, <1>3 DEF Rising
<1>5. Head(s) \in Lines(s)
  BY <1>1, <1>2, <1>3 DEF Lines
<1>6. ASSUME NEW m \in Lines(t)
      PROVE  m \in Lines(s) /\ Head(s) < m
  <2>1. PICK a \in DOMAIN t : m = t[a]
    BY DEF Lines
  <2>2. a + 1 \in DOMAIN s /\ 1 \in DOMAIN s /\ m = s[a + 1] /\ 1 < a + 1
    BY <1>1, <1>2, <1>3, <2>1
  <2> QED
    BY <1>3, <2>2 DEF Lines, Rising
<1> QED
  BY <1>1, <1>4, <1>5, <1>6

\* The log process moves lines from its port to the file, or loses them.
LEMMA LogKeepsLines ==
  ASSUME LogInv, LogSteps
  PROVE  LogInv'
<1>1. UNCHANGED <<hpc, frame, log_due, started>>
  BY DEF LogSteps, vars, handlers, server
<1>2. CASE Log!LHandle
  <2>1. port # <<>> /\ port' = Tail(port)
        /\ (log_txt' = Append(log_txt, Head(port)) \/ log_txt' = log_txt)
    BY <1>2 DEF Log!LHandle
  <2>2. /\ port' \in Seq(Nat) /\ Rising(port')
        /\ Head(port) \in Lines(port) /\ Lines(port') \subseteq Lines(port)
        /\ \A m \in Lines(port') : Head(port) < m
    BY <2>1, RisingTail DEF LogInv
  <2>3. Head(port) \in Nat
    BY <2>2 DEF LogInv
  <2>4. CASE log_txt' = Append(log_txt, Head(port))
    <3>1. /\ log_txt' \in Seq(Nat) /\ Rising(log_txt')
          /\ Lines(log_txt') = Lines(log_txt) \union {Head(port)}
      BY <2>2, <2>3, <2>4, RisingAppend DEF LogInv
    <3> QED
      BY <1>1, <2>2, <3>1 DEF LogInv
  <2>5. CASE log_txt' = log_txt
    BY <1>1, <2>2, <2>5 DEF LogInv
  <2> QED
    BY <2>1, <2>4, <2>5
<1>3. CASE Log!LStop
  <2>1. port' = <<>> /\ log_txt' = log_txt
    BY <1>3 DEF Log!LStop
  <2>2. port' \in Seq(Nat) /\ Rising(port') /\ Lines(port') = {}
    BY <2>1 DEF Rising, Lines
  <2> QED
    BY <1>1, <2>1, <2>2 DEF LogInv
<1>4. CASE Log!LStart
  BY <1>1, <1>4 DEF Log!LStart, LogInv
<1> QED
  BY <1>2, <1>3, <1>4 DEF LogSteps, Log!LNext

\* The one handler adds the request in its hand: to what has been started, and
\* then, or never, to the port.
LEMMA ServerKeepsLines ==
  ASSUME SingleHandler, RemoteTypes, OrderInv, LogInv, NEW h \in Handlers,
         Server(h)
  PROVE  LogInv'
<1>1. \A g \in Handlers : g = h
  BY DEF SingleHandler
<1>2. hpc \in [Handlers -> {"idle", "check", "build", "store_ch", "store_pt",
                            "start", "reply"}]
  BY DEF RemoteTypes, TypeOK
<1>3. frame.id \in Nat
  BY Numbers
<1> USE DEF HMove
<1>4. CASE STake(h)
  <2>1. hpc[h] = "idle" /\ UNCHANGED <<logs, log_due, started>> /\ ~Busy
    BY <1>1, <1>4
       DEF STake, HOpen, HOpenFails, HStop, HHeartbeat, Busy
  <2>2. log_due = FALSE \/ ~log_due
    BY <1>1, <2>1 DEF LogInv
  <2>3. frame'.id = frame.id + 1
    <3>1. up # <<>> /\ frame' = up[1] /\ 1 \in DOMAIN up /\ conn = "up"
      BY <1>4 DEF STake, RemoteTypes, RequestInv
    <3> QED
      BY <3>1 DEF OrderInv
  <2>4. \A n \in started : n <= frame'.id /\ n # frame'.id
    BY <1>3, <2>3 DEF LogInv
  <2>5. ~log_due'
    BY <2>1, <2>2
  <2> QED
    BY <2>1, <2>4, <2>5 DEF LogInv, logs
<1>5. CASE SParameters(h)
  <2>1. UNCHANGED <<logs, server>> /\ hpc[h] \in Starting
    BY <1>5 DEF SParameters, HReject, HPoints, HBuild, HStoreCh, HStorePt,
       Starting
  <2>2. ~log_due
    BY <1>1, <2>1 DEF LogInv, Starting
  <2>3. frame.id \notin started
    BY <2>1 DEF LogInv
  <2> QED
    BY <2>1, <2>2, <2>3 DEF LogInv, logs, server
<1>6. CASE SStart(h)
  <2>1. /\ hpc[h] = "start" /\ hpc'[h] = "reply" /\ frame' = frame
        /\ started' = started \union {frame.id} /\ log_due' = TRUE
        /\ UNCHANGED logs
    BY <1>2, <1>6 DEF SStart, HStart
  <2>2. frame.id \notin started
    BY <2>1 DEF LogInv, Starting
  <2>3. frame.id \notin Lines(log_txt) \union Lines(port)
    BY <2>2 DEF LogInv
  <2>4. \A g \in Handlers : hpc'[g] \notin Starting
    BY <1>1, <2>1 DEF Starting
  <2>5. /\ started' \subseteq Nat
        /\ Lines(log_txt') \subseteq started' /\ Lines(port') \subseteq started'
        /\ \A n \in started' : n <= frame'.id
    <3>1. /\ started \subseteq Nat /\ \A n \in started : n <= frame.id
          /\ Lines(log_txt) \subseteq started /\ Lines(port) \subseteq started
      BY DEF LogInv
    <3>2. log_txt' = log_txt /\ port' = port
      BY <2>1 DEF logs
    <3>3. ASSUME NEW n \in started'
          PROVE  n <= frame'.id
      <4>1. frame' = frame /\ (n \in started \/ n = frame.id)
        BY <2>1, <3>3
      <4>2. CASE n = frame.id
        BY <1>3, <4>1, <4>2
      <4> QED
        BY <3>1, <4>1, <4>2
    <3> QED
      BY <1>3, <2>1, <3>1, <3>2, <3>3
  <2>6. /\ \E g \in Handlers : hpc'[g] = "reply"
        /\ frame'.id \in started'
        /\ frame'.id \notin Lines(log_txt') \union Lines(port')
    BY <2>1, <2>3 DEF logs
  <2>7. /\ log_txt' \in Seq(Nat) /\ port' \in Seq(Nat)
        /\ Rising(log_txt') /\ Rising(port')
        /\ \A m \in Lines(log_txt'), n \in Lines(port') : m < n
    BY <2>1 DEF LogInv, logs
  <2> QED
    BY <2>4, <2>5, <2>6, <2>7 DEF LogInv
<1>7. CASE SLog(h)
  <2>1. /\ log_due /\ ~log_due' /\ UNCHANGED <<hpc, frame, started, log_txt>>
        /\ (port' = Append(port, frame.id) \/ port' = port)
    BY <1>7 DEF SLog, Log!WriteLog, vars, handlers
  <2>2. CASE port' = port
    BY <2>1, <2>2 DEF LogInv
  <2>3. CASE port' = Append(port, frame.id)
    <3>1. frame.id \in started
          /\ \A m \in Lines(log_txt) \union Lines(port) : m < frame.id
      <4>1. /\ frame.id \in started
            /\ frame.id \notin Lines(log_txt) \union Lines(port)
        BY <2>1 DEF LogInv
      <4>2. ASSUME NEW m \in Lines(log_txt) \union Lines(port)
            PROVE  m < frame.id
        <5>1. m \in Nat /\ m <= frame.id /\ m # frame.id
          BY <4>1, <4>2 DEF LogInv
        <5> QED
          BY <1>3, <5>1
      <4> QED
        BY <4>1, <4>2
    <3>2. /\ port' \in Seq(Nat) /\ Rising(port')
          /\ Lines(port') = Lines(port) \union {frame.id}
      BY <1>3, <2>3, <3>1, RisingAppend DEF LogInv
    <3> QED
      BY <2>1, <3>1, <3>2 DEF LogInv
  <2> QED
    BY <2>1, <2>2, <2>3
<1>8. CASE SReply(h)
  <2>1. ~log_due /\ UNCHANGED <<logs, frame, log_due, started>>
    BY <1>8 DEF SReply
  <2>2. \A g \in Handlers : hpc'[g] \notin Starting
    BY <1>1, <1>2, <1>8 DEF SReply, HReply, Starting
  <2> QED
    BY <2>1, <2>2 DEF LogInv, logs
<1> QED
  BY <1>4, <1>5, <1>6, <1>7, <1>8 DEF Server

\* A line of the log stands for a START that did reach the card, in the order
\* of the starts, whatever is lost on the way and however often the log process
\* ends and is started again.
THEOREM LogIsTrue == SingleHandler => (RSpec => []LogTellsStarts)
<1> SUFFICES ASSUME SingleHandler PROVE RSpec => []LogTellsStarts
  OBVIOUS
<1>1. RInit => LogInv
  <2> SUFFICES ASSUME RInit PROVE LogInv
    OBVIOUS
  <2>1. log_txt = <<>> /\ port = <<>> /\ started = {} /\ log_due = FALSE
    BY DEF RInit, Log!LInit
  <2> QED
    BY <2>1 DEF LogInv, Rising, Lines
<1>2. RemoteTypes /\ OrderInv /\ LogInv /\ [RNext]_allVars => LogInv'
  <2> SUFFICES ASSUME RemoteTypes, OrderInv, LogInv, [RNext]_allVars
               PROVE  LogInv'
    OBVIOUS
  <2>1. CASE ClientSteps \/ FillSteps \/ UNCHANGED allVars
    <3>1. UNCHANGED <<logs, server, hpc>>
      BY <2>1 DEF ClientSteps, FillSteps, Fill, FBegin, FRow, FSample,
         FRowEnds, FEnd, vars, handlers, allVars
    <3> QED
      BY <3>1 DEF LogInv, logs, server
  <2> QED
    BY <2>1, LogKeepsLines, ServerKeepsLines DEF RNext
<1>3. LogInv => LogTellsStarts
  BY DEF LogInv, LogTellsStarts, Rising, Lines
<1>4. RSpec => []OrderInv
  BY OrderHolds
<1> QED
  BY <1>1, <1>2, <1>3, <1>4, RemoteTypesHold, PTL DEF RSpec

-----------------------------------------------------------------------------
(* What the user is told, with one handler and an undisturbed client.       *)

\* A result of 0 is true of the card.
InForce(r, result) ==
  result = 0 =>
    /\ r.cmd = "START_DAQ" => /\ acquisition_action = "START_DAQ"
                              /\ ch_cnt = r.ch /\ ch_cnt * pt_cnt <= Room
    /\ r.cmd = "STOP_DAQ" => acquisition_action = "STOP_DAQ"

\* Requests are numbered, and one that is waited for has not been shown.
AskedInv ==
  /\ request.id = sent
  /\ shown.asked.id <= sent
  /\ cpc = "recv" => shown.asked.id < sent

\* No answer is newer than the last request.
DownInv == recv_buf.id + Len(down) <= sent

\* What was shown is true, and at the menu everything was shown; an answer on
\* its way is true already; the only request under way is the client's.
ToldTrue  == ShownIsLast => InForce(shown.asked, shown.told.result)

AllShown  == cpc \in {"menu", "beat"} => ShownIsLast

AnswerTrue ==
  cpc = "recv" => \A a \in DOMAIN down : InForce(request, down[a].result)

HandTrue ==
  conn = "up" =>
    /\ \A a \in DOMAIN up : up[a] = request
    /\ Busy => frame = request
    /\ \A h \in Handlers :
         /\ hpc[h] = "start" =>
              (hret[h] = 0 => ch_cnt = frame.ch /\ ch_cnt * pt_cnt <= Room)
         /\ hpc[h] = "reply" => InForce(frame, hret[h])

ForceInv ==
  Undisturbed => ToldTrue /\ AllShown /\ AnswerTrue /\ HandTrue

\* The numbers of requests are kept.
LEMMA AskedStep ==
  ASSUME RemoteTypes, AskedInv, [RNext]_allVars
  PROVE  AskedInv'
<1>1. sent \in Nat /\ shown.asked.id \in Nat
  BY DEF RemoteTypes, RequestInv, AskedFor, Requests
<1>2. CASE Asks
  BY <1>1, <1>2, AskEffect DEF AskedInv
<1>3. CASE Reads \/ GivesUp
  <2>1. /\ UNCHANGED <<request, sent>> /\ cpc' # "recv" /\ cpc = "recv"
        /\ shown' = shown \/ shown'.asked = request
    BY <1>3, ReadEffect, GivesUpEffect, ReportEffect DEF GivesUp
  <2> QED
    BY <1>1, <2>1 DEF AskedInv
<1>4. CASE LeavesAnswers
  BY <1>4 DEF LeavesAnswers, AskedInv
<1>5. ASSUME NEW h \in Handlers, Server(h)
      PROVE  AskedInv'
  BY <1>5 DEF Server, STake, SParameters, SStart, SLog, SReply, client, AskedInv
<1> QED
  BY <1>2, <1>3, <1>4, <1>5, RemoteKinds

\* And those of the answers.
LEMMA DownStep ==
  ASSUME RemoteTypes, RemoteTypes', OrderInv, OrderInv', DownInv,
         [RNext]_allVars
  PROVE  DownInv'
<1>1. sent \in Nat /\ recv_buf.id \in Nat /\ Len(down) \in Nat
  BY Numbers
<1>2. CASE Asks
  BY <1>1, <1>2, AskEffect DEF DownInv
<1>3. CASE Reads
  <2>1. /\ down \in Seq(Answers) /\ down # <<>> /\ down' = Tail(down)
        /\ recv_buf'.id = down[1].id /\ sent' = sent
    BY <1>3, ReadEffect DEF RemoteTypes
  <2>2. 1 \in DOMAIN down /\ Len(down') = Len(down) - 1
    BY <2>1
  <2>3. down[1].id = recv_buf.id + 1
    BY <2>2 DEF OrderInv
  <2> QED
    BY <1>1, <2>1, <2>2, <2>3 DEF DownInv
<1>4. CASE GivesUp \/ LeavesAnswers
  BY <1>4 DEF GivesUp, LeavesAnswers, DownInv
<1>5. ASSUME NEW h \in Handlers, Server(h)
      PROVE  DownInv'
  <2>1. conn' = "up"
    BY <1>5 DEF Server, STake, SParameters, SStart, SLog, SReply, client
  <2>2. /\ sent' \in Nat /\ recv_buf'.id \in Nat /\ Len(up') \in Nat
        /\ Len(down') \in Nat
    BY DEF RemoteTypes, RequestInv, Told
  <2>3. InHand' \in {0, 1}
    BY DEF InHand
  <2> QED
    BY <2>1, <2>2, <2>3 DEF OrderInv, DownInv
<1> QED
  BY <1>2, <1>3, <1>4, <1>5, RemoteKinds

\* As long as nothing was given up, at most one request is under way: at the
\* menu none, and otherwise the one that is waited for.
LEMMA OneUnderWay ==
  ASSUME RemoteTypes, OrderInv, LagInv, AskedInv, DownInv, Undisturbed
  PROVE  /\ cpc \in {"menu", "beat"} => Len(down) = 0
         /\ cpc = "recv" => Len(down) <= 1
         /\ conn = "up" =>
              Len(down) + InHand + Len(up) = IF cpc = "recv" THEN 1 ELSE 0
         /\ cpc = "recv" /\ request.cmd # "HEARTBEAT" => ~ShownIsLast
<1>1. /\ sent \in Nat /\ recv_buf.id \in Nat /\ Len(down) \in Nat
      /\ Len(up) \in Nat /\ frame.id \in Nat
  BY Numbers
<1>2. InHand \in {0, 1}
  BY DEF InHand
<1>3. cpc # "gone" \/ conn = "up" =>
        recv_buf.id = IF cpc = "recv" THEN sent - 1 ELSE sent
  BY <1>1 DEF LagInv, Reported, Undisturbed
<1>4. cpc \in {"menu", "beat"} => Len(down) = 0
  BY <1>1, <1>3 DEF DownInv
<1>5. cpc = "recv" => Len(down) <= 1
  BY <1>1, <1>3 DEF DownInv
<1>6. conn = "up" =>
        Len(down) + InHand + Len(up) = IF cpc = "recv" THEN 1 ELSE 0
  BY <1>1, <1>2, <1>3 DEF OrderInv
<1>7. cpc = "recv" /\ request.cmd # "HEARTBEAT" => ~ShownIsLast
  BY <1>1 DEF AskedInv, ShownIsLast
<1> QED
  BY <1>4, <1>5, <1>6, <1>7

\* The steps of the client and the connection keep it.
LEMMA ClientKeepsForce ==
  ASSUME RemoteTypes, OrderInv, LagInv, AskedInv, DownInv, ForceInv,
         Asks \/ Reads \/ GivesUp \/ LeavesAnswers
  PROVE  ForceInv'
<1> SUFFICES ASSUME Undisturbed'
             PROVE  ToldTrue' /\ AllShown' /\ AnswerTrue' /\ HandTrue'
  BY DEF ForceInv
<1>1. ~GivesUp
  BY GivesUpEffect, Numbers DEF GivesUp, Undisturbed
<1>2. Undisturbed
  BY <1>1, AskEffect, ReadEffect DEF Undisturbed, LeavesAnswers
<1>3. ToldTrue /\ AllShown /\ AnswerTrue /\ HandTrue
  BY <1>2 DEF ForceInv
<1>4. /\ UNCHANGED <<frame, ch_cnt, pt_cnt, acquisition_action, hpc, hret>>
      /\ Busy' <=> Busy
  BY OthersKeepHand DEF handlers
<1>5. /\ down \in Seq(Answers) /\ up \in Seq(Requests)
      /\ Len(down) \in Nat /\ Len(up) \in Nat /\ InHand \in {0, 1}
  BY Numbers DEF RemoteTypes, RequestInv, InHand
<1>6. CASE Asks
  <2>1. /\ cpc \in {"menu", "beat"} /\ cpc' \in {"recv", "gone"}
        /\ request'.id = sent + 1 /\ UNCHANGED <<down, shown>>
        /\ up' = (IF conn = "up" THEN Append(up, request') ELSE up)
        /\ conn' = "up" => conn = "up"
    BY <1>6, AskEffect
  <2>2. ToldTrue'
    <3>1. ShownIsLast /\ shown.asked.id \in Nat /\ sent \in Nat
      BY <1>3, <2>1, Numbers DEF AllShown, RemoteTypes, AskedFor, Requests
    <3>2. InForce(shown.asked, shown.told.result)'
      BY <1>3, <1>4, <2>1, <3>1 DEF ToldTrue, InForce
    <3> QED
      BY <3>2 DEF ToldTrue
  <2>3. DOMAIN down' = {}
    <3>1. Len(down) = 0
      BY <1>2, <2>1, OneUnderWay
    <3> QED
      BY <1>5, <2>1, <3>1
  <2>4. HandTrue'
    <3> SUFFICES ASSUME conn' = "up"
                 PROVE  /\ \A a \in DOMAIN up' : up'[a] = request'
                        /\ ~Busy'
      BY <1>4 DEF HandTrue, Busy
    <3>1. Len(down) + InHand + Len(up) = 0
      BY <1>2, <2>1, OneUnderWay
    <3>2. Len(up) = 0 /\ ~Busy
      BY <1>5, <3>1 DEF InHand
    <3>3. up = <<>>
      BY <1>5, <3>2
    <3> QED
      BY <1>4, <2>1, <3>2, <3>3
  <2> QED
    BY <2>1, <2>2, <2>3, <2>4 DEF AllShown, AnswerTrue
<1>7. CASE Reads
  <2>1. /\ cpc = "recv" /\ cpc' # "recv" /\ down # <<>> /\ down' = Tail(down)
        /\ UNCHANGED <<request, up, conn>> /\ recv_buf'.result = down[1].result
        /\ shown' = IF request.cmd = "HEARTBEAT" THEN shown
                    ELSE [asked |-> request, told |-> recv_buf']
    BY <1>7, ReadEffect, ReportEffect
  <2>2. 1 \in DOMAIN down /\ Len(down) >= 1
    BY <1>5, <2>1
  <2>3. ToldTrue'
    <3>1. CASE request.cmd = "HEARTBEAT"
      BY <1>3, <1>4, <2>1, <3>1 DEF ToldTrue, ShownIsLast, InForce
    <3>2. CASE request.cmd # "HEARTBEAT"
      <4>1. InForce(request, down[1].result)
        BY <1>3, <2>1, <2>2 DEF AnswerTrue
      <4>2. shown'.asked = request /\ shown'.told.result = down[1].result
        BY <2>1, <3>2
      <4> QED
        BY <1>4, <4>1, <4>2 DEF ToldTrue, InForce
    <3> QED
      BY <3>1, <3>2
  <2>4. AllShown' /\ AnswerTrue'
    BY <2>1 DEF AllShown, AnswerTrue, ShownIsLast
  <2>5. HandTrue'
    <3> SUFFICES ASSUME conn = "up"
                 PROVE  (\A a \in DOMAIN up : up[a] = request) /\ ~Busy
      BY <1>4, <2>1 DEF HandTrue, Busy
    <3>1. Len(down) + InHand + Len(up) = 1
      BY <1>2, <2>1, OneUnderWay
    <3>2. Len(up) = 0 /\ ~Busy
      BY <1>5, <2>2, <3>1 DEF InHand
    <3> QED
      BY <1>5, <3>2
  <2> QED
    BY <2>3, <2>4, <2>5
<1>8. CASE LeavesAnswers
  <2>1. /\ UNCHANGED <<request, down, shown>>
        /\ cpc' = cpc \/ (cpc = "menu" /\ cpc' \in {"beat", "gone"})
        /\ conn' = "up" => UNCHANGED <<conn, up>>
    BY <1>8 DEF LeavesAnswers
  <2>2. ToldTrue'
    BY <1>3, <1>4, <2>1 DEF ToldTrue, ShownIsLast, InForce
  <2>3. AllShown'
    BY <1>3, <2>1 DEF AllShown, ShownIsLast
  <2>4. AnswerTrue'
    BY <1>3, <1>4, <2>1 DEF AnswerTrue, InForce
  <2>5. HandTrue'
    BY <1>3, <1>4, <2>1 DEF HandTrue, InForce
  <2> QED
    BY <2>2, <2>3, <2>4, <2>5
<1> QED
  BY <1>1, <1>6, <1>7, <1>8

\* The handler finds what it was asked, and leaves what it answers.
LEMMA ServerKeepsForce ==
  ASSUME SingleHandler, RemoteTypes, OrderInv, LagInv, AskedInv, DownInv,
         StartInv, AcceptedInv, ParameterInv', ForceInv,
         NEW h \in Handlers, Server(h)
  PROVE  ForceInv'
<1> SUFFICES ASSUME Undisturbed'
             PROVE  ToldTrue' /\ AllShown' /\ AnswerTrue' /\ HandTrue'
  BY DEF ForceInv
<1>1. /\ conn = "up"
      /\ UNCHANGED <<conn, recv_buf, sent, stops, breaks, cpc, request, shown>>
      /\ \/ /\ ~Busy /\ Busy' /\ up # <<>> /\ down' = down
            /\ frame' = up[1] /\ up' = Tail(up)
         \/ /\ Busy /\ Busy' /\ UNCHANGED <<up, down, frame>>
         \/ /\ Busy /\ ~Busy' /\ UNCHANGED <<up, frame>>
            /\ \E a \in Answers : a.id = frame.id /\ a.result = hret[h]
                                    /\ down' = Append(down, a)
  BY ServerEffect
<1>2. Undisturbed
  BY <1>1 DEF Undisturbed
<1>3. ToldTrue /\ AllShown /\ AnswerTrue /\ HandTrue
  BY <1>2 DEF ForceInv
<1>4. /\ down \in Seq(Answers) /\ up \in Seq(Requests)
      /\ Len(down) \in Nat /\ Len(up) \in Nat /\ InHand \in {0, 1}
      /\ hpc \in [Handlers -> {"idle", "check", "build", "store_ch", "store_pt",
                               "start", "reply"}]
      /\ hret \in [Handlers -> {0, 1}]
  BY Numbers DEF RemoteTypes, RequestInv, InHand, TypeOK
<1>5. \A g \in Handlers : g = h
  BY DEF SingleHandler
<1>6. Busy \/ Len(up) >= 1
  BY <1>1, <1>4
<1>7. cpc = "recv" /\ Len(down) = 0 /\ (Busy => Len(up) = 0)
      /\ (~Busy => Len(up) = 1)
  <2>1. /\ cpc = "recv" => Len(down) + InHand + Len(up) = 1
        /\ cpc # "recv" => Len(down) + InHand + Len(up) = 0
    BY <1>1, <1>2, OneUnderWay
  <2>2. (Busy => InHand = 1) /\ (~Busy => InHand = 0)
    BY DEF InHand
  <2>3. InHand + Len(up) >= 1
    BY <1>4, <1>6, <2>2
  <2>4. cpc = "recv" /\ Len(down) = 0 /\ InHand + Len(up) = 1
    BY <1>4, <2>1, <2>3
  <2>5. (InHand = 1 => Len(up) = 0) /\ (InHand = 0 => Len(up) = 1)
    BY <1>4, <2>4
  <2> QED
    BY <2>2, <2>4, <2>5
<1>8. request.cmd # "HEARTBEAT" => ~ShownIsLast'
  BY <1>1, <1>2, <1>7, OneUnderWay DEF ShownIsLast
<1>9. AllShown'
  BY <1>1, <1>3 DEF AllShown, ShownIsLast
<1>10. down = <<>>
  BY <1>4, <1>7
<1>11. (Busy' => frame' = request) /\ DOMAIN up' = {}
  <2>1. CASE Busy
    BY <1>1, <1>3, <1>4, <1>7, <2>1 DEF HandTrue
  <2>2. CASE ~Busy
    <3>1. up' = Tail(up) /\ frame' = up[1] /\ 1 \in DOMAIN up /\ Len(up) = 1
      BY <1>1, <1>4, <1>7, <2>2
    <3>2. DOMAIN Tail(up) = {}
      BY <1>4, <3>1
    <3> QED
      BY <1>1, <1>3, <3>1, <3>2 DEF HandTrue
  <2> QED
    BY <2>1, <2>2
<1>12. ASSUME hpc'[h] = "start" => (hret'[h] = 0 => ch_cnt' = frame'.ch
                                         /\ ch_cnt' * pt_cnt' <= Room),
              hpc'[h] = "reply" => InForce(frame, hret[h])'
       PROVE  HandTrue'
  <2>1. ASSUME NEW g \in Handlers
        PROVE  /\ hpc'[g] = "start" => (hret'[g] = 0 => ch_cnt' = frame'.ch
                                             /\ ch_cnt' * pt_cnt' <= Room)
               /\ hpc'[g] = "reply" => InForce(frame, hret[g])'
    <3>1. g = h
      BY <1>5
    <3> QED
      BY <1>12, <3>1 DEF InForce
  <2> QED
    BY <1>1, <1>11, <2>1 DEF HandTrue
<1>13. request.cmd # "HEARTBEAT"
         \/ UNCHANGED <<ch_cnt, pt_cnt, acquisition_action>> => ToldTrue'
  BY <1>1, <1>3, <1>8 DEF ToldTrue, ShownIsLast, InForce
<1>14. down' = down => AnswerTrue'
  BY <1>10 DEF AnswerTrue
<1> USE DEF HMove, driver
<1>15. CASE STake(h)
  <2>1. hpc[h] = "idle" /\ hpc'[h] # "idle" /\ frame' = Head(up) /\ down' = down
    BY <1>4, <1>15 DEF STake, HOpen, HOpenFails, HStop, HHeartbeat
  <2>2. frame' = request
    BY <1>11, <2>1 DEF Busy
  <2>3. CASE HOpen(h, Head(up).ch) \/ HOpenFails(h)
    <3>1. /\ UNCHANGED <<ch_cnt, pt_cnt, acquisition_action>>
          /\ hpc'[h] # "start" /\ (hpc'[h] = "reply" => hret'[h] = 1)
      BY <1>4, <2>3 DEF HOpen, HOpenFails
    <3>2. hpc'[h] = "reply" => InForce(frame, hret[h])'
      BY <3>1 DEF InForce
    <3> QED
      BY <1>9, <1>12, <1>13, <1>14, <2>1, <3>1, <3>2
  <2>4. CASE Head(up).cmd = "STOP_DAQ" /\ HStop(h)
    <3>1. hpc'[h] = "reply" /\ acquisition_action' = "STOP_DAQ"
      BY <1>4, <2>4 DEF HStop
    <3>2. InForce(frame, hret[h])'
      BY <2>1, <2>4, <3>1 DEF InForce
    <3> QED
      BY <1>9, <1>12, <1>13, <1>14, <2>1, <2>2, <2>4, <3>1, <3>2
  <2>5. CASE Head(up).cmd \notin {"START_DAQ", "STOP_DAQ"} /\ HHeartbeat(h)
    <3>1. /\ UNCHANGED <<ch_cnt, pt_cnt, acquisition_action>>
          /\ hpc'[h] = "reply"
      BY <1>4, <2>5 DEF HHeartbeat
    <3>2. InForce(frame, hret[h])'
      BY <2>1, <2>5 DEF InForce
    <3> QED
      BY <1>9, <1>12, <1>13, <1>14, <2>1, <3>1, <3>2
  <2> QED
    BY <1>15, <2>3, <2>4, <2>5 DEF STake
<1>16. CASE SParameters(h)
  <2>1. /\ down' = down /\ frame' = frame /\ hpc[h] \in Starting
        /\ hpc'[h] # "reply" /\ hpc'[h] # "idle"
    BY <1>4, <1>16 DEF SParameters, HReject, HPoints, HBuild, HStoreCh,
       HStorePt, Starting, client, server
  <2>2. frame = request /\ frame.cmd = "START_DAQ" /\ hch[h] = frame.ch
    BY <1>11, <2>1 DEF StartInv, Busy
  <2>3. hpc'[h] = "start" /\ hret'[h] = 0 => ch_cnt' = frame'.ch
                                      /\ ch_cnt' * pt_cnt' <= Room
    <3> SUFFICES ASSUME hpc'[h] = "start", hret'[h] = 0
                 PROVE  ch_cnt' = frame.ch /\ ch_cnt' * pt_cnt' <= Room
      BY <2>1
    <3>1. HStorePt(h)
      <4>1. ~HReject(h)
        BY <1>4 DEF HReject
      <4>2. ~HPoints(h)
        <5>1. HPoints(h) => hpc'[h] = "build"
          BY <1>4 DEF HPoints, HMove
        <5> QED
          BY <5>1
      <4>3. ~HBuild(h) /\ ~HStoreCh(h)
        BY <1>4 DEF HBuild, HStoreCh
      <4> QED
        BY <1>16, <4>1, <4>2, <4>3 DEF SParameters
    <3>2. ch_cnt' = ch_cnt /\ ch_cnt = hch[h]
      BY <3>1 DEF HStorePt, AcceptedInv
    <3>3. \A g \in Handlers : hpc'[g] # "store_pt"
      BY <1>5
    <3>4. ch_cnt' * pt_cnt' <= Room
      BY <3>3 DEF ParameterInv
    <3> QED
      BY <2>2, <3>2, <3>4
  <2> QED
    BY <1>9, <1>12, <1>13, <1>14, <2>1, <2>2, <2>3
<1>17. CASE SStart(h)
  <2>1. /\ hpc[h] = "start" /\ hpc'[h] = "reply" /\ down' = down
        /\ UNCHANGED <<frame, hret, ch_cnt, pt_cnt>>
        /\ acquisition_action' = "START_DAQ"
    BY <1>4, <1>17 DEF SStart, HStart, client
  <2>2. frame = request /\ frame.cmd = "START_DAQ"
    BY <1>11, <2>1 DEF StartInv, Starting, Busy
  <2>3. hret[h] = 0 => ch_cnt = frame.ch /\ ch_cnt * pt_cnt <= Room
    BY <1>1, <1>3, <2>1 DEF HandTrue
  <2>4. InForce(frame, hret[h])'
    BY <2>1, <2>2, <2>3 DEF InForce
  <2> QED
    BY <1>9, <1>12, <1>13, <1>14, <2>1, <2>2, <2>4
<1>18. CASE SLog(h)
  <2>1. UNCHANGED <<frame, hpc, hret, ch_cnt, pt_cnt, acquisition_action, down>>
    BY <1>18 DEF SLog, vars, handlers, client
  <2>2. hpc[h] = "reply"
    BY <1>18 DEF SLog
  <2>3. InForce(frame, hret[h])'
    BY <1>1, <1>3, <2>1, <2>2 DEF HandTrue, InForce
  <2> QED
    BY <1>9, <1>12, <1>13, <1>14, <2>1, <2>2, <2>3
<1>19. CASE SReply(h)
  <2>1. /\ hpc[h] = "reply" /\ hpc'[h] = "idle"
        /\ UNCHANGED <<ch_cnt, pt_cnt, acquisition_action>>
    BY <1>4, <1>19 DEF SReply, HReply
  <2>2. frame = request /\ InForce(frame, hret[h])
    BY <1>1, <1>3, <2>1 DEF HandTrue, Busy
  <2>3. PICK a \in Answers : a.result = hret[h] /\ down' = Append(down, a)
    BY <1>19, ReplyEffect
  <2>4. DOMAIN down' = {1} /\ down'[1].result = hret[h]
    BY <1>10, <2>3
  <2>5. AnswerTrue'
    BY <1>1, <2>1, <2>2, <2>4 DEF AnswerTrue, InForce
  <2> QED
    BY <1>9, <1>12, <1>13, <2>1, <2>5
<1> QED
  BY <1>15, <1>16, <1>17, <1>18, <1>19 DEF Server

\* The parameters of the card are right below all this.
LEMMA RemoteParametersInduct == SingleHandler => (RSpec => []ParameterInv)
<1> SUFFICES ASSUME SingleHandler PROVE RSpec => []ParameterInv
  OBVIOUS
<1>1. Spec => []ParameterInv
  BY ParametersInduct
<1> QED
  BY <1>1, RemoteRunsTheCommands, PTL

\* What the user is told holds on the card: after a reported START it acquires
\* with the channels that were typed in and packets that fit, after a reported
\* STOP it does not, whatever else the client, the server, the card and the log
\* do meanwhile and even if the server has ended since.
THEOREM SuccessIsTrue == SingleHandler => (RSpec => []SuccessIsInForce)
<1> SUFFICES ASSUME SingleHandler PROVE RSpec => []SuccessIsInForce
  OBVIOUS
<1>1. RInit => AskedInv /\ DownInv /\ ForceInv
  <2> SUFFICES ASSUME RInit PROVE AskedInv /\ DownInv /\ ForceInv
    OBVIOUS
  <2>1. /\ request.id = 0 /\ request.cmd = "none" /\ shown.asked = request
        /\ sent = 0 /\ recv_buf.id = 0 /\ up = <<>> /\ down = <<>>
        /\ cpc = "menu" /\ \A h \in Handlers : hpc[h] = "idle"
    BY DEF RInit, Init, Client!CInit, Client!Empty, Client!None
  <2> QED
    BY <2>1 DEF AskedInv, DownInv, ForceInv, ToldTrue, AllShown, AnswerTrue,
       HandTrue, InForce, ShownIsLast, Busy
<1>2. RemoteTypes /\ AskedInv /\ [RNext]_allVars => AskedInv'
  BY AskedStep
<1>3. RemoteTypes /\ RemoteTypes' /\ OrderInv /\ OrderInv' /\ DownInv
        /\ [RNext]_allVars => DownInv'
  BY DownStep
<1>4. RemoteTypes /\ OrderInv /\ LagInv /\ AskedInv /\ DownInv
        /\ (StartInv /\ AcceptedInv) /\ ParameterInv' /\ ForceInv
        /\ [RNext]_allVars => ForceInv'
  BY ClientKeepsForce, ServerKeepsForce, RemoteKinds
<1>5. ForceInv => SuccessIsInForce
  BY DEF ForceInv, ToldTrue, InForce, SuccessIsInForce
<1>6. RSpec => []OrderInv /\ []LagInv /\ [](StartInv /\ AcceptedInv)
                /\ []ParameterInv
  BY OrderHolds, LagHolds, AcceptedHolds, RemoteParametersInduct
<1> QED
  BY <1>1, <1>2, <1>3, <1>4, <1>5, <1>6, RemoteTypesHold, PTL DEF RSpec
=============================================================================
