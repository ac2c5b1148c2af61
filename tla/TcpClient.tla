----------------------------- MODULE TcpClient -----------------------------
(***************************************************************************)
(* The host's test client (tcp_client.c): a menu that sends one request at *)
(* a time over a TCP connection and waits for the answer in net_recv,      *)
(* which returns 0 also when it has received nothing. The caller then      *)
(* shows what the last answer has left in recv_buf. The server is the      *)
(* composing module's business: it takes from up and appends to down.      *)
(*                                                                         *)
(* A request of 12 to 28 bytes and an answer of 16 to 20 arrive whole.     *)
(***************************************************************************)
EXTENDS Naturals, Sequences

CONSTANTS
  Channels,    \* ch_cnt the user may type
  Heartbeats,  \* heartbeats of one choice of the menu (20 in the code)
  MaxChoices,  \* bound: choices made at the menu
  MaxStops     \* bound: how often the user suspends and resumes the client

VARIABLES
  cpc, request, beats,  \* where, the request under way, heartbeats to come
  recv_buf,             \* the last answer received
  pulse,                \* recv_buf holds the answer field of a heartbeat
  up, down,             \* the connection: requests, answers
  conn,                 \* the connection as the client's socket sees it
  sent, choices,        \* requests sent, choices made
  stops, breaks,        \* history: net_recv interrupted, or broken off
  shown                 \* history: the last START or STOP reported to the user

menu   == <<cpc, request, beats, recv_buf, pulse, sent, choices, stops, breaks,
            shown>>
wire   == <<up, down, conn>>
client == <<menu, wire>>

None == [id |-> 0, cmd |-> "none", ch |-> 0]
Empty == [id |-> 0, result |-> 0]

CInit ==
  /\ cpc = "menu" /\ request = None /\ beats = 0
  /\ recv_buf \in {Empty, [Empty EXCEPT !.result = 1]}
  /\ pulse = FALSE
  /\ up = <<>> /\ down = <<>> /\ conn = "up"
  /\ sent = 0 /\ choices = 0 /\ stops = 0 /\ breaks = 0
  /\ shown = [asked |-> None, told |-> Empty]

-----------------------------------------------------------------------------
(* Sending.                                                                *)

Ask(cmd, ch) ==
  /\ sent' = sent + 1
  /\ request' = [id |-> sent + 1, cmd |-> cmd, ch |-> ch]
  /\ cpc' = IF conn = "rst_fin" THEN "gone" ELSE "recv"

\* Mistake: tcp_write returns from a failed send() and leaves the socket open.
WriteKeepsSocket ==
  /\ up' = IF conn = "up" THEN Append(up, request') ELSE up
  /\ conn' = IF conn = "fin" THEN "fin_sent" ELSE conn
  /\ UNCHANGED down

\* tcp_write. Data sent after the server's FIN is answered with a reset. Once a
\* reset is in, send() fails and handle_close closes the socket; if the FIN had
\* come first, the signal SIGPIPE ends the client (Ask).
Write ==
  /\ up' = IF conn = "up" THEN Append(up, request') ELSE up
  /\ conn' = CASE conn = "fin" -> "fin_sent"
               [] conn = "rst" -> "closed"
               [] OTHER        -> conn
  /\ UNCHANGED down

Choose ==
  /\ cpc = "menu" /\ choices < MaxChoices
  /\ choices' = choices + 1

\* Choices 1, 2 and 3.
CStart(ch) ==
  /\ Choose /\ Ask("START_DAQ", ch) /\ Write
  /\ UNCHANGED <<beats, recv_buf, pulse, stops, breaks, shown>>

CStop ==
  /\ Choose /\ Ask("STOP_DAQ", 0) /\ Write
  /\ UNCHANGED <<beats, recv_buf, pulse, stops, breaks, shown>>

CHeartbeats ==
  /\ Choose
  /\ cpc' = "beat" /\ beats' = Heartbeats
  /\ UNCHANGED <<request, recv_buf, pulse, wire, sent, stops, breaks, shown>>

\* The loop of case 3.
CBeat ==
  /\ cpc = "beat"
  /\ beats' = beats - 1
  /\ Ask("HEARTBEAT", 0) /\ Write
  /\ UNCHANGED <<recv_buf, pulse, choices, stops, breaks, shown>>

\* Choice 0.
CLeave ==
  /\ cpc = "menu" /\ cpc' = "gone"
  /\ UNCHANGED <<request, beats, recv_buf, pulse, sent, choices, stops, breaks,
                 shown, wire>>

-----------------------------------------------------------------------------
(* Receiving: net_recv and what the menu makes of recv_buf.                *)

\* Case 2 has no break: a STOP goes on with the heartbeats of case 3. A
\* heartbeat without an answer is reported through a pointer that was never
\* set, which may end the client.
Report ==
  IF request.cmd = "HEARTBEAT"
  THEN /\ UNCHANGED <<beats, shown>>
       /\ \/ cpc' = IF beats > 0 THEN "beat" ELSE "menu"
          \/ ~pulse' /\ cpc' = "gone"
  ELSE /\ shown' = [asked |-> request, told |-> recv_buf']
       /\ IF request.cmd = "STOP_DAQ" THEN cpc' = "beat" /\ beats' = Heartbeats
                                 ELSE cpc' = "menu" /\ UNCHANGED beats

\* Mistake: the answer is looked at and left in the socket.
RReadPeeks ==
  /\ cpc = "recv" /\ conn \in {"up", "fin", "fin_sent"} /\ down # <<>>
  /\ recv_buf' = [id |-> Head(down).id, result |-> Head(down).result]
  /\ pulse' = (pulse \/ Head(down).cmd = "HEARTBEAT")
  /\ Report
  /\ UNCHANGED <<request, wire, sent, choices, stops, breaks>>

\* An answer is there and is read. A short answer leaves the heartbeat's field
\* of recv_buf alone.
RRead ==
  /\ cpc = "recv" /\ conn \in {"up", "fin", "fin_sent"} /\ down # <<>>
  /\ recv_buf' = [id |-> Head(down).id, result |-> Head(down).result]
  /\ pulse' = (pulse \/ Head(down).cmd = "HEARTBEAT")
  /\ down' = Tail(down)
  /\ Report
  /\ UNCHANGED <<request, up, conn, sent, choices, stops, breaks>>

\* tcp_read finds the end of the stream and closes the socket; net_recv waits
\* on, for nothing.
RClosed ==
  /\ cpc = "recv" /\ conn \in {"fin", "fin_sent"} /\ down = <<>>
  /\ conn' = "closed"
  /\ UNCHANGED <<menu, up, down>>

\* EPOLLHUP or EPOLLERR: net_recv returns 0 and leaves recv_buf as it was.
RBroken ==
  /\ cpc = "recv" /\ conn \in {"rst", "rst_fin"}
  /\ breaks' = breaks + 1
  /\ UNCHANGED <<request, recv_buf, pulse, wire, sent, choices, stops>>
  /\ Report

\* The client was suspended and resumed: epoll_wait fails with EINTR and
\* net_recv returns 0 as well.
RInterrupted ==
  /\ cpc = "recv" /\ stops < MaxStops
  /\ stops' = stops + 1
  /\ UNCHANGED <<request, recv_buf, pulse, wire, sent, choices, breaks>>
  /\ Report

Receive == RRead \/ RClosed \/ RBroken

User ==
  \/ \E ch \in Channels : CStart(ch)
  \/ CStop \/ CHeartbeats \/ CLeave \/ RInterrupted

-----------------------------------------------------------------------------
(* The network and the end of the server, as the socket sees them.         *)

\* The server ends: with requests unread its kernel resets the connection.
NServerEnds ==
  /\ conn = "up"
  /\ conn' = IF up = <<>> THEN "fin" ELSE "rst"
  /\ up' = <<>>
  /\ UNCHANGED <<menu, down>>

\* The reset that answers data sent after the FIN.
NReset ==
  /\ conn = "fin_sent" /\ conn' = "rst_fin"
  /\ UNCHANGED <<menu, up, down>>

CNext == User \/ CBeat \/ Receive \/ NServerEnds \/ NReset
=============================================================================
