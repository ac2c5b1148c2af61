----------------------------- MODULE LogService -----------------------------
(***************************************************************************)
(* The log: write_log (logfns.c) sends one datagram from a socket of its   *)
(* own, which it closes, to the log process (log.c), which appends a line  *)
(* to /var/daq/log.txt and sends an answer that nobody is there to get.    *)
(***************************************************************************)
EXTENDS Naturals, Sequences

VARIABLES
  logger,   \* the log process is running
  port,     \* datagrams waiting at LOG_PORT
  log_txt   \* lines of the file

log == <<logger, port, log_txt>>

LInit == logger = TRUE /\ port = <<>> /\ log_txt = <<>>

\* write_log: the datagram is lost without the process behind the port, and
\* may be lost with it (no socket, no buffer).
WriteLog(line) ==
  /\ \/ logger /\ port' = Append(port, line)
     \/ UNCHANGED port
  /\ UNCHANGED <<logger, log_txt>>

\* Mistake: the datagram is looked at and left where it is.
LHandlePeeks ==
  /\ logger /\ port # <<>>
  /\ log_txt' = Append(log_txt, Head(port))
  /\ UNCHANGED <<logger, port>>

\* One turn of main: a line is appended, unless the file cannot be opened.
LHandle ==
  /\ logger /\ port # <<>>
  /\ port' = Tail(port)
  /\ log_txt' \in {Append(log_txt, Head(port)), log_txt}
  /\ UNCHANGED logger

\* The process ends; what waits at the port goes with the socket.
LStop ==
  /\ logger /\ logger' = FALSE
  /\ port' = <<>>
  /\ UNCHANGED log_txt

\* load.sh starts it again; the file is opened for appending.
LStart ==
  /\ ~logger /\ logger' = TRUE
  /\ UNCHANGED <<port, log_txt>>

LNext == LHandle \/ LStop \/ LStart
=============================================================================
