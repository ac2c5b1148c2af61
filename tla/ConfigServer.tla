---------------------------- MODULE ConfigServer ----------------------------
(***************************************************************************)
(* The TCP side of configuration_management.c.  main accepts connections   *)
(* and hands each of them, through the global fdmap, to the thread         *)
(* tcp_handle, which reads requests, has them handled, and answers.  main  *)
(* writes fdmap.socket_fd whenever somebody connects and reads fdmap.epfd; *)
(* tcp_handle writes fdmap.epfd once and reads fdmap.socket_fd three times *)
(* per request; nothing orders these accesses but the start-up barrier.    *)
(*                                                                         *)
(* The kernel's side (descriptors, epoll, the state of a connection) is    *)
(* modelled as far as these two threads use it.                            *)
(***************************************************************************)
EXTENDS Integers, Sequences, FiniteSets

CONSTANTS
  Conns,      \* connections clients may open, each of them once
  Fds,        \* descriptors the process may use for them, not 0
  Frames,     \* what a client may send: "good" or "bad" (impossible length)
  MaxFrames,  \* bound on the frames sent on one connection
  Nobody      \* no connection

ASSUME FdAssumption == Fds \subseteq Nat \ {0} /\ IsFiniteSet(Fds)
ASSUME ConnAssumption == Nobody \notin Conns
ASSUME BoundAssumption == MaxFrames \in Nat

VARIABLES
  mpc, newfd,        \* main: where it is, the descriptor just accepted
  tpc, tmp_fd,       \* tcp_handle: where it is, the descriptor epoll reported
  rfd, asker,        \* tcp_handle: socket_fd as read, whose frame is in recv_buf
  socket_fd,         \* fdmap.socket_fd, 0 before the first connection
  epfd_known,        \* fdmap.epfd has been set
  conn,              \* the connection behind each descriptor
  watched,           \* the descriptors in tcp_handle's epoll set
  cst,               \* state of each connection, seen from the server
  sent, inbox,       \* frames sent by the client; frames not yet read
  answers            \* history: for each asker, who received its answers

main    == <<mpc, newfd>>
thread  == <<tpc, tmp_fd, rfd, asker>>
fdmap   == <<socket_fd, epfd_known>>
kernel  == <<conn, watched>>
clients == <<cst, sent, inbox>>
vars    == <<main, thread, fdmap, kernel, clients, answers>>

\* A connection: never opened, waiting to be accepted, open, closed by the
\* client (fin), the same with its reset on the way (late) or arrived (broken),
\* reset by the client, closed by the server.
States == {"unused", "pending", "open", "fin", "late", "broken", "reset",
           "closed"}

Free == {fd \in Fds : conn[fd] = Nobody}

\* The kernel hands out the lowest free descriptor.
Lowest(fds) == CHOOSE fd \in fds : \A other \in fds : fd <= other

IsOpen(fd) == fd \in Fds /\ conn[fd] # Nobody

Hup(fd) == cst[conn[fd]] \in {"broken", "reset"}

Readable(fd) == inbox[conn[fd]] # <<>> \/ cst[conn[fd]] \in {"fin", "late"}

-----------------------------------------------------------------------------
Init ==
  /\ mpc = "create" /\ newfd = 0
  /\ tpc = "none" /\ tmp_fd = 0 /\ rfd = 0 /\ asker = Nobody
  /\ socket_fd = 0 /\ epfd_known = FALSE
  /\ conn = [fd \in Fds |-> Nobody] /\ watched = {}
  /\ cst = [c \in Conns |-> "unused"]
  /\ sent = [c \in Conns |-> 0] /\ inbox = [c \in Conns |-> <<>>]
  /\ answers = [c \in Conns |-> <<>>]

\* close(): the descriptor is free again and leaves every epoll set. What it
\* stood for, if anything, is closed.
Close(fd) ==
  /\ conn' = [f \in Fds |-> IF f = fd THEN Nobody ELSE conn[f]]
  /\ watched' = watched \ {fd}
  /\ cst' = [c \in Conns |->
               IF IsOpen(fd) /\ c = conn[fd] THEN "closed" ELSE cst[c]]

-----------------------------------------------------------------------------
(* main. *)

MMove(from, to) == mpc = from /\ mpc' = to

\* The sockets are there; start tcp_handle, then meet it at the barrier.
MCreate ==
  /\ MMove("create", "barrier")
  /\ tpc' = "start"
  /\ UNCHANGED <<newfd, tmp_fd, rfd, asker, fdmap, kernel, clients, answers>>

\* pthread_barrier_wait with two threads: both leave together.
Barrier ==
  /\ MMove("barrier", "loop")
  /\ tpc = "barrier" /\ tpc' = "publish"
  /\ UNCHANGED <<newfd, tmp_fd, rfd, asker, fdmap, kernel, clients, answers>>

\* Mistake: accept may fail, and its result is not looked at.
MAcceptUnchecked(c) ==
  /\ cst[c] = "pending"
  /\ MMove("loop", "store")
  /\ newfd' \in {-1} \union (IF Free = {} THEN {} ELSE {Lowest(Free)})
  /\ conn' = [f \in Fds |-> IF f = newfd' THEN c ELSE conn[f]]
  /\ cst' = IF newfd' = -1 THEN cst ELSE [cst EXCEPT ![c] = "open"]
  /\ UNCHANGED <<thread, fdmap, watched, sent, inbox, answers>>

\* accept_new_connect. With no descriptor left accept fails and main goes
\* round again.
MAccept(c) ==
  /\ cst[c] = "pending" /\ Free # {}
  /\ MMove("loop", "store")
  /\ newfd' = Lowest(Free)
  /\ conn' = [conn EXCEPT ![newfd'] = c]
  /\ cst' = [cst EXCEPT ![c] = "open"]
  /\ UNCHANGED <<thread, fdmap, watched, sent, inbox, answers>>

\* fdmap.socket_fd = newfd.
MStore ==
  /\ MMove("store", "add")
  /\ socket_fd' = newfd
  /\ UNCHANGED <<newfd, thread, epfd_known, kernel, clients, answers>>

\* add_fd_epollset(fdmap.epfd, newfd): with epfd still 0 it fails, and with
\* newfd closed meanwhile as well; nobody looks at the result.
MAdd ==
  /\ MMove("add", "loop")
  /\ watched' = IF epfd_known /\ IsOpen(newfd) THEN watched \union {newfd}
                                               ELSE watched
  /\ UNCHANGED <<newfd, thread, fdmap, conn, clients, answers>>

\* epoll_wait fails: main returns and the process ends.
MOut ==
  /\ MMove("loop", "returned") /\ tpc' = "dead"
  /\ UNCHANGED <<newfd, tmp_fd, rfd, asker, fdmap, kernel, clients, answers>>

Main ==
  MCreate \/ Barrier \/ (\E c \in Conns : MAccept(c)) \/ MStore \/ MAdd

-----------------------------------------------------------------------------
(* The thread tcp_handle. *)

TMove(from, to) == tpc = from /\ tpc' = to

\* epoll_create or the binding to a CPU may fail, before the barrier.
TStart ==
  /\ TMove("start", "barrier") \/ TMove("start", "exited")
  /\ UNCHANGED <<main, tmp_fd, rfd, asker, fdmap, kernel, clients, answers>>

TPublish ==
  /\ TMove("publish", "wait")
  /\ epfd_known' = TRUE
  /\ UNCHANGED <<main, tmp_fd, rfd, asker, socket_fd, kernel, clients, answers>>

\* Mistake: handle_close is given fdmap.socket_fd.
THupClosesCurrent(fd) ==
  /\ tpc = "wait" /\ fd \in watched /\ Hup(fd)
  /\ tmp_fd' = fd
  /\ Close(socket_fd)
  /\ UNCHANGED <<main, tpc, rfd, asker, fdmap, sent, inbox, answers>>

\* EPOLLHUP or EPOLLERR: handle_close(tmp_fd).
THup(fd) ==
  /\ tpc = "wait" /\ fd \in watched /\ Hup(fd)
  /\ tmp_fd' = fd
  /\ Close(fd)
  /\ UNCHANGED <<main, tpc, rfd, asker, fdmap, sent, inbox, answers>>

TEvent(fd) ==
  /\ TMove("wait", "compare")
  /\ fd \in watched /\ ~Hup(fd) /\ Readable(fd)
  /\ tmp_fd' = fd
  /\ UNCHANGED <<main, rfd, asker, fdmap, kernel, clients, answers>>

\* Mistake: the comparison is with the descriptor used last time.
TCompareLast ==
  /\ TMove("compare", IF rfd = tmp_fd THEN "read" ELSE "wait")
  /\ UNCHANGED <<main, tmp_fd, rfd, asker, fdmap, kernel, clients, answers>>

\* fdmap.socket_fd == tmp_fd, the first read. Any other descriptor is left as
\* it is, and will be reported again.
TCompare ==
  /\ TMove("compare", IF socket_fd = tmp_fd THEN "read" ELSE "wait")
  /\ UNCHANGED <<main, tmp_fd, rfd, asker, fdmap, kernel, clients, answers>>

\* tcp_read(fdmap.socket_fd, ...), the second read.
TRead ==
  /\ TMove("read", "recv")
  /\ rfd' = socket_fd
  /\ UNCHANGED <<main, tmp_fd, asker, fdmap, kernel, clients, answers>>

\* Mistake: the frame is looked at (MSG_PEEK) but not taken.
TRecvPeeks ==
  /\ IsOpen(rfd) /\ inbox[conn[rfd]] # <<>> /\ Head(inbox[conn[rfd]]) = "good"
  /\ TMove("recv", "handle")
  /\ asker' = conn[rfd]
  /\ UNCHANGED <<main, tmp_fd, rfd, fdmap, kernel, clients, answers>>

\* tcp_read gets a whole frame: it is the next one in recv_buf.
TRecvFrame ==
  /\ IsOpen(rfd) /\ inbox[conn[rfd]] # <<>> /\ Head(inbox[conn[rfd]]) = "good"
  /\ TMove("recv", "handle")
  /\ asker' = conn[rfd]
  /\ inbox' = [inbox EXCEPT ![conn[rfd]] = Tail(@)]
  /\ UNCHANGED <<main, tmp_fd, rfd, fdmap, kernel, cst, sent, answers>>

\* frame_len out of range: -1, with the bytes still in the socket.
TRecvBad ==
  /\ IsOpen(rfd) /\ inbox[conn[rfd]] # <<>> /\ Head(inbox[conn[rfd]]) = "bad"
  /\ TMove("recv", "wait")
  /\ UNCHANGED <<main, tmp_fd, rfd, asker, fdmap, kernel, clients, answers>>

\* recv returns 0 or an error: handle_close. On an open connection with
\* nothing to read it blocks.
TRecvClosed ==
  /\ TMove("recv", "wait")
  /\ ~IsOpen(rfd) \/ (inbox[conn[rfd]] = <<>> /\ cst[conn[rfd]] # "open")
  /\ Close(rfd)
  /\ UNCHANGED <<main, tmp_fd, rfd, asker, fdmap, sent, inbox, answers>>

\* handle_msg, then tcp_write(fdmap.socket_fd, ...), the third read.
THandle ==
  /\ TMove("handle", "send")
  /\ rfd' = socket_fd
  /\ UNCHANGED <<main, tmp_fd, asker, fdmap, kernel, clients, answers>>

\* The answer goes out; if the client has closed, a reset will come back.
TSend ==
  /\ IsOpen(rfd) /\ cst[conn[rfd]] \in {"open", "fin", "late"}
  /\ TMove("send", "wait")
  /\ LET c == conn[rfd] IN
       IF cst[c] = "open"
       THEN answers' = [answers EXCEPT ![asker] = Append(@, c)]
            /\ UNCHANGED cst
       ELSE cst' = [cst EXCEPT ![c] = "late"] /\ UNCHANGED answers
  /\ UNCHANGED <<main, tmp_fd, rfd, asker, fdmap, kernel, sent, inbox>>

\* send returns an error: handle_close.
TSendFails ==
  /\ TMove("send", "wait")
  /\ ~IsOpen(rfd) \/ cst[conn[rfd]] = "reset"
  /\ Close(rfd)
  /\ UNCHANGED <<main, tmp_fd, rfd, asker, fdmap, sent, inbox, answers>>

\* send on a connection closed and then reset raises SIGPIPE, which nothing
\* handles or blocks: the process ends.
TSigpipe ==
  /\ IsOpen(rfd) /\ cst[conn[rfd]] = "broken"
  /\ TMove("send", "dead") /\ mpc' = "killed"
  /\ UNCHANGED <<newfd, tmp_fd, rfd, asker, fdmap, kernel, clients, answers>>

\* epoll_wait fails: the thread closes fdmap.socket_fd and its epoll set.
TOut ==
  /\ TMove("wait", "exited")
  /\ conn' = [f \in Fds |-> IF f = socket_fd THEN Nobody ELSE conn[f]]
  /\ watched' = {}
  /\ cst' = [c \in Conns |->
      IF IsOpen(socket_fd) /\ c = conn[socket_fd] THEN "closed" ELSE cst[c]]
  /\ UNCHANGED <<main, tmp_fd, rfd, asker, fdmap, sent, inbox, answers>>

Thread ==
  \/ TStart \/ TPublish \/ (\E fd \in Fds : THup(fd) \/ TEvent(fd))
  \/ TCompare \/ TRead \/ TRecvFrame \/ TRecvBad \/ TRecvClosed
  \/ THandle \/ TSend \/ TSendFails \/ TSigpipe

-----------------------------------------------------------------------------
(* Clients, and the resets that the network brings. *)

CState(c, from, to) ==
  /\ cst[c] \in from
  /\ cst' = [cst EXCEPT ![c] = to]
  /\ UNCHANGED <<main, thread, fdmap, kernel, sent, inbox, answers>>

CConnect(c) ==
  /\ mpc \in {"barrier", "loop", "store", "add"}
  /\ CState(c, {"unused"}, "pending")

CSend(c, f) ==
  /\ cst[c] = "open" /\ sent[c] < MaxFrames
  /\ sent' = [sent EXCEPT ![c] = @ + 1]
  /\ inbox' = [inbox EXCEPT ![c] = Append(@, f)]
  /\ UNCHANGED <<main, thread, fdmap, kernel, cst, answers>>

\* close(), with nothing left to read, and a client that is killed with an
\* answer unread. The repository's clients never shut a connection down before
\* they leave it, so once it is closed only an answer brings a reset.
CClose(c) == CState(c, {"open"}, "fin")
CReset(c) == CState(c, {"open"}, "reset")
NReset(c) == CState(c, {"late"}, "broken")

Client(c) ==
  CConnect(c) \/ (\E f \in Frames : CSend(c, f)) \/ CClose(c) \/ CReset(c)

-----------------------------------------------------------------------------
Next ==
  \/ Main \/ MOut \/ Thread \/ TOut
  \/ \E c \in Conns : Client(c) \/ NReset(c)

Spec == Init /\ [][Next]_vars

\* Threads that can run do run. epoll_wait moves the descriptor it reports to
\* the end of its ready list, so each of them has its turn. Clients, and
\* epoll_wait failing, owe nothing.
Fairness ==
  /\ WF_vars(Main) /\ WF_vars(Thread)
  /\ \A fd \in Fds : SF_vars(TEvent(fd) \/ THup(fd))

FairSpec == Spec /\ Fairness

-----------------------------------------------------------------------------
(* Safety. *)

TypeOK ==
  /\ mpc \in {"create", "barrier", "loop", "store", "add", "returned", "killed"}
  /\ tpc \in {"none", "start", "barrier", "publish", "wait", "compare", "read",
              "recv", "handle", "send", "exited", "dead"}
  /\ {newfd, tmp_fd, rfd, socket_fd} \subseteq Fds \union {0}
  /\ asker \in Conns \union {Nobody}
  /\ epfd_known \in BOOLEAN
  /\ conn \in [Fds -> Conns \union {Nobody}] /\ watched \subseteq Fds
  /\ cst \in [Conns -> States]
  /\ sent \in [Conns -> 0 .. MaxFrames]
  /\ inbox \in [Conns -> Seq(Frames)]
  /\ answers \in [Conns -> Seq(Conns)]

\* However stale fdmap.socket_fd is when it is read, the thread only ever
\* closes a connection that its client has given up, unless epoll itself fails.
OnlyDeadConnectionsAreClosed ==
  [][\A c \in Conns :
       cst[c] = "open" /\ cst'[c] = "closed" => tpc' = "exited"]_vars

\* A request is in the connection, in recv_buf, or answered at most once, even
\* when the answers to it go to connections that did not ask: main may move
\* fdmap.socket_fd between the read of a request and the answer to it, and the
\* same request must not be read or answered again on that account.
InHand == tpc \in {"handle", "send"}

Unread(c)   == Len(inbox[c])
InBuf(c)    == IF asker = c /\ InHand THEN 1 ELSE 0
Answered(c) == Len(answers[c])

NoAnswerWithoutRequest ==
  \A c \in Conns : Answered(c) + Unread(c) + InBuf(c) <= sent[c]

\* A client that asks and closes without waiting cannot bring the server down
\* on its own: the answer that kills it follows an earlier one to the same
\* connection, so at least two requests have been read by then. (It could if it
\* shut the connection down, asked and reset it; no client here does.)
OneRequestNeverKills ==
  mpc = "killed" =>
    \E c, d \in Conns : \/ c # d /\ Unread(c) < sent[c] /\ Unread(d) < sent[d]
                       \/ Unread(c) + 1 < sent[c]

\* Lines 232 and 240: the command is received from the host and the result
\* returned to it. Nobody gets the answer to somebody else's request.
AnswerGoesToAsker ==
  \A c \in Conns : \A k \in DOMAIN answers[c] : answers[c][k] = c

-----------------------------------------------------------------------------
(* Liveness. *)

Serving == mpc \in {"loop", "store", "add"} /\ tpc \notin {"exited", "dead"}

Asking(c) ==
  Serving /\ cst[c] = "open" /\ inbox[c] # <<>> /\ Head(inbox[c]) = "good"

\* tcp_handle is in a blocking recv on a connection that says nothing. It gets
\* there when main stores a newer connection between the comparison (230) and
\* the read (233) of fdmap.socket_fd.
Deaf ==
  /\ tpc = "recv" /\ IsOpen(rfd)
  /\ cst[conn[rfd]] = "open" /\ inbox[conn[rfd]] = <<>>

\* The request of the connection that fdmap names is read in the end, if the
\* descriptor was added to the epoll set and no newer connection comes, unless
\* the thread is deaf for good: whatever it was doing for older connections,
\* whichever of them say something, close or are reset, it comes back to this
\* one.
CurrentClientIsServed ==
  \A c \in Conns : \A n \in 1 .. MaxFrames :
    (/\ Asking(c) /\ Len(inbox[c]) = n
     /\ socket_fd \in watched /\ conn[socket_fd] = c)
      ~> (\/ ~Serving \/ cst[c] # "open" \/ Len(inbox[c]) < n
          \/ ~IsOpen(socket_fd) \/ conn[socket_fd] # c
          \/ []Deaf)
=============================================================================
