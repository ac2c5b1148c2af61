---------------------------- MODULE MenuProtocol ----------------------------
(***************************************************************************)
(* The local menu (menu.c) and the UDP side of configuration_management.   *)
(* A menu sends one datagram per command and waits, without a timeout, for *)
(* one datagram; requests and answers carry nothing that relates them.     *)
(* Answers go to a fixed port, which every menu binds with SO_REUSEADDR,   *)
(* and either program may be stopped and started again at any time.        *)
(*                                                                         *)
(* What a command does is the matter of DaqCommands and ConfigStore. Here  *)
(* an answer is the request it answers.                                    *)
(***************************************************************************)
EXTENDS Naturals, Sequences

CONSTANTS
  Menus,         \* runs of the menu program, in any order and overlapping
  MaxRequests,   \* bound on the commands given in one run
  Commands,      \* the entries that send something
  None           \* no request

ASSUME BoundAssumption == MaxRequests \in Nat
ASSUME CommandAssumption ==
  {"set_tcp_port", "start_daq", "stop_daq"} \subseteq Commands

Requests == Menus \X (1 .. MaxRequests) \X Commands

ASSUME NoneAssumption == None \notin Requests

VARIABLES
  mpc,        \* menus: where
  asked,      \* menus: the commands sent so far
  mbox,       \* menus: answers in the buffer of the socket
  spc,        \* the server: where
  sbox,       \* the server: requests in the buffer of its socket
  sreq,       \* the server: the request in recv_buf
  shown,      \* history, per menu: the answer shown for each command
  handled     \* history, per menu: its commands, as handle_msg got them

menu    == <<mpc, asked, mbox>>
server  == <<spc, sbox, sreq>>
history == <<shown, handled>>
vars    == <<menu, server, history>>

Elements(s) == {s[i] : i \in DOMAIN s}

\* Menus that have their socket.
Bound == {m \in Menus : mpc[m] \in {"menu", "waiting"}}

Init ==
  /\ mpc = [m \in Menus |-> "off"]
  /\ asked = [m \in Menus |-> <<>>]
  /\ mbox = [m \in Menus |-> <<>>]
  /\ spc = "down" /\ sbox = <<>> /\ sreq = None
  /\ shown = [m \in Menus |-> <<>>] /\ handled = [m \in Menus |-> <<>>]

-----------------------------------------------------------------------------
(* The menu. *)

\* UDPInitial_old: several sockets may be bound to the port.
MStart(m) ==
  /\ mpc[m] = "off"
  /\ mpc' = [mpc EXCEPT ![m] = "menu"]
  /\ UNCHANGED <<asked, mbox, server, history>>

Ask(m, cmd) ==
  /\ mpc[m] = "menu" /\ Len(asked[m]) < MaxRequests
  /\ mpc' = [mpc EXCEPT ![m] = "waiting"]
  /\ asked' = [asked EXCEPT ![m] = Append(@, cmd)]

Request(m) == <<m, Len(asked[m]), asked[m][Len(asked[m])]>>

\* sendto. Nobody looks at its result: the request is lost when the server
\* has no socket, when its buffer is full, or when a second server is being
\* started, which binds the port too before it finds the TCP port in use.
Send(m, cmd) ==
  /\ Ask(m, cmd)
  /\ \/ spc # "down" /\ sbox' = Append(sbox, Request(m)')
     \/ sbox' = sbox
  /\ UNCHANGED <<mbox, spc, sreq, history>>

MSetPort(m) == Send(m, "set_tcp_port")
MStartDaq(m) == Send(m, "start_daq")
MStopDaq(m) == Send(m, "stop_daq")

\* ReceiveUDPData with tout 0, alarm(0), waits for any datagram; the menu
\* shows its result as that of the command just sent.
MReceive(m) ==
  /\ mpc[m] = "waiting" /\ mbox[m] # <<>>
  /\ mpc' = [mpc EXCEPT ![m] = "menu"]
  /\ shown' = [shown EXCEPT ![m] = Append(@, Head(mbox[m]))]
  /\ mbox' = [mbox EXCEPT ![m] = Tail(@)]
  /\ UNCHANGED <<asked, server, handled>>

\* The user leaves, or interrupts a menu that waits. The socket is gone.
MLeave(m) ==
  /\ m \in Bound
  /\ mpc' = [mpc EXCEPT ![m] = "gone"]
  /\ mbox' = [mbox EXCEPT ![m] = <<>>]
  /\ UNCHANGED <<asked, server, history>>

Menu(m) ==
  MStart(m) \/ MSetPort(m) \/ MStartDaq(m) \/ MStopDaq(m) \/ MReceive(m)
    \/ MLeave(m)

-----------------------------------------------------------------------------
(* The server: the main thread of configuration_management. *)

SMove(from, to) == spc = from /\ spc' = to

\* The socket is bound first; requests wait in it until the loop is reached.
SStart ==
  /\ SMove("down", "starting")
  /\ UNCHANGED <<menu, sbox, sreq, history>>

SEnterLoop ==
  /\ SMove("starting", "loop")
  /\ UNCHANGED <<menu, sbox, sreq, history>>

\* Mistake: the request is acknowledged without being handled.
SReceiveAcknowledges ==
  /\ SMove("loop", "answer")
  /\ sbox # <<>>
  /\ sreq' = Head(sbox) /\ sbox' = Tail(sbox)
  /\ UNCHANGED <<menu, history>>

\* Mistake: the datagram is looked at (MSG_PEEK) but not taken.
SReceivePeeks ==
  /\ SMove("loop", "handle")
  /\ sbox # <<>>
  /\ sreq' = Head(sbox)
  /\ UNCHANGED <<menu, sbox, history>>

SReceive ==
  /\ SMove("loop", "handle")
  /\ sbox # <<>>
  /\ sreq' = Head(sbox) /\ sbox' = Tail(sbox)
  /\ UNCHANGED <<menu, history>>

\* Mistake: SET_TCP_PORT returns without filling in an answer.
SHandleForgetsAnswer ==
  /\ SMove("handle", IF sreq[3] = "set_tcp_port" THEN "loop" ELSE "answer")
  /\ handled' = [handled EXCEPT ![sreq[1]] = Append(@, sreq[2])]
  /\ UNCHANGED <<menu, sbox, sreq, shown>>

\* handle_msg.
SHandle ==
  /\ SMove("handle", "answer")
  /\ handled' = [handled EXCEPT ![sreq[1]] = Append(@, sreq[2])]
  /\ UNCHANGED <<menu, sbox, sreq, shown>>

\* Mistake: the answer is sent twice.
SAnswerTwice ==
  /\ SMove("answer", "loop")
  /\ sreq' = None
  /\ \E m \in Bound : mbox' = [mbox EXCEPT ![m] = @ \o <<sreq, sreq>>]
  /\ UNCHANGED <<mpc, asked, sbox, history>>

\* sendto MENU_PORT. Which of several sockets on a port gets a datagram is up
\* to the kernel; if there is none it is lost.
SAnswer ==
  /\ SMove("answer", "loop")
  /\ sreq' = None
  /\ IF Bound = {} THEN UNCHANGED mbox
     ELSE \E m \in Bound : mbox' = [mbox EXCEPT ![m] = Append(@, sreq)]
  /\ UNCHANGED <<mpc, asked, sbox, history>>

\* The process ends: it is stopped, or killed by SIGPIPE, or epoll_wait or
\* the creation of the listening socket fails.
SStop ==
  /\ spc # "down" /\ spc' = "down"
  /\ sbox' = <<>> /\ sreq' = None
  /\ UNCHANGED <<menu, history>>

Server == SEnterLoop \/ SReceive \/ SHandle \/ SAnswer

-----------------------------------------------------------------------------
Next == (\E m \in Menus : Menu(m)) \/ Server \/ SStart \/ SStop

Spec == Init /\ [][Next]_vars

\* A server that can go on does, and so does a menu whose answer has come.
\* Nobody has to start a program, and users owe no commands.
FairSpec ==
  Spec /\ WF_vars(Server) /\ \A m \in Menus : WF_vars(MReceive(m))

-----------------------------------------------------------------------------
(* Properties. *)

\* Restarts and losses on either side never make the server carry out a
\* command twice, nor two commands of one menu in the wrong order.
HandledOnceInOrder ==
  \A m \in Menus :
    \A i, j \in DOMAIN handled[m] : i < j => handled[m][i] < handled[m][j]

\* Nothing relates an answer to a request, but a menu has one command under
\* way and waits for its answer however long it takes. So it shows the answer
\* to another command than the one just given only after it has been given an
\* answer meant for another menu; then it may stay one behind.
SlipsStartWithAStranger ==
  \A m \in Menus : \A i \in DOMAIN shown[m] :
    shown[m][i] # <<m, i, asked[m][i]>> =>
      \E j \in 1 .. i : shown[m][j][1] # m

\* What a menu shows has been done by the server, whoever asked for it.
ShownIsHandled ==
  \A m \in Menus : \A i \in DOMAIN shown[m] :
    shown[m][i][2] \in Elements(handled[shown[m][i][1]])

-----------------------------------------------------------------------------
(* Liveness. *)

\* A command that has reached the server is answered, if the server stays up
\* and the menu is the only one.
Alone(m) == Bound = {m}

LoneMenuIsAnswered ==
  \A m \in Menus :
    (/\ mpc[m] = "waiting" /\ Alone(m) /\ spc # "down"
     /\ Request(m) \in Elements(sbox) \union {sreq})
      ~> (mpc[m] # "waiting" \/ ~Alone(m) \/ spc = "down")
=============================================================================
