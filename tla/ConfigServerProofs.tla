------------------------- MODULE ConfigServerProofs -------------------------
(* Theorems about the TCP side of the server, for any connections, any      *)
(* finite set of descriptors and any number of requests.                    *)
EXTENDS ConfigServer, SequenceTheorems, WellFoundedInduction, TLAPS

-----------------------------------------------------------------------------
(* Data.                                                                    *)

\* The kernel finds a lowest descriptor among those that are free.
LEMMA LowestIsMember ==
  ASSUME NEW fds \in SUBSET Fds, fds # {}
  PROVE  Lowest(fds) \in fds
<1>1. fds \subseteq Nat
  BY FdAssumption
<1>2. PICK fd \in fds : \A other \in fds : ~(<<other, fd>> \in OpToRel(<, Nat))
  BY <1>1, NatLessThanWellFounded, WFMin
<1>3. \A other \in fds : fd <= other
  <2> TAKE other \in fds
  <2>1. fd \in Nat /\ other \in Nat
    BY <1>1
  <2>2. ~(other < fd)
    BY <1>2, <2>1 DEF OpToRel
  <2> QED
    BY <2>1, <2>2
<1> QED
  BY <1>3 DEF Lowest

\* What Head and Tail leave of a queue of frames.
LEMMA InboxTail ==
  ASSUME NEW s \in Seq(Frames), s # <<>>
  PROVE  /\ Tail(s) \in Seq(Frames)
         /\ Len(s) \in Nat \ {0} /\ Len(Tail(s)) = Len(s) - 1
BY EmptySeq, LenProperties, HeadTailProperties

\* One answer more to somebody leaves sequences of receivers, one longer.
LEMMA AnswerAppended ==
  ASSUME TypeOK, NEW a, NEW c \in Conns,
         answers' = [answers EXCEPT ![a] = Append(@, c)]
  PROVE  /\ answers' \in [Conns -> Seq(Conns)]
         /\ \A d \in Conns : Len(answers'[d])
              = IF d = a THEN Len(answers[d]) + 1 ELSE Len(answers[d])
<1>1. answers \in [Conns -> Seq(Conns)]
  BY DEF TypeOK
<1>2. \A d \in Conns : /\ Append(answers[d], c) \in Seq(Conns)
                       /\ Len(Append(answers[d], c)) = Len(answers[d]) + 1
  BY <1>1, AppendProperties
<1>3. \A d \in Conns :
        answers'[d] = IF d = a THEN Append(answers[d], c) ELSE answers[d]
  BY <1>1
<1>4. DOMAIN answers' = Conns /\ answers' = [d \in Conns |-> answers'[d]]
  BY <1>1
<1> QED
  BY <1>1, <1>2, <1>3, <1>4

-----------------------------------------------------------------------------
(* Types.                                                                   *)

\* The program starts with no descriptors and no connections.
LEMMA TypeInit == Init => TypeOK
<1> SUFFICES ASSUME Init PROVE TypeOK
  OBVIOUS
<1>1. /\ inbox \in [Conns -> Seq(Frames)]
      /\ answers \in [Conns -> Seq(Conns)]
      /\ sent \in [Conns -> 0 .. MaxFrames]
  BY BoundAssumption DEF Init
<1>2. cst \in [Conns -> States] /\ conn \in [Fds -> Conns \union {Nobody}]
  BY DEF Init, States
<1> QED
  BY <1>1, <1>2 DEF Init, TypeOK

\* Closing a descriptor, whatever it stands for.
LEMMA CloseTypes ==
  ASSUME TypeOK, NEW fd, Close(fd)
  PROVE  /\ conn' \in [Fds -> Conns \union {Nobody}] /\ watched' \subseteq Fds
         /\ cst' \in [Conns -> States]
BY DEF TypeOK, Close, States

\* Every step of main keeps the types.
LEMMA MainTypes ==
  ASSUME TypeOK, Main \/ MOut
  PROVE  TypeOK'
<1> USE DEF TypeOK, MMove
<1>1. CASE MCreate \/ Barrier \/ MOut
  BY <1>1 DEF MCreate, Barrier, MOut, fdmap, kernel, clients
<1>2. ASSUME NEW c \in Conns, MAccept(c)
      PROVE  TypeOK'
  <2>1. newfd' \in Fds
    BY <1>2, LowestIsMember DEF MAccept, Free
  <2>2. /\ conn' \in [Fds -> Conns \union {Nobody}]
        /\ cst' \in [Conns -> States]
    BY <1>2 DEF MAccept, States
  <2> QED
    BY <1>2, <2>1, <2>2 DEF MAccept, thread, fdmap
<1>3. CASE MStore
  BY <1>3 DEF MStore, thread, kernel, clients
<1>4. CASE MAdd
  BY <1>4 DEF MAdd, IsOpen, thread, fdmap, clients
<1> QED
  BY <1>1, <1>2, <1>3, <1>4 DEF Main

\* Every step of tcp_handle keeps the types.
LEMMA ThreadTypes ==
  ASSUME TypeOK, Thread \/ TOut
  PROVE  TypeOK'
<1> USE DEF TypeOK, TMove
<1>1. CASE TStart \/ TCompare \/ TRecvBad
  BY <1>1 DEF TStart, TCompare, TRecvBad, main, fdmap, kernel, clients
<1>2. CASE TPublish
  BY <1>2 DEF TPublish, main, kernel, clients
<1>3. ASSUME NEW fd \in Fds, THup(fd)
      PROVE  TypeOK'
  BY <1>3, CloseTypes DEF THup, main, fdmap
<1>4. ASSUME NEW fd \in Fds, TEvent(fd)
      PROVE  TypeOK'
  BY <1>4 DEF TEvent, main, fdmap, kernel, clients
<1>5. CASE TRead \/ THandle
  BY <1>5 DEF TRead, THandle, main, fdmap, kernel, clients
<1>6. CASE TRecvFrame
  <2>1. conn[rfd] \in Conns
    BY <1>6 DEF TRecvFrame, IsOpen
  <2>2. Tail(inbox[conn[rfd]]) \in Seq(Frames)
    BY <1>6, <2>1, InboxTail DEF TRecvFrame
  <2>3. inbox' \in [Conns -> Seq(Frames)]
    BY <1>6, <2>1, <2>2 DEF TRecvFrame
  <2> QED
    BY <1>6, <2>1, <2>3 DEF TRecvFrame, main, fdmap, kernel
<1>7. CASE TRecvClosed
  BY <1>7, CloseTypes DEF TRecvClosed, main, fdmap
<1>8. CASE TSendFails
  BY <1>8, CloseTypes DEF TSendFails, main, fdmap
<1>9. CASE TSend
  <2>1. conn[rfd] \in Conns
    BY <1>9 DEF TSend, IsOpen
  <2>2. cst' \in [Conns -> States]
    BY <1>9, <2>1 DEF TSend, States
  <2>3. answers' \in [Conns -> Seq(Conns)]
    BY <1>9, <2>1, AnswerAppended DEF TSend
  <2> QED
    BY <1>9, <2>2, <2>3 DEF TSend, main, fdmap, kernel
<1>10. CASE TSigpipe
  BY <1>10 DEF TSigpipe, fdmap, kernel, clients
<1>11. CASE TOut
  <2>1. cst' \in [Conns -> States]
    BY <1>11 DEF TOut, States
  <2> QED
    BY <1>11, <2>1 DEF TOut, main, fdmap
<1> QED
  BY <1>1, <1>2, <1>3, <1>4, <1>5, <1>6, <1>7, <1>8, <1>9, <1>10, <1>11
     DEF Thread

\* Clients and the network keep the types.
LEMMA ClientTypes ==
  ASSUME TypeOK, NEW c \in Conns, Client(c) \/ NReset(c)
  PROVE  TypeOK'
<1> USE DEF TypeOK
<1>1. ASSUME NEW from, NEW to \in States, CState(c, from, to)
      PROVE  TypeOK'
  BY <1>1 DEF CState, main, thread, fdmap, kernel
<1>2. ASSUME NEW f \in Frames, CSend(c, f)
      PROVE  TypeOK'
  <2>1. Append(inbox[c], f) \in Seq(Frames) /\ sent[c] + 1 \in 0 .. MaxFrames
    BY <1>2, AppendProperties, BoundAssumption DEF CSend
  <2> QED
    BY <1>2, <2>1 DEF CSend, main, thread, fdmap, kernel
<1> QED
  BY <1>1, <1>2 DEF Client, CConnect, CClose, CReset, NReset, States

\* Every step keeps the types.
LEMMA TypeStep == TypeOK /\ [Next]_vars => TypeOK'
<1> SUFFICES ASSUME TypeOK, [Next]_vars PROVE TypeOK'
  OBVIOUS
<1>1. CASE UNCHANGED vars
  BY <1>1 DEF vars, main, thread, fdmap, kernel, clients, TypeOK
<1> QED
  BY <1>1, MainTypes, ThreadTypes, ClientTypes DEF Next

\* Every variable keeps its type; in particular no descriptor that main or
\* tcp_handle uses is anything but one it was given, or the initial 0.
THEOREM TypeCorrect == Spec => []TypeOK
  BY TypeInit, TypeStep, PTL DEF Spec

-----------------------------------------------------------------------------
(* Closing.                                                                 *)

\* handle_close is only ever given a descriptor whose connection the client has
\* closed or reset, even if it is not the one that the thread was told of.
THEOREM ClosesOnlyDeadConnections == Spec => OnlyDeadConnectionsAreClosed
<1>1. TypeOK /\ [Next]_vars =>
        \/ UNCHANGED vars
        \/ \A c \in Conns :
             cst[c] = "open" /\ cst'[c] = "closed" => tpc' = "exited"
  <2> SUFFICES ASSUME TypeOK, Next, NEW c \in Conns,
                      cst[c] = "open", cst'[c] = "closed"
               PROVE  tpc' = "exited"
    OBVIOUS
  <2>1. cst'[c] # cst[c]
    OBVIOUS
  <2>2. CASE TOut
    BY <2>2 DEF TOut, TMove
  <2>3. ASSUME NEW fd, Close(fd)
        PROVE  IsOpen(fd) /\ conn[fd] = c
    BY <2>1, <2>3 DEF Close, TypeOK
  <2>4. ~ \E fd \in Fds : THup(fd)
    BY <2>3 DEF THup, Hup
  <2>5. ~TRecvClosed /\ ~TSendFails
    BY <2>3 DEF TRecvClosed, TSendFails
  <2>6. ~TSend
    BY <2>1 DEF TSend, TypeOK
  <2>7. ~ \E d \in Conns : MAccept(d) \/ CConnect(d) \/ CClose(d) \/ CReset(d)
                             \/ NReset(d)
    BY <2>1 DEF MAccept, CConnect, CClose, CReset, NReset, CState, TypeOK
  <2>8. ~(MCreate \/ Barrier \/ MStore \/ MAdd \/ MOut)
    BY <2>1 DEF MCreate, Barrier, MStore, MAdd, MOut, clients
  <2>9. ~(TStart \/ TPublish \/ TCompare \/ TRead \/ TRecvFrame \/ TRecvBad
            \/ THandle \/ TSigpipe \/ \E fd \in Fds : TEvent(fd))
    BY <2>1 DEF TStart, TPublish, TCompare, TRead, TRecvFrame, TRecvBad,
       THandle, TSigpipe, TEvent, clients
  <2>10. ~ \E d \in Conns, f \in Frames : CSend(d, f)
    BY <2>1 DEF CSend
  <2> QED
    BY <2>2, <2>4, <2>5, <2>6, <2>7, <2>8, <2>9, <2>10
       DEF Next, Main, Thread, Client
<1> QED
  BY <1>1, TypeCorrect, PTL DEF Spec, OnlyDeadConnectionsAreClosed

-----------------------------------------------------------------------------
(* Requests and answers: a request is in the connection, in recv_buf or     *)
(* answered, one at a time.                                                 *)

AskerInv == InHand => asker \in Conns

\* What most steps leave alone: requests and answers. None of them makes a
\* client look as if it had closed under an answer, or ends the process.
Quiet ==
  /\ UNCHANGED <<answers, inbox, sent, asker>>
  /\ InHand' => InHand
  /\ \A c \in Conns :
       cst'[c] \in {"late", "broken"} => cst[c] \in {"late", "broken"}
  /\ mpc' = "killed" => mpc = "killed"

\* Closing leaves nobody with an answer on the way.
LEMMA CloseIsQuiet ==
  ASSUME TypeOK, NEW fd, Close(fd)
  PROVE  \A c \in Conns :
           cst'[c] \in {"late", "broken"} => cst[c] \in {"late", "broken"}
BY DEF Close, TypeOK

\* The steps that are not quiet.
LEMMA StepKinds ==
  ASSUME TypeOK, [Next]_vars
  PROVE  \/ Quiet
         \/ TRecvFrame \/ TSend \/ TSigpipe
         \/ \E c \in Conns, f \in Frames : CSend(c, f)
<1> USE DEF Quiet, InHand
<1>1. CASE MCreate \/ Barrier \/ MStore \/ MAdd \/ MOut
  BY <1>1 DEF MCreate, Barrier, MStore, MAdd, MOut, MMove, clients, thread
<1>2. ASSUME NEW c \in Conns, MAccept(c)
      PROVE  Quiet
  BY <1>2 DEF MAccept, MMove, thread, TypeOK
<1>3. CASE TStart \/ TPublish \/ TCompare \/ TRead \/ TRecvBad \/ THandle
             \/ \E fd \in Fds : TEvent(fd)
  BY <1>3 DEF TStart, TPublish, TCompare, TRead, TRecvBad, THandle, TEvent,
     TMove, main, clients
<1>4. ASSUME NEW fd \in Fds, THup(fd)
      PROVE  Quiet
  BY <1>4, CloseIsQuiet DEF THup, main
<1>5. CASE TRecvClosed \/ TSendFails
  BY <1>5, CloseIsQuiet DEF TRecvClosed, TSendFails, TMove, main
<1>6. CASE TOut
  BY <1>6 DEF TOut, TMove, main, TypeOK
<1>7. ASSUME NEW c \in Conns, CConnect(c) \/ CClose(c) \/ CReset(c) \/ NReset(c)
      PROVE  Quiet
  BY <1>7 DEF CConnect, CClose, CReset, NReset, CState, main, thread, TypeOK
<1>8. CASE UNCHANGED vars
  BY <1>8 DEF vars, main, thread, clients
<1> QED
  BY <1>1, <1>2, <1>3, <1>4, <1>5, <1>6, <1>7, <1>8
     DEF Next, Main, Thread, Client

\* What an account of natural numbers allows.
LEMMA Accounting ==
  ASSUME NEW a \in Nat, NEW u \in Nat, NEW b \in Nat, NEW s \in Nat,
         a + u + b <= s
  PROVE  /\ u <= s /\ (b = 1 => u < s)
         /\ \A b1 \in Nat : b1 <= b => a + u + b1 <= s
         /\ (b = 0 /\ u # 0 => a + (u - 1) + 1 <= s)
         /\ (b = 1 => (a + 1) + u + 0 <= s)
         /\ a + (u + 1) + b <= s + 1
OBVIOUS

\* What the types say of the counts.
LEMMA Counts ==
  ASSUME TypeOK
  PROVE  \A c \in Conns : /\ sent[c] \in Nat /\ Unread(c) \in Nat
                          /\ Answered(c) \in Nat /\ InBuf(c) \in Nat
<1> SUFFICES ASSUME NEW c \in Conns
             PROVE  /\ sent[c] \in Nat /\ Unread(c) \in Nat
                    /\ Answered(c) \in Nat /\ InBuf(c) \in Nat
  OBVIOUS
<1>1. sent[c] \in Nat
  BY BoundAssumption DEF TypeOK
<1>2. Unread(c) \in Nat
  BY LenProperties DEF TypeOK, Unread
<1>3. Answered(c) \in Nat
  BY LenProperties DEF TypeOK, Answered
<1>4. InBuf(c) \in Nat
  BY DEF InBuf
<1> QED
  BY <1>1, <1>2, <1>3, <1>4

\* tcp_read takes one frame of one connection into recv_buf.
LEMMA FrameMoves ==
  ASSUME TypeOK, TRecvFrame
  PROVE  /\ ~InHand /\ InHand' /\ asker' \in Conns
         /\ UNCHANGED <<answers, sent, cst, mpc>>
         /\ \A c \in Conns : Unread(c)'
              = IF c = asker' THEN Unread(c) - 1 ELSE Unread(c)
<1> DEFINE c == conn[rfd]
<1>1. /\ c \in Conns /\ inbox[c] \in Seq(Frames) /\ inbox[c] # <<>>
      /\ asker' = c /\ inbox' = [inbox EXCEPT ![c] = Tail(@)]
  BY DEF TRecvFrame, IsOpen, TypeOK
<1>2. Len(Tail(inbox[c])) = Len(inbox[c]) - 1
  BY <1>1, InboxTail
<1>3. \A d \in Conns :
        inbox'[d] = IF d = c THEN Tail(inbox[c]) ELSE inbox[d]
  BY <1>1 DEF TypeOK
<1>4. \A d \in Conns :
        Len(inbox'[d]) = IF d = c THEN Len(inbox[d]) - 1 ELSE Len(inbox[d])
  BY <1>2, <1>3
<1>5. ~InHand /\ InHand' /\ UNCHANGED <<answers, sent, cst, mpc>>
  BY DEF TRecvFrame, TMove, InHand, main
<1> QED
  BY <1>1, <1>4, <1>5 DEF Unread

\* A client's frame is sent and in the connection at once.
LEMMA SendMoves ==
  ASSUME TypeOK, NEW c \in Conns, NEW f \in Frames, CSend(c, f)
  PROVE  /\ UNCHANGED <<answers, cst, mpc, tpc, asker>>
         /\ \A d \in Conns :
              /\ sent'[d] = IF d = c THEN sent[d] + 1 ELSE sent[d]
              /\ Unread(d)' = IF d = c THEN Unread(d) + 1 ELSE Unread(d)
<1>1. Len(Append(inbox[c], f)) = Len(inbox[c]) + 1
  BY AppendProperties DEF TypeOK
<1>2. \A d \in Conns :
        /\ inbox'[d] = IF d = c THEN Append(inbox[c], f) ELSE inbox[d]
        /\ sent'[d] = IF d = c THEN sent[d] + 1 ELSE sent[d]
  BY DEF CSend, TypeOK
<1>3. UNCHANGED <<answers, cst, mpc, tpc, asker>>
  BY DEF CSend, main, thread
<1> QED
  BY <1>1, <1>2, <1>3 DEF Unread

\* Every step keeps the account of requests and answers.
LEMMA AccountStep ==
  TypeOK /\ AskerInv /\ NoAnswerWithoutRequest /\ [Next]_vars
    => (AskerInv /\ NoAnswerWithoutRequest)'
<1> SUFFICES ASSUME TypeOK, AskerInv, NoAnswerWithoutRequest, [Next]_vars
             PROVE  (AskerInv /\ NoAnswerWithoutRequest)'
  OBVIOUS
<1> USE DEF AskerInv
<1>1. /\ \A c \in Conns : Answered(c) + Unread(c) + InBuf(c) <= sent[c]
      /\ TypeOK'
  BY TypeStep DEF NoAnswerWithoutRequest
<1>2. \A c \in Conns : InBuf(c)' = IF asker' = c /\ InHand' THEN 1 ELSE 0
  BY DEF InBuf
<1>3. \A c \in Conns : InBuf(c) = IF asker = c /\ InHand THEN 1 ELSE 0
  BY DEF InBuf
<1>4. CASE Quiet
  <2>1. ASSUME NEW c \in Conns
        PROVE  /\ Answered(c)' = Answered(c) /\ Unread(c)' = Unread(c)
               /\ sent'[c] = sent[c] /\ InBuf(c)' <= InBuf(c)
               /\ InBuf(c)' \in Nat
    BY <1>2, <1>3, <1>4 DEF Quiet, Answered, Unread
  <2>2. ASSUME NEW c \in Conns
        PROVE  Answered(c)' + Unread(c)' + InBuf(c)' <= sent'[c]
    <3>1. Answered(c) + Unread(c) + InBuf(c) <= sent[c]
      BY <1>1
    <3>2. Answered(c) + Unread(c) + InBuf(c)' <= sent[c]
      <4>1. /\ Answered(c) \in Nat /\ Unread(c) \in Nat
            /\ InBuf(c) \in Nat /\ sent[c] \in Nat
        BY Counts
      <4>2. InBuf(c)' \in Nat /\ InBuf(c)' <= InBuf(c)
        BY <2>1
      <4> QED
        BY <3>1, <4>1, <4>2
    <3> QED
      BY <2>1, <3>2
  <2> QED
    BY <1>4, <2>2 DEF Quiet, NoAnswerWithoutRequest
<1>5. CASE TRecvFrame
  <2>1. ASSUME NEW c \in Conns
        PROVE  /\ Answered(c)' = Answered(c) /\ sent'[c] = sent[c]
               /\ IF c = asker' THEN /\ Unread(c)' = Unread(c) - 1
                                     /\ InBuf(c)' = 1 /\ InBuf(c) = 0
                                ELSE /\ Unread(c)' = Unread(c)
                                     /\ InBuf(c)' = 0
    BY <1>2, <1>3, <1>5, FrameMoves DEF Answered
  <2> QED
    BY <1>1, <1>5, <2>1, Counts, FrameMoves DEF NoAnswerWithoutRequest
<1>6. CASE TSigpipe
  <2>1. \A c \in Conns : /\ Answered(c)' = Answered(c) /\ Unread(c)' = Unread(c)
                         /\ sent'[c] = sent[c] /\ InBuf(c)' = 0
    BY <1>2, <1>6 DEF TSigpipe, TMove, InHand, clients, Answered, Unread
  <2> QED
    BY <1>1, <1>6, <2>1, Counts
       DEF TSigpipe, TMove, InHand, NoAnswerWithoutRequest
<1>7. ASSUME NEW c \in Conns, NEW f \in Frames, CSend(c, f)
      PROVE  (AskerInv /\ NoAnswerWithoutRequest)'
  <2>1. (InHand' <=> InHand) /\ UNCHANGED <<answers, asker>>
    BY <1>7, SendMoves DEF InHand
  <2>2. ASSUME NEW d \in Conns
        PROVE  /\ Answered(d)' = Answered(d) /\ InBuf(d)' = InBuf(d)
               /\ \/ sent'[d] = sent[d] /\ Unread(d)' = Unread(d)
                  \/ sent'[d] = sent[d] + 1 /\ Unread(d)' = Unread(d) + 1
    BY <1>2, <1>3, <1>7, <2>1, SendMoves DEF Answered
  <2> QED
    BY <1>1, <2>1, <2>2, Counts DEF NoAnswerWithoutRequest
<1>8. CASE TSend
  <2>1. /\ asker \in Conns /\ InHand /\ ~InHand'
        /\ UNCHANGED <<inbox, sent, asker>>
    BY <1>8 DEF TSend, TMove, InHand
  <2>2. conn[rfd] \in Conns
    BY <1>8 DEF TSend, IsOpen, TypeOK
  <2>3. ASSUME NEW c \in Conns
        PROVE  /\ \/ Answered(c)' = Answered(c)
                  \/ c = asker /\ Answered(c)' = Answered(c) + 1
               /\ Unread(c)' = Unread(c) /\ sent'[c] = sent[c]
               /\ InBuf(c)' = 0 /\ InBuf(c) = IF c = asker THEN 1 ELSE 0
    <3>1. \/ Answered(c)' = Answered(c)
          \/ c = asker /\ Answered(c)' = Answered(c) + 1
      BY <1>8, <2>2, AnswerAppended DEF TSend, Answered
    <3> QED
      BY <1>2, <1>3, <2>1, <3>1 DEF Unread
  <2> QED
    BY <1>1, <2>1, <2>3, Counts DEF NoAnswerWithoutRequest
<1> QED
  BY <1>4, <1>5, <1>6, <1>7, <1>8, StepKinds

\* At the start nothing has been asked.
LEMMA AccountInit == Init => AskerInv /\ NoAnswerWithoutRequest
<1> SUFFICES ASSUME Init PROVE AskerInv /\ NoAnswerWithoutRequest
  OBVIOUS
<1>1. \A c \in Conns : Answered(c) = 0 /\ Unread(c) = 0 /\ sent[c] = 0
  BY EmptySeq DEF Init, Answered, Unread
<1>2. ~InHand /\ \A c \in Conns : InBuf(c) = 0
  BY DEF Init, InHand, InBuf
<1> QED
  BY <1>1, <1>2 DEF AskerInv, NoAnswerWithoutRequest

\* The answers to the requests of a connection, whichever connections they go
\* to, are never more than the requests it made and the thread has finished with:
\* none is answered twice, and nobody is answered who has not asked, however
\* stale fdmap.socket_fd is at its three reads.
THEOREM AnswersAreForRequests == Spec => []NoAnswerWithoutRequest
  BY AccountInit, AccountStep, TypeCorrect, PTL DEF Spec

-----------------------------------------------------------------------------
(* The signal. A connection is only broken by an answer that found it       *)
(* closed, so a request has been read for it; the answer that raises        *)
(* SIGPIPE is to another one.                                               *)

One == \E c \in Conns : Unread(c) < sent[c]

Two == \E c, d \in Conns : \/ c # d /\ Unread(c) < sent[c] /\ Unread(d) < sent[d]
                           \/ Unread(c) + 1 < sent[c]

KillInv ==
  /\ (\E c \in Conns : cst[c] \in {"late", "broken"}) =>
       One /\ (InHand => Two)
  /\ mpc = "killed" => Two

\* Every step keeps it.
LEMMA KillStep ==
  TypeOK /\ AskerInv /\ NoAnswerWithoutRequest /\ KillInv /\ [Next]_vars
    => KillInv'
<1> SUFFICES ASSUME TypeOK, AskerInv, NoAnswerWithoutRequest, KillInv,
                    [Next]_vars
             PROVE  KillInv'
  OBVIOUS
<1>1. CASE Quiet
  <2>1. (One' <=> One) /\ (Two' <=> Two)
    BY <1>1 DEF Quiet, One, Two, Unread
  <2> QED
    BY <1>1, <2>1 DEF Quiet, KillInv
<1>2. CASE TRecvFrame
  <2>1. \A c \in Conns : Unread(c)' <= Unread(c) /\ sent'[c] = sent[c]
    BY <1>2, FrameMoves, Counts
  <2>2. (One => One') /\ (Two => Two')
    <3>1. TypeOK'
      BY TypeStep
    <3>2. \A c \in Conns : Unread(c)' \in Nat
      BY <3>1, LenProperties DEF TypeOK, Unread
    <3> QED
      BY <2>1, <3>2, Counts DEF One, Two
  <2>3. One => Two'
    <3> SUFFICES ASSUME NEW c \in Conns, Unread(c) < sent[c] PROVE Two'
      BY DEF One
    <3>1. PICK a \in Conns : a = asker'
      BY <1>2, FrameMoves
    <3>2. /\ Unread(a)' = Unread(a) - 1 /\ Unread(a) <= sent[a]
          /\ c # a => Unread(c)' = Unread(c)
          /\ sent'[a] = sent[a] /\ sent'[c] = sent[c]
      <4>1. Unread(a) <= sent[a]
        BY Counts DEF NoAnswerWithoutRequest
      <4> QED
        BY <1>2, <2>1, <3>1, <4>1, FrameMoves
    <3>3. CASE c = a
      BY <3>2, <3>3, Counts DEF Two
    <3>4. CASE c # a
      BY <3>2, <3>4, Counts DEF Two
    <3> QED
      BY <3>3, <3>4
  <2> QED
    BY <1>2, <2>2, <2>3, FrameMoves DEF KillInv
<1>3. CASE TSigpipe
  <2>1. UNCHANGED <<inbox, sent>> /\ InHand /\ ~InHand'
    BY <1>3 DEF TSigpipe, TMove, InHand, clients
  <2>2. \E c \in Conns : cst[c] \in {"late", "broken"}
    BY <1>3 DEF TSigpipe, IsOpen, TypeOK
  <2>3. One' /\ Two'
    BY <2>1, <2>2 DEF KillInv, One, Two, Unread
  <2> QED
    BY <2>1, <2>3 DEF KillInv
<1>4. ASSUME NEW c \in Conns, NEW f \in Frames, CSend(c, f)
      PROVE  KillInv'
  <2>1. \A d \in Conns :
          \/ sent'[d] = sent[d] /\ Unread(d)' = Unread(d)
          \/ sent'[d] = sent[d] + 1 /\ Unread(d)' = Unread(d) + 1
    BY <1>4, SendMoves
  <2>2. \A d \in Conns :
          /\ Unread(d) < sent[d] => Unread(d)' < sent'[d]
          /\ Unread(d) + 1 < sent[d] => Unread(d)' + 1 < sent'[d]
    BY <2>1, Counts
  <2>3. (One => One') /\ (Two => Two')
    BY <2>2 DEF One, Two
  <2> QED
    BY <1>4, <2>3, <2>1, SendMoves DEF KillInv, InHand
<1>5. CASE TSend
  <2>1. /\ asker \in Conns /\ InHand /\ ~InHand'
        /\ UNCHANGED <<inbox, sent, mpc>>
    BY <1>5 DEF TSend, TMove, InHand, AskerInv, main
  <2>2. Unread(asker) < sent[asker]
    <3>1. InBuf(asker) = 1
      BY <2>1 DEF InBuf
    <3>2. Answered(asker) + Unread(asker) + InBuf(asker) <= sent[asker]
      BY <2>1 DEF NoAnswerWithoutRequest
    <3> QED
      BY <2>1, <3>1, <3>2, Counts
  <2>3. One' /\ (Two' <=> Two)
    BY <2>1, <2>2 DEF One, Two, Unread
  <2> QED
    BY <2>1, <2>3 DEF KillInv
<1> QED
  BY <1>1, <1>2, <1>3, <1>4, <1>5, StepKinds

\* A client that asks once and closes cannot end the process by SIGPIPE: by
\* then two requests have been read, from one client or from two.
THEOREM KillingTakesTwo == Spec => []OneRequestNeverKills
<1>1. Init => KillInv /\ AskerInv
  BY DEF Init, KillInv, AskerInv, InHand
<1>2. KillInv => OneRequestNeverKills
  BY DEF KillInv, Two, OneRequestNeverKills
<1>3. Init => NoAnswerWithoutRequest
  BY AccountInit
<1> QED
  BY <1>1, <1>2, <1>3, KillStep, AccountStep, TypeCorrect, PTL DEF Spec
=============================================================================
