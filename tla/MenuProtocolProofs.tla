------------------------- MODULE MenuProtocolProofs -------------------------
(* Theorems about the menus and the UDP side of the server, for any number  *)
(* of menus, that may overlap, and any number of commands.                  *)
EXTENDS MenuProtocol, SequenceTheorems, TLAPS

-----------------------------------------------------------------------------
(* Mailboxes and histories are sequences that grow at the end and shrink at *)
(* the front.                                                               *)

\* What Append leaves in place and what it adds.
LEMMA AppendAt ==
  ASSUME NEW S, NEW s \in Seq(S), NEW e \in S
  PROVE  /\ Append(s, e) \in Seq(S)
         /\ Len(Append(s, e)) = Len(s) + 1
         /\ DOMAIN Append(s, e) = 1 .. Len(s) + 1
         /\ DOMAIN s = 1 .. Len(s) /\ Len(s) \in Nat
         /\ \A i \in DOMAIN s : Append(s, e)[i] = s[i]
         /\ Append(s, e)[Len(s) + 1] = e
BY AppendProperties, LenProperties

\* The same of the elements.
LEMMA AppendElements ==
  ASSUME NEW S, NEW s \in Seq(S), NEW e \in S
  PROVE  Elements(Append(s, e)) = Elements(s) \union {e}
<1>1. DOMAIN Append(s, e) = (DOMAIN s) \union {Len(s) + 1}
  BY AppendAt
<1> QED
  BY <1>1, AppendAt DEF Elements

\* What Tail leaves, one place further on.
LEMMA TailAt ==
  ASSUME NEW S, NEW s \in Seq(S), s # <<>>
  PROVE  /\ Head(s) \in S /\ Head(s) = s[1]
         /\ Tail(s) \in Seq(S)
         /\ DOMAIN s = 1 .. Len(s) /\ Len(s) \in Nat \ {0}
         /\ 1 \in DOMAIN s
         /\ DOMAIN Tail(s) = 1 .. Len(s) - 1
         /\ \A i \in DOMAIN Tail(s) : i + 1 \in DOMAIN s /\ Tail(s)[i] = s[i + 1]
<1>1. Len(s) \in Nat \ {0} /\ DOMAIN s = 1 .. Len(s)
  BY EmptySeq, LenProperties
<1>2. /\ Tail(s) \in Seq(S) /\ Len(Tail(s)) = Len(s) - 1
      /\ Head(s) \in S /\ Head(s) = s[1]
      /\ \A i \in 1 .. Len(s) - 1 : Tail(s)[i] = s[i + 1]
  BY HeadTailProperties
<1>3. DOMAIN Tail(s) = 1 .. Len(s) - 1
  BY <1>2, LenProperties
<1> QED
  BY <1>1, <1>2, <1>3

-----------------------------------------------------------------------------
(* Types.                                                                   *)

Types ==
  /\ mpc \in [Menus -> {"off", "menu", "waiting", "gone"}]
  /\ asked \in [Menus -> Seq(Commands)]
  /\ \A m \in Menus : Len(asked[m]) <= MaxRequests
  /\ mbox \in [Menus -> Seq(Requests)]
  /\ sbox \in Seq(Requests)
  /\ spc \in {"down", "starting", "loop", "handle", "answer"}
  /\ sreq = None \/ sreq \in Requests
  /\ sreq \in Requests <=> spc \in {"handle", "answer"}
  /\ shown \in [Menus -> Seq(Requests)]
  /\ handled \in [Menus -> Seq(Nat)]

\* The request of a command just given is one, and the only new thing is it.
LEMMA AskTypes ==
  ASSUME Types, NEW m \in Menus, NEW cmd \in Commands, Ask(m, cmd)
  PROVE  /\ mpc' \in [Menus -> {"off", "menu", "waiting", "gone"}]
         /\ asked' \in [Menus -> Seq(Commands)]
         /\ \A o \in Menus : Len(asked'[o]) <= MaxRequests
         /\ \A o \in Menus \ {m} : asked'[o] = asked[o]
         /\ Len(asked'[m]) = Len(asked[m]) + 1
         /\ \A i \in DOMAIN asked[m] : asked'[m][i] = asked[m][i]
         /\ Request(m)' \in Requests
         /\ Request(m)'[1] = m /\ Request(m)'[2] = Len(asked[m]) + 1
<1>1. asked[m] \in Seq(Commands) /\ asked' = [asked EXCEPT ![m] = Append(asked[m], cmd)]
  BY DEF Types, Ask
<1>2. /\ Append(asked[m], cmd) \in Seq(Commands)
      /\ Len(Append(asked[m], cmd)) = Len(asked[m]) + 1
      /\ \A i \in DOMAIN asked[m] : Append(asked[m], cmd)[i] = asked[m][i]
      /\ Append(asked[m], cmd)[Len(asked[m]) + 1] = cmd
      /\ Len(asked[m]) \in Nat
  BY <1>1, AppendAt
<1>3. asked'[m] = Append(asked[m], cmd)
  BY <1>1 DEF Types
<1>4. Len(asked[m]) + 1 \in 1 .. MaxRequests
  BY <1>2, BoundAssumption DEF Ask
<1>5. Request(m)' = <<m, Len(asked[m]) + 1, cmd>>
  BY <1>2, <1>3 DEF Request
<1>6. Request(m)' \in Requests
  BY <1>4, <1>5 DEF Requests
<1>7. \A o \in Menus \ {m} : asked'[o] = asked[o]
  BY <1>1 DEF Types
<1>8. mpc' \in [Menus -> {"off", "menu", "waiting", "gone"}]
  BY DEF Ask, Types
<1>9. asked' \in [Menus -> Seq(Commands)]
  BY <1>1, <1>2 DEF Types
<1>10. ASSUME NEW o \in Menus PROVE Len(asked'[o]) <= MaxRequests
  <2>1. CASE o = m
    BY <1>2, <1>3, <1>4, <2>1, BoundAssumption
  <2>2. CASE o # m
    BY <1>7, <2>2 DEF Types
  <2> QED
    BY <2>1, <2>2
<1> QED
  BY <1>2, <1>3, <1>5, <1>6, <1>7, <1>8, <1>9, <1>10

\* The commands a menu can send.
LEMMA SendsACommand ==
  ASSUME NEW m \in Menus, MSetPort(m) \/ MStartDaq(m) \/ MStopDaq(m)
  PROVE  \E cmd \in Commands : Send(m, cmd)
BY CommandAssumption DEF MSetPort, MStartDaq, MStopDaq

\* The programs start with empty sockets and histories.
LEMMA TypesInit == Init => Types
<1> SUFFICES ASSUME Init PROVE Types
  OBVIOUS
<1>1. asked \in [Menus -> Seq(Commands)] /\ \A m \in Menus : Len(asked[m]) = 0
  BY DEF Init
<1>2. /\ mbox \in [Menus -> Seq(Requests)] /\ sbox \in Seq(Requests)
      /\ shown \in [Menus -> Seq(Requests)] /\ handled \in [Menus -> Seq(Nat)]
  BY DEF Init
<1>3. sreq = None /\ sreq \notin Requests /\ spc = "down"
  BY NoneAssumption DEF Init
<1>4. mpc \in [Menus -> {"off", "menu", "waiting", "gone"}]
  BY DEF Init
<1> QED
  BY <1>1, <1>2, <1>3, <1>4, BoundAssumption DEF Types

\* Every step of a menu keeps the types.
LEMMA MenuKeepsTypes ==
  ASSUME Types, NEW m \in Menus, Menu(m)
  PROVE  Types'
<1>1. ASSUME NEW cmd \in Commands, Send(m, cmd)
      PROVE  Types'
  <2>1. /\ mpc' \in [Menus -> {"off", "menu", "waiting", "gone"}]
        /\ asked' \in [Menus -> Seq(Commands)]
        /\ \A o \in Menus : Len(asked'[o]) <= MaxRequests
        /\ Request(m)' \in Requests
    BY <1>1, AskTypes DEF Send
  <2>2. sbox' \in Seq(Requests)
    <3> DEFINE x == Request(m)'
    <3>1. x \in Requests /\ sbox \in Seq(Requests)
      BY <2>1 DEF Types
    <3>2. sbox' = sbox \/ sbox' = Append(sbox, x)
      BY <1>1 DEF Send
    <3> HIDE DEF x
    <3> QED
      BY <3>1, <3>2, AppendAt
  <2>3. UNCHANGED <<mbox, spc, sreq, shown, handled>>
    BY <1>1 DEF Send, history
  <2> QED
    BY <2>1, <2>2, <2>3 DEF Types
<1>2. CASE MReceive(m)
  <2>1. /\ mbox[m] \in Seq(Requests) /\ shown[m] \in Seq(Requests)
        /\ mbox[m] # <<>>
    BY <1>2 DEF MReceive, Types
  <2>2. Head(mbox[m]) \in Requests /\ Tail(mbox[m]) \in Seq(Requests)
    BY <2>1, TailAt
  <2>3. Append(shown[m], Head(mbox[m])) \in Seq(Requests)
    BY <2>1, <2>2, AppendAt
  <2>4. /\ mbox' \in [Menus -> Seq(Requests)]
        /\ shown' \in [Menus -> Seq(Requests)]
        /\ mpc' \in [Menus -> {"off", "menu", "waiting", "gone"}]
    BY <1>2, <2>2, <2>3 DEF MReceive, Types
  <2>5. UNCHANGED <<asked, spc, sbox, sreq, handled>>
    BY <1>2 DEF MReceive, server
  <2> QED
    BY <2>4, <2>5 DEF Types
<1>3. CASE MStart(m)
  BY <1>3 DEF MStart, Types, server, history
<1>4. CASE MLeave(m)
  <2>1. mbox' \in [Menus -> Seq(Requests)]
    BY <1>4 DEF MLeave, Types
  <2> QED
    BY <1>4, <2>1 DEF MLeave, Types, server, history
<1> QED
  BY <1>1, <1>2, <1>3, <1>4, SendsACommand DEF Menu

\* Every step of the server keeps the types.
LEMMA ServerKeepsTypes ==
  ASSUME Types, Server \/ SStart \/ SStop
  PROVE  Types'
<1> USE DEF SMove
<1>1. CASE SStart \/ SEnterLoop
  BY <1>1 DEF SStart, SEnterLoop, Types, menu, history
<1>2. CASE SReceive
  <2>1. Head(sbox) \in Requests /\ Tail(sbox) \in Seq(Requests)
    BY <1>2, TailAt DEF SReceive, Types
  <2> QED
    BY <1>2, <2>1 DEF SReceive, Types, menu, history
<1>3. CASE SHandle
  <2>1. sreq \in Requests
    BY <1>3 DEF SHandle, Types
  <2>2. sreq[1] \in Menus /\ sreq[2] \in Nat
    BY <2>1, BoundAssumption DEF Requests
  <2>3. Append(handled[sreq[1]], sreq[2]) \in Seq(Nat)
    BY <2>2, AppendAt DEF Types
  <2>4. handled' \in [Menus -> Seq(Nat)]
    BY <1>3, <2>2, <2>3 DEF SHandle, Types
  <2> QED
    BY <1>3, <2>4 DEF SHandle, Types, menu
<1>4. CASE SAnswer
  <2>1. sreq \in Requests
    BY <1>4 DEF SAnswer, Types
  <2>2. \A m \in Menus : Append(mbox[m], sreq) \in Seq(Requests)
    BY <2>1, AppendAt DEF Types
  <2>3. mbox' \in [Menus -> Seq(Requests)]
    BY <1>4, <2>2 DEF SAnswer, Bound, Types
  <2> QED
    BY <1>4, <2>3, NoneAssumption DEF SAnswer, Types, history
<1>5. CASE SStop
  BY <1>5, NoneAssumption DEF SStop, Types, menu, history
<1> QED
  BY <1>1, <1>2, <1>3, <1>4, <1>5 DEF Server

\* So every step does.
LEMMA TypesStep == Types /\ [Next]_vars => Types'
<1> SUFFICES ASSUME Types, [Next]_vars PROVE Types'
  OBVIOUS
<1>1. CASE UNCHANGED vars
  BY <1>1 DEF vars, menu, server, history, Types
<1> QED
  BY <1>1, MenuKeepsTypes, ServerKeepsTypes DEF Next

\* Every variable keeps its type.
LEMMA TypesCorrect == Spec => []Types
  BY TypesInit, TypesStep, PTL DEF Spec

-----------------------------------------------------------------------------
(* The requests of one menu are numbered as they are asked. What has been   *)
(* handled, what is being handled and what waits in the server's socket are *)
(* in that order: the socket never reorders, and a restart only loses.      *)

OrderInv ==
  /\ HandledOnceInOrder
  /\ \A m \in Menus : \A i \in DOMAIN handled[m] :
       handled[m][i] <= Len(asked[m])
  /\ \A i \in DOMAIN sbox :
       /\ sbox[i][2] <= Len(asked[sbox[i][1]])
       /\ \A j \in DOMAIN handled[sbox[i][1]] :
            handled[sbox[i][1]][j] < sbox[i][2]
  /\ \A i, j \in DOMAIN sbox :
       i < j /\ sbox[i][1] = sbox[j][1] => sbox[i][2] < sbox[j][2]
  /\ spc = "handle" =>
       /\ sreq[2] <= Len(asked[sreq[1]])
       /\ \A j \in DOMAIN handled[sreq[1]] : handled[sreq[1]][j] < sreq[2]
       /\ \A i \in DOMAIN sbox : sbox[i][1] = sreq[1] => sreq[2] < sbox[i][2]

\* What the types say of the numbers.
LEMMA Numbers ==
  ASSUME Types
  PROVE  /\ \A i \in DOMAIN sbox : sbox[i][1] \in Menus /\ sbox[i][2] \in Nat
         /\ \A m \in Menus : \A i \in DOMAIN handled[m] : handled[m][i] \in Nat
         /\ \A m \in Menus : Len(asked[m]) \in Nat
         /\ spc \in {"handle", "answer"} => sreq[1] \in Menus /\ sreq[2] \in Nat
<1>1. \A i \in DOMAIN sbox : sbox[i] \in Requests
  BY ElementOfSeq, LenProperties DEF Types
<1>2. \A m \in Menus : \A i \in DOMAIN handled[m] : handled[m][i] \in Nat
  BY ElementOfSeq, LenProperties DEF Types
<1>3. \A m \in Menus : Len(asked[m]) \in Nat
  BY LenProperties DEF Types
<1>4. \A x \in Requests : x[1] \in Menus /\ x[2] \in Nat
  BY BoundAssumption DEF Requests
<1> QED
  BY <1>1, <1>2, <1>3, <1>4 DEF Types

\* A command given is numbered beyond all that its menu has asked.
LEMMA SendKeepsOrder ==
  ASSUME Types, OrderInv, NEW m \in Menus, NEW cmd \in Commands, Send(m, cmd)
  PROVE  OrderInv'
<1> DEFINE x == Request(m)'
<1>1. /\ \A o \in Menus \ {m} : asked'[o] = asked[o]
      /\ Len(asked'[m]) = Len(asked[m]) + 1
      /\ x \in Requests /\ x[1] = m /\ x[2] = Len(asked[m]) + 1
  BY AskTypes DEF Send
<1>2. UNCHANGED <<spc, sreq, handled>>
  BY DEF Send, history
<1>3. \A o \in Menus : Len(asked[o]) <= Len(asked'[o])
  BY <1>1, Numbers
<1>4. \A i \in DOMAIN sbox : sbox[i][1] = m => sbox[i][2] < x[2]
  BY <1>1, Numbers DEF OrderInv
<1>5. \A i \in DOMAIN handled[m] : handled[m][i] < x[2]
  BY <1>1, Numbers DEF OrderInv
<1>6. spc = "handle" /\ sreq[1] = m => sreq[2] < x[2]
  BY <1>1, Numbers DEF OrderInv
<1> HIDE DEF x
<1>7. CASE sbox' = sbox
  <2>1. \A i \in DOMAIN sbox : sbox[i][2] <= Len(asked'[sbox[i][1]])
    BY <1>3, Numbers, <1>1 DEF OrderInv
  <2>2. \A o \in Menus : \A i \in DOMAIN handled[o] :
          handled[o][i] <= Len(asked'[o])
    BY <1>1, <1>3, Numbers DEF OrderInv
  <2>3. spc = "handle" => sreq[2] <= Len(asked'[sreq[1]])
    BY <1>1, <1>3, Numbers DEF OrderInv
  <2> QED
    BY <1>2, <1>7, <2>1, <2>2, <2>3 DEF OrderInv, HandledOnceInOrder
<1>8. CASE sbox' = Append(sbox, x)
  <2>1. /\ DOMAIN sbox' = (DOMAIN sbox) \union {Len(sbox) + 1}
        /\ DOMAIN sbox = 1 .. Len(sbox) /\ Len(sbox) \in Nat
        /\ \A i \in DOMAIN sbox : sbox'[i] = sbox[i]
        /\ sbox'[Len(sbox) + 1] = x
    BY <1>1, <1>8, AppendAt DEF Types
  <2>2. \A i \in DOMAIN sbox' :
          /\ sbox'[i][2] <= Len(asked'[sbox'[i][1]])
          /\ \A j \in DOMAIN handled[sbox'[i][1]] :
               handled[sbox'[i][1]][j] < sbox'[i][2]
    <3> TAKE i \in DOMAIN sbox'
    <3>1. CASE i \in DOMAIN sbox
      <4>1. sbox'[i] = sbox[i] /\ sbox[i][1] \in Menus /\ sbox[i][2] \in Nat
        BY <2>1, <3>1, Numbers
      <4>2. sbox[i][2] <= Len(asked'[sbox[i][1]])
        BY <1>1, <1>3, <3>1, <4>1, Numbers DEF OrderInv
      <4> QED
        BY <3>1, <4>1, <4>2 DEF OrderInv
    <3>2. CASE i = Len(sbox) + 1
      BY <1>1, <1>5, <2>1, <3>2, Numbers
    <3> QED
      BY <2>1, <3>1, <3>2
  <2>3. \A i, j \in DOMAIN sbox' :
          i < j /\ sbox'[i][1] = sbox'[j][1] => sbox'[i][2] < sbox'[j][2]
    BY <1>1, <1>4, <2>1 DEF OrderInv
  <2>4. \A o \in Menus : \A i \in DOMAIN handled[o] :
          handled[o][i] <= Len(asked'[o])
    BY <1>1, <1>3, Numbers DEF OrderInv
  <2>5. spc = "handle" =>
          /\ sreq[2] <= Len(asked'[sreq[1]])
          /\ \A i \in DOMAIN sbox' :
               sbox'[i][1] = sreq[1] => sreq[2] < sbox'[i][2]
    BY <1>1, <1>3, <1>6, <2>1, Numbers DEF OrderInv
  <2> QED
    BY <1>2, <2>2, <2>3, <2>4, <2>5 DEF OrderInv, HandledOnceInOrder
<1> QED
  BY <1>7, <1>8 DEF Send, x

\* Taking a request from the socket takes the one with the smallest number.
LEMMA ReceiveKeepsOrder ==
  ASSUME Types, OrderInv, SReceive
  PROVE  OrderInv'
<1>1. /\ sbox' = Tail(sbox) /\ sreq' = Head(sbox)
      /\ UNCHANGED <<asked, handled>>
  BY DEF SReceive, menu, history
<1>2. /\ sreq' = sbox[1] /\ 1 \in DOMAIN sbox
      /\ \A i \in DOMAIN sbox' : i + 1 \in DOMAIN sbox /\ sbox'[i] = sbox[i + 1]
      /\ DOMAIN sbox' \subseteq Nat \ {0}
  BY <1>1, TailAt DEF SReceive, Types
<1>3. \A i \in DOMAIN sbox' :
        /\ sbox'[i][2] <= Len(asked[sbox'[i][1]])
        /\ \A j \in DOMAIN handled[sbox'[i][1]] :
             handled[sbox'[i][1]][j] < sbox'[i][2]
  BY <1>2 DEF OrderInv
<1>4. \A i, j \in DOMAIN sbox' :
        i < j /\ sbox'[i][1] = sbox'[j][1] => sbox'[i][2] < sbox'[j][2]
  BY <1>2 DEF OrderInv
<1>5. /\ sreq'[2] <= Len(asked[sreq'[1]])
      /\ \A j \in DOMAIN handled[sreq'[1]] : handled[sreq'[1]][j] < sreq'[2]
      /\ \A i \in DOMAIN sbox' :
           sbox'[i][1] = sreq'[1] => sreq'[2] < sbox'[i][2]
  <2>1. /\ sreq'[2] <= Len(asked[sreq'[1]])
        /\ \A j \in DOMAIN handled[sreq'[1]] : handled[sreq'[1]][j] < sreq'[2]
    BY <1>2 DEF OrderInv
  <2>2. ASSUME NEW i \in DOMAIN sbox', sbox'[i][1] = sreq'[1]
        PROVE  sreq'[2] < sbox'[i][2]
    <3>1. i + 1 \in DOMAIN sbox /\ 1 < i + 1
      BY <1>2
    <3> QED
      BY <1>2, <2>2, <3>1 DEF OrderInv
  <2> QED
    BY <2>1, <2>2
<1> QED
  BY <1>1, <1>3, <1>4, <1>5 DEF OrderInv, HandledOnceInOrder

\* Handling it puts its number behind those handled before.
LEMMA HandleKeepsOrder ==
  ASSUME Types, OrderInv, SHandle
  PROVE  OrderInv'
<1> DEFINE m == sreq[1]
<1>1. /\ m \in Menus /\ sreq[2] \in Nat /\ spc = "handle" /\ spc' = "answer"
      /\ handled' = [handled EXCEPT ![m] = Append(@, sreq[2])]
      /\ UNCHANGED <<asked, sbox, sreq>>
  BY Numbers DEF SHandle, SMove, menu
<1>2. /\ DOMAIN handled'[m] = (DOMAIN handled[m]) \union {Len(handled[m]) + 1}
      /\ DOMAIN handled[m] = 1 .. Len(handled[m]) /\ Len(handled[m]) \in Nat
      /\ \A i \in DOMAIN handled[m] : handled'[m][i] = handled[m][i]
      /\ handled'[m][Len(handled[m]) + 1] = sreq[2]
  BY <1>1, AppendAt DEF Types
<1>3. \A o \in Menus \ {m} : handled'[o] = handled[o]
  BY <1>1 DEF Types
<1>4. HandledOnceInOrder'
  BY <1>1, <1>2, <1>3 DEF OrderInv, HandledOnceInOrder
<1>5. \A o \in Menus : \A i \in DOMAIN handled'[o] :
        handled'[o][i] <= Len(asked[o])
  BY <1>1, <1>2, <1>3 DEF OrderInv
<1>6. \A i \in DOMAIN sbox : \A j \in DOMAIN handled'[sbox[i][1]] :
        handled'[sbox[i][1]][j] < sbox[i][2]
  <2> TAKE i \in DOMAIN sbox
  <2>1. CASE sbox[i][1] = m
    <3>1. sreq[2] < sbox[i][2]
      BY <1>1, <2>1 DEF OrderInv
    <3>2. \A j \in DOMAIN handled[m] : handled[m][j] < sbox[i][2]
      BY <2>1 DEF OrderInv
    <3> QED
      BY <1>2, <2>1, <3>1, <3>2
  <2>2. CASE sbox[i][1] # m
    <3>1. handled'[sbox[i][1]] = handled[sbox[i][1]]
      BY <1>3, <2>2, Numbers
    <3> QED
      BY <3>1 DEF OrderInv
  <2> QED
    BY <2>1, <2>2
<1> QED
  BY <1>1, <1>4, <1>5, <1>6 DEF OrderInv

\* Every other step leaves the order alone or loses requests.
LEMMA OrderStep == Types /\ OrderInv /\ [Next]_vars => OrderInv'
<1> SUFFICES ASSUME Types, OrderInv, [Next]_vars PROVE OrderInv'
  OBVIOUS
<1>1. ASSUME NEW m \in Menus, MStart(m) \/ MReceive(m) \/ MLeave(m)
      PROVE  OrderInv'
  <2>1. UNCHANGED <<asked, spc, sbox, sreq, handled>>
    BY <1>1 DEF MStart, MReceive, MLeave, server, history
  <2> QED
    BY <2>1 DEF OrderInv, HandledOnceInOrder
<1>2. CASE SStart \/ SEnterLoop
  BY <1>2 DEF SStart, SEnterLoop, SMove, menu, history, OrderInv,
     HandledOnceInOrder
<1>3. CASE SAnswer
  BY <1>3 DEF SAnswer, SMove, history, OrderInv, HandledOnceInOrder
<1>4. CASE SStop
  BY <1>4 DEF SStop, menu, history, OrderInv, HandledOnceInOrder
<1>5. CASE UNCHANGED vars
  BY <1>5 DEF vars, menu, server, history, OrderInv, HandledOnceInOrder
<1> QED
  BY <1>1, <1>2, <1>3, <1>4, <1>5, SendsACommand, SendKeepsOrder,
     ReceiveKeepsOrder, HandleKeepsOrder DEF Next, Menu, Server

\* However often menus and server are stopped and started, the server carries
\* out no command twice and none of a menu before an earlier one.
THEOREM HandlesOnceInOrder == Spec => []HandledOnceInOrder
<1>1. Init => OrderInv
  BY DEF Init, OrderInv, HandledOnceInOrder
<1>2. OrderInv => HandledOnceInOrder
  BY DEF OrderInv
<1> QED
  BY <1>1, <1>2, OrderStep, TypesCorrect, PTL DEF Spec

-----------------------------------------------------------------------------
(* An answer is sent only after handle_msg has returned, and what has been  *)
(* handled stays handled: so every answer under way is to a request that    *)
(* was carried out.                                                         *)

Done(x) == x[2] \in Elements(handled[x[1]])

DoneInv ==
  /\ \A m \in Menus : \A i \in DOMAIN mbox[m] : Done(mbox[m][i])
  /\ ShownIsHandled
  /\ spc = "answer" => Done(sreq)

\* Handled requests stay handled.
LEMMA DoneStays ==
  ASSUME Types, [Next]_vars
  PROVE  \A x \in Requests : Done(x) => Done(x)'
<1>1. CASE SHandle
  <2>1. sreq[1] \in Menus /\ sreq[2] \in Nat
    BY <1>1, Numbers DEF SHandle, SMove
  <2>2. Elements(Append(handled[sreq[1]], sreq[2]))
          = Elements(handled[sreq[1]]) \union {sreq[2]}
    <3> DEFINE h == handled[sreq[1]]
               n == sreq[2]
    <3>1. h \in Seq(Nat) /\ n \in Nat
      BY <2>1 DEF Types
    <3> HIDE DEF h, n
    <3>2. Elements(Append(h, n)) = Elements(h) \union {n}
      BY <3>1, AppendElements
    <3> QED
      BY <3>2 DEF h, n
  <2>3. \A m \in Menus : Elements(handled[m]) \subseteq Elements(handled'[m])
    BY <1>1, <2>1, <2>2 DEF SHandle, Types
  <2>4. \A x \in Requests : x[1] \in Menus
    BY DEF Requests
  <2> QED
    BY <2>3, <2>4 DEF Done
<1>2. CASE ~SHandle
  <2>1. handled' = handled
    BY <1>2 DEF Next, Menu, Server, MStart, MSetPort, MStartDaq, MStopDaq, Send,
       MReceive, MLeave, SStart, SEnterLoop, SReceive, SAnswer, SStop, history,
       vars
  <2> QED
    BY <2>1 DEF Done
<1> QED
  BY <1>1, <1>2

\* Handling a request makes it done.
LEMMA DoneOfHandled ==
  ASSUME Types, SHandle
  PROVE  /\ sreq' = sreq /\ spc' = "answer" /\ UNCHANGED <<mbox, shown>>
         /\ sreq[2] \in Elements(handled'[sreq[1]])
<1>1. /\ sreq[1] \in Menus /\ sreq[2] \in Nat
  BY Numbers DEF SHandle, SMove
<1>2. handled'[sreq[1]] = Append(handled[sreq[1]], sreq[2])
  BY <1>1 DEF SHandle, Types
<1>3. sreq[2] \in Elements(handled'[sreq[1]])
  <2> DEFINE h == handled[sreq[1]]
             n == sreq[2]
  <2>1. h \in Seq(Nat) /\ n \in Nat /\ handled'[sreq[1]] = Append(h, n)
    BY <1>1, <1>2 DEF Types
  <2>2. SUFFICES n \in Elements(Append(h, n))
    BY <2>1
  <2> HIDE DEF h, n
  <2>3. Elements(Append(h, n)) = Elements(h) \union {n}
    BY <2>1, AppendElements
  <2> QED
    BY <2>3
<1> QED
  BY <1>3 DEF SHandle, SMove, menu

\* The members of the mailboxes and of the history are requests.
LEMMA Members ==
  ASSUME Types
  PROVE  /\ \A m \in Menus : \A i \in DOMAIN mbox[m] : mbox[m][i] \in Requests
         /\ \A m \in Menus : \A i \in DOMAIN shown[m] : shown[m][i] \in Requests
         /\ \A i \in DOMAIN sbox : sbox[i] \in Requests
<1>1. \A m \in Menus : mbox[m] \in Seq(Requests) /\ shown[m] \in Seq(Requests)
  BY DEF Types
<1>2. \A s \in Seq(Requests) : \A i \in DOMAIN s : s[i] \in Requests
  BY ElementOfSeq, LenProperties
<1> QED
  BY <1>1, <1>2 DEF Types

\* Showing an answer moves it from the socket to the screen.
LEMMA ReceiveMoves ==
  ASSUME Types, NEW m \in Menus, MReceive(m)
  PROVE  /\ mpc[m] = "waiting" /\ mpc' = [mpc EXCEPT ![m] = "menu"]
         /\ UNCHANGED <<asked, spc, sbox, sreq, handled>>
         /\ \A o \in Menus \ {m} : mbox'[o] = mbox[o] /\ shown'[o] = shown[o]
         /\ 1 \in DOMAIN mbox[m]
         /\ \A i \in DOMAIN mbox'[m] :
              i + 1 \in DOMAIN mbox[m] /\ mbox'[m][i] = mbox[m][i + 1]
         /\ DOMAIN mbox'[m] \subseteq Nat \ {0}
         /\ DOMAIN shown'[m] = (DOMAIN shown[m]) \union {Len(shown[m]) + 1}
         /\ DOMAIN shown[m] = 1 .. Len(shown[m]) /\ Len(shown[m]) \in Nat
         /\ Len(shown'[m]) = Len(shown[m]) + 1
         /\ \A i \in DOMAIN shown[m] : shown'[m][i] = shown[m][i]
         /\ shown'[m][Len(shown[m]) + 1] = mbox[m][1]
<1>1. mbox[m] \in Seq(Requests) /\ shown[m] \in Seq(Requests) /\ mbox[m] # <<>>
  BY DEF MReceive, Types
<1>2. /\ mbox'[m] = Tail(mbox[m])
      /\ shown'[m] = Append(shown[m], mbox[m][1])
      /\ mbox[m][1] \in Requests
  BY <1>1, TailAt DEF MReceive, Types
<1>3. \A o \in Menus \ {m} : mbox'[o] = mbox[o] /\ shown'[o] = shown[o]
  BY DEF MReceive, Types
<1>4. UNCHANGED <<asked, spc, sbox, sreq, handled>>
  BY DEF MReceive, server
<1>5. mpc[m] = "waiting" /\ mpc' = [mpc EXCEPT ![m] = "menu"]
  BY DEF MReceive
<1>6. /\ 1 \in DOMAIN mbox[m] /\ DOMAIN mbox'[m] \subseteq Nat \ {0}
      /\ \A i \in DOMAIN mbox'[m] :
           i + 1 \in DOMAIN mbox[m] /\ mbox'[m][i] = mbox[m][i + 1]
  BY <1>1, <1>2, TailAt
<1>7. /\ DOMAIN shown'[m] = (DOMAIN shown[m]) \union {Len(shown[m]) + 1}
      /\ DOMAIN shown[m] = 1 .. Len(shown[m]) /\ Len(shown[m]) \in Nat
      /\ Len(shown'[m]) = Len(shown[m]) + 1
      /\ \A i \in DOMAIN shown[m] : shown'[m][i] = shown[m][i]
      /\ shown'[m][Len(shown[m]) + 1] = mbox[m][1]
  BY <1>1, <1>2, AppendAt
<1> QED
  BY <1>3, <1>4, <1>5, <1>6, <1>7

\* An answer goes to one of the menus that have their socket, or nowhere.
LEMMA AnswerMoves ==
  ASSUME Types, SAnswer
  PROVE  /\ sreq \in Requests /\ sreq' = None /\ spc = "answer" /\ spc' = "loop"
         /\ UNCHANGED <<mpc, asked, sbox, shown, handled>>
         /\ \A m \in Menus :
              \/ mbox'[m] = mbox[m]
              \/ /\ m \in Bound
                 /\ DOMAIN mbox'[m] = (DOMAIN mbox[m]) \union {Len(mbox[m]) + 1}
                 /\ \A i \in DOMAIN mbox[m] : mbox'[m][i] = mbox[m][i]
                 /\ mbox'[m][Len(mbox[m]) + 1] = sreq
<1>1. /\ sreq \in Requests /\ sreq' = None /\ spc = "answer" /\ spc' = "loop"
      /\ UNCHANGED <<mpc, asked, sbox, shown, handled>>
  BY DEF SAnswer, SMove, Types, history
<1>2. CASE UNCHANGED mbox
  BY <1>1, <1>2
<1>3. ASSUME NEW m \in Bound, mbox' = [mbox EXCEPT ![m] = Append(@, sreq)]
      PROVE  \A o \in Menus :
              \/ mbox'[o] = mbox[o]
              \/ /\ o \in Bound
                 /\ DOMAIN mbox'[o] = (DOMAIN mbox[o]) \union {Len(mbox[o]) + 1}
                 /\ \A i \in DOMAIN mbox[o] : mbox'[o][i] = mbox[o][i]
                 /\ mbox'[o][Len(mbox[o]) + 1] = sreq
  <2>1. m \in Menus /\ mbox[m] \in Seq(Requests)
    BY DEF Bound, Types
  <2>2. mbox'[m] = Append(mbox[m], sreq)
    BY <1>3, <2>1 DEF Types
  <2>3. \A o \in Menus \ {m} : mbox'[o] = mbox[o]
    BY <1>3 DEF Types
  <2>4. /\ DOMAIN mbox'[m] = (DOMAIN mbox[m]) \union {Len(mbox[m]) + 1}
        /\ \A i \in DOMAIN mbox[m] : mbox'[m][i] = mbox[m][i]
        /\ mbox'[m][Len(mbox[m]) + 1] = sreq
    BY <1>1, <2>1, <2>2, AppendAt
  <2> QED
    BY <2>3, <2>4
<1> QED
  BY <1>1, <1>2, <1>3 DEF SAnswer

\* Every step keeps it.
LEMMA DoneStep == Types /\ DoneInv /\ [Next]_vars => DoneInv'
<1> SUFFICES ASSUME Types, DoneInv, [Next]_vars PROVE DoneInv'
  OBVIOUS
<1> DEFINE After(x) == x[2] \in Elements(handled'[x[1]])
<1>1. \A x \in Requests : Done(x) => After(x)
  BY DoneStays DEF Done
<1>2. /\ \A m \in Menus : \A i \in DOMAIN mbox[m] : After(mbox[m][i])
      /\ \A m \in Menus : \A i \in DOMAIN shown[m] : After(shown[m][i])
      /\ spc = "answer" => After(sreq)
  BY <1>1, Members DEF DoneInv, ShownIsHandled, Done, Types
<1>3. SUFFICES /\ \A m \in Menus : \A i \in DOMAIN mbox'[m] : After(mbox'[m][i])
               /\ \A m \in Menus : \A i \in DOMAIN shown'[m] : After(shown'[m][i])
               /\ spc' = "answer" => After(sreq')
  BY DEF DoneInv, ShownIsHandled, Done
<1> HIDE DEF After
<1>4. ASSUME NEW m \in Menus, MReceive(m)
      PROVE  /\ \A o \in Menus : \A i \in DOMAIN mbox'[o] : After(mbox'[o][i])
             /\ \A o \in Menus : \A i \in DOMAIN shown'[o] : After(shown'[o][i])
             /\ spc' = "answer" => After(sreq')
  <2>1. \A i \in DOMAIN mbox'[m] : After(mbox'[m][i])
    BY <1>2, <1>4, ReceiveMoves
  <2>2. \A i \in DOMAIN shown'[m] : After(shown'[m][i])
    BY <1>2, <1>4, ReceiveMoves
  <2>3. \A o \in Menus \ {m} : mbox'[o] = mbox[o] /\ shown'[o] = shown[o]
    BY <1>4, ReceiveMoves
  <2>4. UNCHANGED <<spc, sreq>>
    BY <1>4, ReceiveMoves
  <2> QED
    BY <1>2, <2>1, <2>2, <2>3, <2>4
<1>5. ASSUME NEW m \in Menus, MLeave(m)
      PROVE  /\ \A o \in Menus : \A i \in DOMAIN mbox'[o] : After(mbox'[o][i])
             /\ \A o \in Menus : \A i \in DOMAIN shown'[o] : After(shown'[o][i])
             /\ spc' = "answer" => After(sreq')
  <2>1. DOMAIN mbox'[m] = {} /\ \A o \in Menus \ {m} : mbox'[o] = mbox[o]
    BY <1>5 DEF MLeave, Types
  <2> QED
    BY <1>2, <1>5, <2>1 DEF MLeave, server, history
<1>6. ASSUME NEW m \in Menus, MStart(m) \/ \E cmd \in Commands : Send(m, cmd)
      PROVE  UNCHANGED <<mbox, shown, spc, sreq>>
  BY <1>6 DEF MStart, Send, server, history
<1>7. CASE SHandle
  BY <1>2, <1>7, DoneOfHandled DEF After, SHandle, SMove, menu
<1>8. CASE SAnswer
  <2>1. /\ spc' = "loop" /\ shown' = shown
        /\ After(sreq)
    BY <1>2, <1>8, AnswerMoves
  <2>2. \A m \in Menus : \A i \in DOMAIN mbox'[m] : After(mbox'[m][i])
    BY <1>2, <1>8, <2>1, AnswerMoves
  <2> QED
    BY <1>2, <2>1, <2>2
<1>9. CASE SStart \/ SEnterLoop \/ SReceive \/ SStop
  BY <1>2, <1>9 DEF SStart, SEnterLoop, SReceive, SStop, SMove, menu, history
<1>10. CASE UNCHANGED vars
  BY <1>2, <1>10 DEF vars, menu, server, history
<1> QED
  BY <1>2, <1>4, <1>5, <1>6, <1>7, <1>8, <1>9, <1>10, SendsACommand
     DEF Next, Menu, Server

\* Whatever a menu shows, its own answer or another menu's, the server has
\* carried out the command it answers.
THEOREM ShowsWhatWasDone == Spec => []ShownIsHandled
<1>1. Init => DoneInv
  BY DEF Init, DoneInv, ShownIsHandled
<1>2. DoneInv => ShownIsHandled
  BY DEF DoneInv
<1> QED
  BY <1>1, <1>2, DoneStep, TypesCorrect, PTL DEF Spec

-----------------------------------------------------------------------------
(* A menu that has been given no stranger's answer is in step: it has one   *)
(* request under way at most, the one it waits for. So a stranger must come *)
(* before the first slip.                                                   *)

NoStranger(m) == \A i \in DOMAIN shown[m] : shown[m][i][1] = m

\* Of the answers in its socket, the request in recv_buf and those in the
\* server's socket, at most one is the menu's own.
OneInFlight(m) ==
  /\ \A i \in DOMAIN mbox[m] : mbox[m][i][1] = m =>
       /\ \A j \in DOMAIN mbox[m] : mbox[m][j][1] = m => i = j
       /\ sreq # None => sreq[1] # m
       /\ \A j \in DOMAIN sbox : sbox[j][1] # m
  /\ sreq # None /\ sreq[1] = m => \A j \in DOMAIN sbox : sbox[j][1] # m
  /\ \A i, j \in DOMAIN sbox : sbox[i][1] = m /\ sbox[j][1] = m => i = j

\* Those of its own are all members of S.
InFlightIn(m, S) ==
  /\ \A i \in DOMAIN mbox[m] : mbox[m][i][1] = m => mbox[m][i] \in S
  /\ sreq # None /\ sreq[1] = m => sreq \in S
  /\ \A i \in DOMAIN sbox : sbox[i][1] = m => sbox[i] \in S

InStep(m) ==
  /\ OneInFlight(m)
  /\ mpc[m] \in {"off", "menu"} =>
       Len(shown[m]) = Len(asked[m]) /\ InFlightIn(m, {})
  /\ mpc[m] = "waiting" =>
       Len(asked[m]) = Len(shown[m]) + 1 /\ InFlightIn(m, {Request(m)})

\* The history up to the first stranger.
RightSoFar(m) ==
  \A i \in DOMAIN shown[m] : (\A j \in 1 .. i : shown[m][j][1] = m) =>
    i <= Len(asked[m]) /\ shown[m][i] = <<m, i, asked[m][i]>>

Slip(m) == RightSoFar(m) /\ (NoStranger(m) => InStep(m))

\* What the types say of a menu's own history.
LEMMA Histories ==
  ASSUME Types, NEW m \in Menus
  PROVE  /\ DOMAIN shown[m] = 1 .. Len(shown[m]) /\ Len(shown[m]) \in Nat
         /\ DOMAIN asked[m] = 1 .. Len(asked[m]) /\ Len(asked[m]) \in Nat
BY LenProperties DEF Types

\* A command given by menu m is new to all and the only one of m.
LEMMA SendKeepsSlip ==
  ASSUME Types, NEW m \in Menus, NEW cmd \in Commands, Send(m, cmd),
         NEW o \in Menus, Slip(o)
  PROVE  Slip(o)'
<1> DEFINE x == Request(m)'
<1>1. /\ \A p \in Menus \ {m} : asked'[p] = asked[p]
      /\ Len(asked'[m]) = Len(asked[m]) + 1
      /\ \A i \in DOMAIN asked[m] : asked'[m][i] = asked[m][i]
      /\ x \in Requests /\ x[1] = m /\ x[2] = Len(asked[m]) + 1
  BY AskTypes DEF Send
<1>2. UNCHANGED <<mbox, spc, sreq, shown, handled>>
  BY DEF Send, history
<1>3. mpc[m] = "menu" /\ mpc' = [mpc EXCEPT ![m] = "waiting"]
  BY DEF Send, Ask
<1>4. CASE o # m
  <2>1. /\ asked'[o] = asked[o] /\ mpc'[o] = mpc[o]
        /\ Request(o)' = Request(o)
    BY <1>1, <1>3, <1>4 DEF Types, Request
  <2> HIDE DEF x
  <2>2. CASE sbox' = sbox
    BY <1>2, <2>1, <2>2
       DEF Slip, RightSoFar, NoStranger, InStep, OneInFlight, InFlightIn
  <2>3. CASE sbox' = Append(sbox, x)
    <3>1. /\ DOMAIN sbox' = (DOMAIN sbox) \union {Len(sbox) + 1}
          /\ \A i \in DOMAIN sbox : sbox'[i] = sbox[i]
          /\ sbox'[Len(sbox) + 1] = x
      BY <1>1, <2>3, AppendAt DEF Types
    <3>2. \A i \in DOMAIN sbox' : sbox'[i][1] = o =>
            i \in DOMAIN sbox /\ sbox'[i] = sbox[i]
      BY <1>1, <1>4, <3>1
    <3>3. OneInFlight(o) => OneInFlight(o)'
      BY <1>2, <3>2 DEF OneInFlight
    <3>4. /\ InFlightIn(o, {}) => InFlightIn(o, {})'
          /\ InFlightIn(o, {Request(o)}) => InFlightIn(o, {Request(o)})'
      BY <1>2, <2>1, <3>2 DEF InFlightIn
    <3>5. InStep(o) => InStep(o)'
      BY <1>2, <2>1, <3>3, <3>4 DEF InStep
    <3> QED
      BY <1>2, <2>1, <3>5 DEF Slip, RightSoFar, NoStranger
  <2> QED
    BY <2>2, <2>3 DEF Send, x
<1>5. CASE o = m
  <2>1. RightSoFar(m)'
    <3> SUFFICES ASSUME NEW i \in DOMAIN shown[m],
                        \A j \in 1 .. i : shown[m][j][1] = m
                 PROVE  /\ i <= Len(asked'[m])
                        /\ shown[m][i] = <<m, i, asked'[m][i]>>
      BY <1>2 DEF RightSoFar
    <3>1. i <= Len(asked[m]) /\ shown[m][i] = <<m, i, asked[m][i]>>
      BY <1>5 DEF Slip, RightSoFar
    <3>2. i \in DOMAIN asked[m] /\ i \in Nat /\ Len(asked[m]) \in Nat
      BY <3>1, Histories
    <3> QED
      BY <1>1, <3>1, <3>2
  <2>2. ASSUME NoStranger(m)
        PROVE  InStep(m)'
    <3>1. Len(shown[m]) = Len(asked[m]) /\ InFlightIn(m, {})
      BY <1>3, <1>5, <2>2 DEF Slip, InStep
    <3>2. /\ \A i \in DOMAIN mbox'[m] : mbox'[m][i][1] # m
          /\ sreq' # None => sreq'[1] # m
          /\ \A i \in DOMAIN sbox : sbox[i][1] # m
      BY <1>2, <3>1 DEF InFlightIn
    <3>3. \A i, j \in DOMAIN sbox' :
            sbox'[i][1] = m => sbox'[i] = x /\ (sbox'[j][1] = m => i = j)
      <4> HIDE DEF x
      <4>1. CASE sbox' = sbox
        BY <3>2, <4>1
      <4>2. CASE sbox' = Append(sbox, x)
        <5>1. /\ DOMAIN sbox' = (DOMAIN sbox) \union {Len(sbox) + 1}
              /\ \A i \in DOMAIN sbox : sbox'[i] = sbox[i]
              /\ sbox'[Len(sbox) + 1] = x
          BY <1>1, <4>2, AppendAt DEF Types
        <5> QED
          BY <3>2, <5>1
      <4> QED
        BY <4>1, <4>2 DEF Send, x
    <3>4. OneInFlight(m)'
      BY <3>2, <3>3 DEF OneInFlight
    <3>5. InFlightIn(m, {Request(m)})'
      BY <3>2, <3>3 DEF InFlightIn
    <3>6. mpc'[m] = "waiting" /\ Len(asked'[m]) = Len(shown'[m]) + 1
      BY <1>1, <1>2, <1>3, <3>1 DEF Types
    <3> QED
      BY <3>4, <3>5, <3>6 DEF InStep
  <2> QED
    BY <1>2, <1>5, <2>1, <2>2 DEF Slip, NoStranger
<1> QED
  BY <1>4, <1>5

\* The first answer in the socket of a menu in step, if it is its own, is the
\* one it waits for, and none of its own is left anywhere.
LEMMA ReceiveKeepsSlip ==
  ASSUME Types, NEW m \in Menus, MReceive(m), NEW o \in Menus, Slip(o)
  PROVE  Slip(o)'
<1>1. UNCHANGED <<asked, spc, sbox, sreq, handled>>
  BY ReceiveMoves
<1>2. CASE o # m
  <2>1. mbox'[o] = mbox[o] /\ shown'[o] = shown[o] /\ mpc'[o] = mpc[o]
    BY <1>2, ReceiveMoves DEF Types
  <2> QED
    BY <1>1, <2>1 DEF Slip, RightSoFar, NoStranger, InStep, OneInFlight,
       InFlightIn, Request
<1>3. CASE o = m
  <2> DEFINE n == Len(shown[m]) + 1
  <2>1. /\ DOMAIN shown'[m] = (DOMAIN shown[m]) \union {n}
        /\ DOMAIN shown[m] = 1 .. Len(shown[m]) /\ Len(shown[m]) \in Nat
        /\ Len(shown'[m]) = n
        /\ \A i \in DOMAIN shown[m] : shown'[m][i] = shown[m][i]
        /\ shown'[m][n] = mbox[m][1]
    BY ReceiveMoves
  <2>2. ASSUME NoStranger(m)'
        PROVE  /\ NoStranger(m) /\ InStep(m) /\ mbox[m][1] = Request(m)
               /\ n = Len(asked[m])
    <3>1. NoStranger(m) /\ mbox[m][1][1] = m
      BY <2>1, <2>2 DEF NoStranger
    <3>2. InStep(m)
      BY <1>3, <3>1 DEF Slip
    <3> QED
      BY <3>1, <3>2, ReceiveMoves DEF InStep, InFlightIn
  <2>3. RightSoFar(m)'
    <3> SUFFICES ASSUME NEW i \in DOMAIN shown'[m],
                        \A j \in 1 .. i : shown'[m][j][1] = m
                 PROVE  /\ i <= Len(asked[m])
                        /\ shown'[m][i] = <<m, i, asked[m][i]>>
      BY <1>1 DEF RightSoFar
    <3>1. CASE i \in DOMAIN shown[m]
      <4>1. \A j \in 1 .. i : shown[m][j][1] = m
        BY <2>1, <3>1
      <4> QED
        BY <1>3, <2>1, <3>1, <4>1 DEF Slip, RightSoFar
    <3>2. CASE i = n
      <4>1. NoStranger(m)'
        BY <2>1, <3>2 DEF NoStranger
      <4> QED
        BY <2>1, <2>2, <3>2, <4>1, Histories DEF Request
    <3> QED
      BY <2>1, <3>1, <3>2
  <2>4. ASSUME NoStranger(m)'
        PROVE  InStep(m)'
    <3>1. /\ OneInFlight(m) /\ mbox[m][1][1] = m /\ n = Len(asked[m])
      BY <2>2, <2>4 DEF InStep, Request
    <3>2. /\ \A i \in DOMAIN mbox[m] : mbox[m][i][1] = m => i = 1
          /\ sreq # None => sreq[1] # m
          /\ \A j \in DOMAIN sbox : sbox[j][1] # m
      BY <3>1, ReceiveMoves DEF OneInFlight
    <3>3. \A i \in DOMAIN mbox'[m] : mbox'[m][i][1] # m
      <4> TAKE i \in DOMAIN mbox'[m]
      <4>1. i + 1 \in DOMAIN mbox[m] /\ mbox'[m][i] = mbox[m][i + 1] /\ i + 1 # 1
        BY ReceiveMoves
      <4> QED
        BY <3>2, <4>1
    <3>4. OneInFlight(m)' /\ InFlightIn(m, {})'
      BY <1>1, <3>2, <3>3 DEF OneInFlight, InFlightIn
    <3>5. mpc'[m] = "menu" /\ Len(shown'[m]) = Len(asked'[m])
      BY <1>1, <2>1, <3>1, ReceiveMoves DEF Types
    <3> QED
      BY <3>4, <3>5 DEF InStep
  <2> QED
    BY <1>3, <2>3, <2>4 DEF Slip
<1> QED
  BY <1>2, <1>3

\* The server takes a request from its socket into recv_buf.
LEMMA TakeKeepsSlip ==
  ASSUME Types, SReceive, NEW o \in Menus, Slip(o)
  PROVE  Slip(o)'
<1>1. /\ sreq = None /\ sreq' = sbox[1] /\ 1 \in DOMAIN sbox
      /\ \A i \in DOMAIN sbox' :
           i + 1 \in DOMAIN sbox /\ sbox'[i] = sbox[i + 1] /\ i + 1 # 1
      /\ DOMAIN sbox' \subseteq Nat
  BY TailAt DEF SReceive, SMove, Types
<1>2. UNCHANGED <<mpc, asked, mbox, shown, handled>>
  BY DEF SReceive, menu, history
<1>3. OneInFlight(o) => OneInFlight(o)'
  <2> SUFFICES ASSUME OneInFlight(o) PROVE OneInFlight(o)'
    OBVIOUS
  <2>1. \A i \in DOMAIN mbox[o] : mbox[o][i][1] = o =>
          /\ \A j \in DOMAIN mbox[o] : mbox[o][j][1] = o => i = j
          /\ sreq'[1] # o
          /\ \A j \in DOMAIN sbox' : sbox'[j][1] # o
    BY <1>1 DEF OneInFlight
  <2>2. sreq'[1] = o => \A j \in DOMAIN sbox' : sbox'[j][1] # o
    <3> SUFFICES ASSUME sreq'[1] = o, NEW j \in DOMAIN sbox', sbox'[j][1] = o
                 PROVE  FALSE
      OBVIOUS
    <3>1. j + 1 \in DOMAIN sbox /\ sbox[j + 1][1] = o /\ j + 1 # 1
      BY <1>1
    <3> QED
      BY <1>1, <3>1 DEF OneInFlight
  <2>3. \A i, j \in DOMAIN sbox' :
          sbox'[i][1] = o /\ sbox'[j][1] = o => i = j
    <3> TAKE i, j \in DOMAIN sbox'
    <3>1. /\ i + 1 \in DOMAIN sbox /\ sbox'[i] = sbox[i + 1] /\ i \in Nat
          /\ j + 1 \in DOMAIN sbox /\ sbox'[j] = sbox[j + 1] /\ j \in Nat
      BY <1>1
    <3> QED
      BY <3>1 DEF OneInFlight
  <2> QED
    BY <1>2, <2>1, <2>2, <2>3 DEF OneInFlight
<1>4. /\ InFlightIn(o, {}) => InFlightIn(o, {})'
      /\ InFlightIn(o, {Request(o)}) => InFlightIn(o, {Request(o)})'
  BY <1>1, <1>2 DEF InFlightIn, Request
<1> QED
  BY <1>2, <1>3, <1>4 DEF Slip, RightSoFar, NoStranger, InStep

\* The server's answer leaves recv_buf for the socket of some menu.
LEMMA AnswerKeepsSlip ==
  ASSUME Types, SAnswer, NEW o \in Menus, Slip(o)
  PROVE  Slip(o)'
<1>1. /\ sreq \in Requests /\ sreq' = None
      /\ UNCHANGED <<mpc, asked, sbox, shown, handled>>
  BY AnswerMoves
<1>2. sreq # None
  BY <1>1, NoneAssumption
<1>3. CASE mbox'[o] = mbox[o]
  BY <1>1, <1>3 DEF Slip, RightSoFar, NoStranger, InStep, OneInFlight,
     InFlightIn, Request
<1>4. CASE /\ DOMAIN mbox'[o] = (DOMAIN mbox[o]) \union {Len(mbox[o]) + 1}
           /\ \A i \in DOMAIN mbox[o] : mbox'[o][i] = mbox[o][i]
           /\ mbox'[o][Len(mbox[o]) + 1] = sreq
  <2>1. OneInFlight(o) => OneInFlight(o)'
    <3> SUFFICES ASSUME OneInFlight(o) PROVE OneInFlight(o)'
      OBVIOUS
    <3>1. ASSUME NEW i \in DOMAIN mbox'[o], mbox'[o][i][1] = o
          PROVE  /\ \A j \in DOMAIN mbox'[o] : mbox'[o][j][1] = o => i = j
                 /\ \A j \in DOMAIN sbox : sbox[j][1] # o
      BY <1>2, <1>4, <3>1 DEF OneInFlight
    <3> QED
      BY <1>1, <3>1 DEF OneInFlight
  <2>2. /\ InFlightIn(o, {}) => InFlightIn(o, {})'
        /\ InFlightIn(o, {Request(o)}) => InFlightIn(o, {Request(o)})'
    BY <1>1, <1>2, <1>4 DEF InFlightIn, Request
  <2> QED
    BY <1>1, <2>1, <2>2 DEF Slip, RightSoFar, NoStranger, InStep
<1> QED
  BY <1>3, <1>4, AnswerMoves

\* Leaving empties the socket of the menu that leaves.
LEMMA LeaveKeepsSlip ==
  ASSUME Types, NEW m \in Menus, MLeave(m), NEW o \in Menus, Slip(o)
  PROVE  Slip(o)'
<1>1. /\ mpc' = [mpc EXCEPT ![m] = "gone"] /\ mbox' = [mbox EXCEPT ![m] = <<>>]
      /\ UNCHANGED <<asked, spc, sbox, sreq, shown, handled>>
  BY DEF MLeave, server, history
<1>2. CASE o # m
  <2>1. mpc'[o] = mpc[o] /\ mbox'[o] = mbox[o]
    BY <1>1, <1>2 DEF Types
  <2> QED
    BY <1>1, <2>1 DEF Slip, RightSoFar, NoStranger, InStep, OneInFlight,
       InFlightIn, Request
<1>3. CASE o = m
  <2>1. mpc'[o] = "gone" /\ DOMAIN mbox'[o] = {}
    BY <1>1, <1>3 DEF Types
  <2> QED
    BY <1>1, <2>1 DEF Slip, RightSoFar, NoStranger, InStep, OneInFlight
<1> QED
  BY <1>2, <1>3

\* Every step keeps every menu in step.
LEMMA SlipStep ==
  ASSUME Types, [Next]_vars, NEW o \in Menus, Slip(o)
  PROVE  Slip(o)'
<1> USE DEF Slip, RightSoFar, NoStranger, InStep, OneInFlight, InFlightIn,
            Request
<1>1. ASSUME NEW m \in Menus, MStart(m)
      PROVE  Slip(o)'
  <2>1. /\ mpc[m] = "off" /\ mpc'[m] = "menu"
        /\ o # m => mpc'[o] = mpc[o]
    BY <1>1 DEF MStart, Types
  <2> QED
    BY <1>1, <2>1 DEF MStart, server, history
<1>2. CASE SStart \/ SEnterLoop
  BY <1>2 DEF SStart, SEnterLoop, menu, history
<1>3. CASE SHandle
  BY <1>3 DEF SHandle, menu
<1>4. CASE SStop
  BY <1>4 DEF SStop, menu, history
<1>5. CASE UNCHANGED vars
  BY <1>5 DEF vars, menu, server, history
<1> QED
  BY <1>1, <1>2, <1>3, <1>4, <1>5, SendsACommand, SendKeepsSlip,
     ReceiveKeepsSlip, TakeKeepsSlip, AnswerKeepsSlip, LeaveKeepsSlip
     DEF Next, Menu, Server

\* A menu shows the answer to another command than the one it has just given
\* only after it has been given an answer meant for another menu, although
\* nothing relates answers to requests and neither waits for the other to be
\* there (menu.c, ReceiveUDPData without a timeout).
THEOREM SlipsNeedAStranger == Spec => []SlipsStartWithAStranger
<1> DEFINE SlipInv == \A m \in Menus : Slip(m)
<1>1. Init => SlipInv
  <2> SUFFICES ASSUME Init, NEW m \in Menus PROVE Slip(m)
    OBVIOUS
  <2>1. /\ mpc[m] = "off" /\ shown[m] = <<>> /\ asked[m] = <<>>
        /\ mbox[m] = <<>> /\ sbox = <<>> /\ sreq = None
    BY DEF Init
  <2> QED
    BY <2>1 DEF Slip, RightSoFar, NoStranger, InStep, OneInFlight, InFlightIn
<1>2. Types /\ SlipInv /\ [Next]_vars => SlipInv'
  BY SlipStep
<1>3. Types /\ SlipInv => SlipsStartWithAStranger
  BY DEF Slip, RightSoFar, SlipsStartWithAStranger
<1> QED
  BY <1>1, <1>2, <1>3, TypesCorrect, PTL DEF Spec
=============================================================================
