---------------------------- MODULE BoundedQueue ----------------------------
(***************************************************************************)
(* What the acquisition path promises its two ends: packets come out in    *)
(* the order in which they went in, each of them once, and at most         *)
(* Capacity of them are ever waiting.  The driver's ring (CardDriver), and *)
(* the card together with the ring between the two threads of daq_function *)
(* (AcquisitionPath), are both shown to implement this specification.      *)
(***************************************************************************)
EXTENDS Naturals, Sequences

CONSTANTS
  Capacity,   \* how many packets may wait
  Users,      \* the clients that may take packets
  Packets,    \* what a packet may hold
  Nothing     \* what a client holds before its first packet

VARIABLES
  q,          \* the waiting packets, oldest first
  out,        \* the last packet each client took
  attached    \* the clients connected to the queue

vars == <<q, out, attached>>

Init ==
  /\ q = <<>>
  /\ out = [u \in Users |-> Nothing]
  /\ attached \in SUBSET Users

Put(p) ==
  /\ Len(q) < Capacity
  /\ q' = Append(q, p)
  /\ UNCHANGED <<out, attached>>

Take(u) ==
  /\ u \in attached
  /\ q # <<>>
  /\ out' = [out EXCEPT ![u] = Head(q)]
  /\ q' = Tail(q)
  /\ UNCHANGED attached

Attach(u) == attached' = attached \union {u} /\ UNCHANGED <<q, out>>
Detach(u) == attached' = attached \ {u}      /\ UNCHANGED <<q, out>>

\* Waiting packets are lost only when nobody is attached to the queue.
Clear ==
  /\ attached = {}
  /\ q' = <<>>
  /\ UNCHANGED <<out, attached>>

Next ==
  \/ \E p \in Packets : Put(p)
  \/ \E u \in Users : Take(u) \/ Attach(u) \/ Detach(u)
  \/ Clear

Spec == Init /\ [][Next]_vars
=============================================================================
