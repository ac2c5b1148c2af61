--------------------------- MODULE MCConfigServer ---------------------------
(* Bounded instances of ConfigServer; the constants are given in the .cfg.  *)
EXTENDS ConfigServer

\* Nothing tells connections apart before they are opened. In place of TLC's
\* symmetry, which is not sound for liveness, they are numbers and are accepted
\* in their order. Every behaviour of FairSpec is one of these with its
\* connections renamed.
Waiting(c) == cst[c] \in {"unused", "pending"}

InOrder == \A c, d \in Conns : c < d /\ Waiting(c)' => Waiting(d)'

OrderedFairSpec == Init /\ [][Next /\ InOrder]_vars /\ Fairness
=============================================================================
