------------------------------ MODULE Settings ------------------------------
(***************************************************************************)
(* What the configuration file promises: a value for each key, replaced in *)
(* one indivisible step between the request to store it and the answer,    *)
(* and never touched otherwise.  A crash may leave the settings where      *)
(* nobody will look for them; then, and only then, they are lost at once.  *)
(***************************************************************************)
CONSTANTS Writers, Keys, Values, Absent

VARIABLES
  value,     \* what the file says of each key
  request,   \* the request each writer is busy with, <<>> if none
  applied,   \* whether it has been stored
  orphan     \* a crash has left them where nobody will look

vars == <<value, request, applied, orphan>>

Init ==
  /\ value \in [Keys -> Values \union {Absent}]
  /\ request = [w \in Writers |-> <<>>]
  /\ applied = [w \in Writers |-> FALSE]
  /\ orphan = FALSE

Ask(w) ==
  /\ request[w] = <<>>
  /\ \E k \in Keys, v \in Values : request' = [request EXCEPT ![w] = <<k, v>>]
  /\ applied' = [applied EXCEPT ![w] = FALSE]
  /\ UNCHANGED <<value, orphan>>

Apply(w) ==
  /\ request[w] # <<>> /\ ~applied[w]
  /\ value' = [value EXCEPT ![request[w][1]] = request[w][2]]
  /\ applied' = [applied EXCEPT ![w] = TRUE]
  /\ UNCHANGED <<request, orphan>>

Answer(w) ==
  /\ request[w] # <<>>
  /\ request' = [request EXCEPT ![w] = <<>>]
  /\ applied' = [applied EXCEPT ![w] = FALSE]
  /\ UNCHANGED <<value, orphan>>

Crash ==
  /\ orphan' \in {orphan, TRUE}
  /\ request' = [w \in Writers |-> <<>>]
  /\ applied' = [w \in Writers |-> FALSE]
  /\ UNCHANGED value

Lose ==
  /\ orphan /\ orphan' = FALSE
  /\ value' = [k \in Keys |-> Absent]
  /\ UNCHANGED <<request, applied>>

Next == (\E w \in Writers : Ask(w) \/ Apply(w) \/ Answer(w)) \/ Crash \/ Lose

Spec == Init /\ [][Next]_vars
=============================================================================
