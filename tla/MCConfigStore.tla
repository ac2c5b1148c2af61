--------------------------- MODULE MCConfigStore ---------------------------
(* Bounded instances of ConfigStore; the other constants are in the .cfg.   *)
EXTENDS ConfigStore, TLC

CONSTANTS short, other, long, daq, daq_port

\* Two ports with as many digits, and a longer one.
MCWidth == (short :> 1) @@ (other :> 1) @@ (long :> 2)

\* The menu lets 65536 through, and a host any number at all.
MCNumber == (short :> 20001) @@ (other :> 65536) @@ (long :> 100001)
              @@ (Absent :> -1)

\* daq_function looks up the second port.
MCKeyOf == [p \in Programs |-> daq_port]
=============================================================================
