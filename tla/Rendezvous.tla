----------------------------- MODULE Rendezvous -----------------------------
(***************************************************************************)
(* What StdClient promises about the start of profiling, without threads,  *)
(* locks or messages: the gate that lets the profiled command run opens    *)
(* once, and only after every party (every subclient) has arrived, that    *)
(* is, holds a connection with the profiler that will feed it.             *)
(***************************************************************************)
CONSTANT Parties

VARIABLES arrived, open

gateVars == <<arrived, open>>

GateInit == arrived = {} /\ open = FALSE

Arrive(p) ==
  /\ p \notin arrived
  /\ arrived' = arrived \cup {p}
  /\ UNCHANGED open

Open ==
  /\ ~open
  /\ arrived = Parties
  /\ open' = TRUE
  /\ UNCHANGED arrived

GateNext == Open \/ \E p \in Parties : Arrive(p)

GateSpec == GateInit /\ [][GateNext]_gateVars
=============================================================================
