------------------------------ MODULE MCClient ------------------------------
(* Instances of Client for TLC.  Threads and events are only compared. *)
EXTENDS Client, TLC

DataSymmetry == Permutations(Tids) \cup Permutations(Events)
=============================================================================
