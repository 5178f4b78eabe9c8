---------------------------- MODULE MCSubclient ----------------------------
(* Instances of LineReader and Subclient for TLC: what becomes of a stream,  *)
(* either from its bytes to its lines or from its lines to the results.     *)
EXTENDS Subclient, LineReader

VARIABLE level \* "bytes" or "lines"

(* No frame, one frame, and a frame that continues it. *)
MCChains == {<<>>, <<"f">>, <<"f", "g">>}

StreamInit ==
  /\ Init /\ SubclientInit
  /\ level \in {"bytes", "lines"}
  /\ level = "bytes" => script = "process"

ReadBytes ==
  /\ level = "bytes"
  /\ Next
  /\ UNCHANGED <<level, script, flameVars, treeVars>>

HandleLines ==
  /\ level = "lines"
  /\ SubclientNext
  /\ UNCHANGED <<level, vars>>

StreamSpec ==
  StreamInit /\ [][ReadBytes \/ HandleLines]_<<level, vars, script, flameVars, treeVars>>
=============================================================================
