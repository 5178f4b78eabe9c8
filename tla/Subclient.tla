----------------------------- MODULE Subclient -----------------------------
(***************************************************************************)
(* The data a StdSubclient works on, by the kind of script at the other end *)
(* of its stream: adaptiveperf-process.py sends samples only (FlameGraph), *)
(* adaptiveperf-syscall-process.py thread events only (ThreadTree).  How   *)
(* the stream is accepted, read and ended is in module Client.             *)
(***************************************************************************)
EXTENDS FlameGraph, ThreadTree

VARIABLE script \* which script writes to the stream

SubclientInit ==
  /\ script \in {"process", "syscall-process"}
  /\ FlameInit
  /\ TreeInit

HandleSample ==
  /\ script = "process"
  /\ FlameNext
  /\ UNCHANGED <<script, treeVars>>

HandleThreadEvent ==
  /\ script = "syscall-process"
  /\ TreeNext
  /\ UNCHANGED <<script, flameVars>>

SubclientNext == HandleSample \/ HandleThreadEvent

SubclientSpec == SubclientInit /\ [][SubclientNext]_<<script, flameVars, treeVars>>
=============================================================================
