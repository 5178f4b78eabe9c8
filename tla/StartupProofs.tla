---------------------------- MODULE StartupProofs ----------------------------
(***************************************************************************)
(* Theorems about module Startup, for any number of profilers, binaries and *)
(* cores.                                                                  *)
(***************************************************************************)
EXTENDS Startup, FiniteSetTheorems, WellFoundedInduction, TLAPS

-----------------------------------------------------------------------------
(* The cores.                                                               *)

MachineTypeOK ==
  /\ num_proc \in Nat /\ post_process \in Nat /\ external \in BOOLEAN
  /\ startup_pc \in {"cores", "check", "run", "refused"}

CoreInv == startup_pc \in {"check", "run"} => cpu_config = CPUConfig(Mask(num_proc, post_process, external)) /\ cpu_config.valid

LEMMA CoreInvariance == StartupSpec => [](MachineTypeOK /\ CoreInv)
<1>1. StartupInit => MachineTypeOK /\ CoreInv
  BY MaxCoresAssumption DEF StartupInit, MachineTypeOK, CoreInv
<1>2. MachineTypeOK /\ CoreInv /\ [StartupNext]_<<startupVars, childVars>>
        => (MachineTypeOK /\ CoreInv)'
  <2> SUFFICES ASSUME MachineTypeOK, CoreInv, [StartupNext]_<<startupVars, childVars>>
               PROVE  (MachineTypeOK /\ CoreInv)'
    OBVIOUS
  <2>1. CASE GetCpuConfig
    BY <2>1 DEF GetCpuConfig, MachineTypeOK, CoreInv, machineVars
  <2>2. CASE CheckRequirement
    BY <2>2 DEF CheckRequirement, MachineTypeOK, CoreInv, machineVars
  <2>3. CASE UNCHANGED <<machineVars, startup_pc, cpu_config>>
    BY <2>3 DEF MachineTypeOK, CoreInv, machineVars
  <2> QED
    BY <2>1, <2>2, <2>3 DEF StartupNext, StartupRuns, FrontendStarts, FrontendEnds, Run,
       ObtainInstructions, GetInstructions, startupVars, machineVars
<1> QED BY <1>1, <1>2, PTL DEF StartupSpec

(* From four cores on, the first two are left to the system.               *)
LEMMA CoresOfMask ==
  ASSUME NEW n \in Nat, NEW p \in Nat, NEW ext \in BOOLEAN,
         CPUConfig(Mask(n, p, ext)).valid
  PROVE  LET c == CPUConfig(Mask(n, p, ext))
         IN  IF p = 0
             THEN n > 0 /\ c.profiler = 1..n /\ c.command = 1..n
             ELSE n > 3 /\ p <= n - 3 /\ c.profiler = 3..(2 + p) /\ c.command = (3 + p)..n
<1> DEFINE mask == [k \in 1..n |-> IF k <= 2 THEN " " ELSE IF k <= 2 + p THEN "p" ELSE "c"]
           both == [k \in 1..n |-> "b"]
<1>1. n = 0 => Mask(n, p, ext) = <<>>
  BY DEF Mask
<1>2. n > 0 /\ p = 0 => Mask(n, p, ext) = both
  BY DEF Mask
<1>3. n > 0 /\ p > 0 /\ TooMany(n, p) => Mask(n, p, ext) = <<>>
  BY DEF Mask
<1>4. n > 0 /\ p > 0 /\ ~TooMany(n, p) => n > 3 /\ p <= n - 3
  BY DEF TooMany
<1>9. n > 3 /\ p > 0 => n # 0 /\ n # 1 /\ n # 2 /\ n # 3 /\ p # 0 /\ n > 0 /\ p > 0
  OBVIOUS
<1>5. n > 3 /\ p > 0 /\ ~TooMany(n, p) => Mask(n, p, ext) = mask
  BY Zenon, <1>9 DEF Mask
<1>6. Mask(n, p, ext) # <<>>
  BY DEF CPUConfig
<1>7. CASE n > 0 /\ p = 0
  <2>1. {k \in DOMAIN both : both[k] \in {"p", "b"}} = 1..n
    OBVIOUS
  <2>2. {k \in DOMAIN both : both[k] \in {"c", "b"}} = 1..n
    OBVIOUS
  <2> QED BY <1>2, <1>7, <2>1, <2>2 DEF CPUConfig
<1>8. CASE n > 3 /\ p > 0 /\ ~TooMany(n, p)
  <2>0. n > 3 /\ p <= n - 3
    BY <1>4, <1>8
  <2>1. ASSUME NEW k \in 1..n PROVE mask[k] \in {"p", "b"} <=> k \in 3..(2 + p)
    BY <2>0
  <2>2. ASSUME NEW k \in 1..n PROVE mask[k] \in {"c", "b"} <=> k \in (3 + p)..n
    BY <2>0
  <2>3. DOMAIN mask = 1..n /\ 3..(2 + p) \subseteq 1..n /\ (3 + p)..n \subseteq 1..n
    BY <2>0
  <2> HIDE DEF mask
  <2>4. {k \in DOMAIN mask : mask[k] \in {"p", "b"}} = 3..(2 + p)
    BY <2>1, <2>3, Zenon
  <2>5. {k \in DOMAIN mask : mask[k] \in {"c", "b"}} = (3 + p)..n
    BY <2>2, <2>3, Zenon
  <2> QED BY <1>5, <1>8, <2>0, <2>4, <2>5 DEF CPUConfig
<1> QED BY <1>1, <1>3, <1>4, <1>6, <1>7, <1>8

(* CoresFit, on any machine with any -p: neither the profilers nor the      *)
(* command are left without a core, and each has its own.                  *)
THEOREM CoresFitTheorem == StartupSpec => []CoresFit
<1>1. MachineTypeOK /\ CoreInv => CoresFit
  <2> SUFFICES ASSUME MachineTypeOK, CoreInv, startup_pc \in {"check", "run"}
               PROVE  CoresFit
    BY DEF CoresFit
  <2>1. IF post_process = 0
        THEN num_proc > 0 /\ cpu_config.profiler = 1..num_proc /\ cpu_config.command = 1..num_proc
        ELSE /\ num_proc > 3 /\ post_process <= num_proc - 3
             /\ cpu_config.profiler = 3..(2 + post_process)
             /\ cpu_config.command = (3 + post_process)..num_proc
    BY CoresOfMask DEF MachineTypeOK, CoreInv
  <2>2. Cardinality(3..(2 + post_process)) = post_process
    BY FS_Interval DEF MachineTypeOK
  <2>3. post_process # 0 => cpu_config.profiler \cap cpu_config.command = {}
    BY <2>1 DEF MachineTypeOK
  <2>4. post_process # 0 => cpu_config.profiler # {} /\ cpu_config.command # {}
    <3>1. post_process # 0 => 3 \in cpu_config.profiler /\ num_proc \in cpu_config.command
      BY <2>1 DEF MachineTypeOK
    <3> QED BY <3>1
  <2>5. cpu_config.profiler \cup cpu_config.command \subseteq 1..num_proc
    BY <2>1 DEF MachineTypeOK
  <2>6. post_process # 0 => Cardinality(cpu_config.profiler) = post_process
    BY <2>1, <2>2
  <2>7. post_process = 0 => /\ cpu_config.profiler # {} /\ cpu_config.command # {}
                           /\ cpu_config.profiler \cap cpu_config.command = 1..num_proc
    <3>1. post_process = 0 => 1 \in cpu_config.profiler /\ 1 \in cpu_config.command
      BY <2>1 DEF MachineTypeOK
    <3> QED BY <2>1, <3>1
  <2> QED BY <2>3, <2>4, <2>5, <2>6, <2>7 DEF CoresFit
<1> QED BY <1>1, CoreInvariance, PTL

-----------------------------------------------------------------------------
(* The requirements.                                                        *)

NothingStarted == \A c \in Kids : proc[c] = "absent"

(* Earlier requirements of the profiler at hand hold, and so do those whose *)
(* answer is kept, whichever profiler asked for it.                        *)
CheckInv ==
  /\ satisfied \subseteq ReqTypes
  /\ startup_pc # "run" => NothingStarted
  /\ j \in 1..3
  /\ \A r \in DOMAIN already_checked : already_checked[r] => r \in satisfied
  /\ \A k \in 1..3 : k < j => Requirements[k] \in satisfied
  /\ startup_pc = "run" => satisfied = ReqTypes

LEMMA ThreeRequirements ==
  /\ EveryRequirement = 3
  /\ \A k \in 1..3 : Requirements[k] \in ReqTypes
  /\ ReqTypes = {Requirements[1], Requirements[2], Requirements[3]}
BY DEF EveryRequirement, Requirements, ReqTypes

LEMMA CheckStep ==
  ASSUME CheckInv, CheckRequirement
  PROVE  CheckInv'
<1> DEFINE req == Requirements[j]
<1>1. already_checked'[req] => req \in satisfied
  BY DEF CheckRequirement, Check, CheckInv
<1>2. \A r \in DOMAIN already_checked' : already_checked'[r] => r \in satisfied
  BY DEF CheckRequirement, Check, CheckInv
<1>3. j \in 1..3 /\ EveryRequirement = 3
  BY ThreeRequirements DEF CheckInv
<1>4. UNCHANGED <<satisfied, proc>> /\ startup_pc = "check"
  BY DEF CheckRequirement, machineVars, childVars
<1>5. CASE ~already_checked'[req]
  <2>1. startup_pc' = "refused" /\ j' = j
    BY <1>5 DEF CheckRequirement
  <2> QED BY <1>2, <1>4, <2>1 DEF CheckInv, NothingStarted
<1>6. CASE already_checked'[req] /\ j < EveryRequirement
  <2>1. startup_pc' = startup_pc /\ j' = j + 1
    BY <1>6 DEF CheckRequirement
  <2> QED BY <1>1, <1>2, <1>3, <1>4, <1>6, <2>1 DEF CheckInv, NothingStarted
<1>7. CASE already_checked'[req] /\ ~(j < EveryRequirement) /\ i < ProfilerCnt
  <2>1. startup_pc' = startup_pc /\ j' = 1
    BY <1>7 DEF CheckRequirement
  <2> QED BY <1>2, <1>4, <2>1 DEF CheckInv, NothingStarted
<1>8. CASE already_checked'[req] /\ ~(j < EveryRequirement) /\ ~(i < ProfilerCnt)
  <2>1. startup_pc' = "run" /\ j' = j
    BY <1>8 DEF CheckRequirement
  <2>2. j = 3
    BY <1>3, <1>8
  <2>3. Requirements[1] \in satisfied /\ Requirements[2] \in satisfied /\ Requirements[3] \in satisfied
    BY <1>1, <1>8, <2>2 DEF CheckInv
  <2>4. satisfied = ReqTypes
    BY <2>3, ThreeRequirements DEF CheckInv
  <2> QED BY <1>2, <1>4, <2>1, <2>4 DEF CheckInv
<1> QED BY <1>5, <1>6, <1>7, <1>8

(* NothingStartedUnfit, for any number of profilers and requirements that   *)
(* hold or not: an answer kept from one profiler is never mistaken.        *)
THEOREM NothingStartedUnfitTheorem == StartupSpec => []NothingStartedUnfit
<1>1. StartupInit => CheckInv
  BY DEF StartupInit, Init, CheckInv, NothingStarted
<1>2. CheckInv /\ [StartupNext]_<<startupVars, childVars>> => CheckInv'
  <2> SUFFICES ASSUME CheckInv, [StartupNext]_<<startupVars, childVars>>
               PROVE  CheckInv'
    OBVIOUS
  <2>1. CASE GetCpuConfig
    BY <2>1 DEF GetCpuConfig, CheckInv, NothingStarted, machineVars, checkVars, childVars
  <2>2. CASE CheckRequirement
    BY <2>2, CheckStep
  <2>3. CASE startup_pc = "run" /\ UNCHANGED <<satisfied, startup_pc, j, already_checked>>
    BY <2>3 DEF CheckInv
  <2>4. CASE UNCHANGED <<startupVars, childVars>>
    BY <2>4 DEF CheckInv, NothingStarted, startupVars, machineVars, checkVars, childVars
  <2> QED
    BY <2>1, <2>2, <2>3, <2>4 DEF StartupNext, StartupRuns, FrontendStarts, FrontendEnds, Run,
       ObtainInstructions, GetInstructions, startupVars, machineVars, checkVars
<1>3. MachineTypeOK /\ CoreInv /\ CheckInv => NothingStartedUnfit
  BY DEF MachineTypeOK, CoreInv, CheckInv, NothingStarted, NothingStartedUnfit
<1> QED BY <1>1, <1>2, <1>3, CoreInvariance, PTL DEF StartupSpec

-----------------------------------------------------------------------------
(* perf-script's pipe.                                                      *)

(* No perf-record is there ahead of the loop over the profilers.            *)
Ahead(p) == proc[Record(p)] = "absent"
Behind(p) == proc[Record(p)] \notin {"absent", "piped"}

LoopInv ==
  /\ fp \in Profilers
  /\ fpc \in {"wrapper", "server", "script"} => \A p \in Profilers : p >= fp => Ahead(p)
  /\ fpc \in {"record", "accept"} => \A p \in Profilers : p > fp => Ahead(p)
  /\ fpc = "record" => ~Behind(fp)

(* The write end of the pipe is with the frontend while it starts this very *)
(* profiler, and never with a child other than its perf-record.            *)
PipeInv ==
  \A p \in Profilers :
    /\ holders[Stdin(Script(p))] \subseteq {Frontend, Record(p)}
    /\ Frontend \in holders[Stdin(Script(p))] =>
         fp = p /\ fpc \in {"script", "record"} /\ ~Behind(p)
    /\ proc[Script(p)] = "absent" => holders[Stdin(Script(p))] = {}

HoldInv ==
  /\ DOMAIN holders = Pipes /\ DOMAIN proc = Kids
  /\ LoopInv
  /\ PipeInv

LEMMA Names ==
  /\ \A p, q \in Profilers :
       /\ Script(p) # Record(q) /\ Record(p) # Wrapper /\ Script(p) # Wrapper
       /\ Record(p) # Frontend
       /\ (p # q => Script(p) # Script(q) /\ Record(p) # Record(q))
  /\ \A p \in Profilers : \A d \in Dsos :
       Addr2line(d) # Script(p) /\ Addr2line(d) # Record(p)
  /\ \A c, e \in Kids : c # e => Stdin(c) # Stdin(e)
  /\ \A c \in Kids : Stdin(c) # Notify /\ Stdin(c) \in Pipes
  /\ \A p \in Profilers : Script(p) \in Kids /\ Record(p) \in Kids
  /\ Wrapper \in Kids /\ \A d \in Dsos : Addr2line(d) \in Kids
BY DEF Script, Record, Wrapper, Frontend, Addr2line, Stdin, Notify, Pipes, Kids, PerfChildren

(* What leaves perf-script's pipes alone: the loop where it is or past its  *)
(* end, no write end handed on, no change to a perf-record not yet alive.  *)
Quiet ==
  /\ DOMAIN holders' = Pipes /\ DOMAIN proc' = Kids
  /\ fp' = fp
  /\ \/ fpc' = fpc
     \/ fpc \notin {"script", "record"} /\ fpc' \notin {"wrapper", "server", "script", "record", "accept"}
     \/ fpc \in {"wrapper", "server"} /\ fpc' \in {"server", "script"}
  /\ \A p \in Profilers :
       /\ holders'[Stdin(Script(p))] \subseteq holders[Stdin(Script(p))]
       /\ proc'[Record(p)] = proc[Record(p)] \/ (Behind(p) /\ Behind(p)')
       /\ proc'[Script(p)] = "absent" => proc[Script(p)] = "absent"

LEMMA QuietKeeps == ASSUME HoldInv, Quiet PROVE HoldInv'
<1>1. LoopInv'
  BY DEF HoldInv, LoopInv, Quiet, Ahead, Behind
<1>2. PipeInv'
  <2> SUFFICES ASSUME NEW p \in Profilers
               PROVE  /\ holders'[Stdin(Script(p))] \subseteq {Frontend, Record(p)}
                      /\ Frontend \in holders'[Stdin(Script(p))] =>
                           fp' = p /\ fpc' \in {"script", "record"} /\ ~Behind(p)'
                      /\ proc'[Script(p)] = "absent" => holders'[Stdin(Script(p))] = {}
    BY DEF PipeInv
  <2> QED BY DEF HoldInv, PipeInv, Quiet, Behind
<1> QED BY <1>1, <1>2 DEF HoldInv, Quiet

LEMMA DropShrinks ==
  ASSUME NEW h, DOMAIN h = Pipes, NEW who, NEW pipes, NEW q \in Pipes
  PROVE  DOMAIN Drop(h, who, pipes) = Pipes /\ Drop(h, who, pipes)[q] \subseteq h[q]
BY DEF Drop

(* A child that ends was alive.                                            *)
LEMMA DiesQuiet ==
  ASSUME HoldInv, NEW c \in Kids, proc[c] = "alive", Dies(c), UNCHANGED frontendVars
  PROVE  Quiet
<1>1. \A p \in Profilers : holders'[Stdin(Script(p))] \subseteq holders[Stdin(Script(p))]
  BY Names, DropShrinks DEF Dies, HoldInv
<1>2. DOMAIN holders' = Pipes /\ DOMAIN proc' = Kids
  BY DEF Dies, Drop, HoldInv
<1>3. \A p \in Profilers :
       /\ proc'[Record(p)] = proc[Record(p)] \/ (Behind(p) /\ Behind(p)')
       /\ proc'[Script(p)] = "absent" => proc[Script(p)] = "absent"
  BY Names DEF Dies, HoldInv, Behind
<1> QED BY <1>1, <1>2, <1>3 DEF Quiet, frontendVars

LEMMA ReapQuiet ==
  ASSUME HoldInv, NEW c \in Kids, Reap(c),
         fp' = fp, fpc' = fpc \/ (fpc' = "wait" /\ fpc \in {"join", "destroying"}), UNCHANGED holders
  PROVE  Quiet
<1>1. \A p \in Profilers :
       /\ proc'[Record(p)] = proc[Record(p)] \/ (Behind(p) /\ Behind(p)')
       /\ proc'[Script(p)] = "absent" => proc[Script(p)] = "absent"
  BY Names DEF Reap, HoldInv, Behind
<1> QED BY <1>1 DEF Quiet, Reap, HoldInv

LEMMA DropQuiet ==
  ASSUME HoldInv, NEW who, NEW pipes, holders' = Drop(holders, who, pipes), UNCHANGED proc, fp' = fp,
         \/ fpc' = fpc
         \/ fpc \notin {"script", "record"} /\ fpc' \notin {"wrapper", "server", "script", "record", "accept"}
  PROVE  Quiet
<1>1. \A p \in Profilers : holders'[Stdin(Script(p))] \subseteq holders[Stdin(Script(p))]
  BY Names, DropShrinks DEF HoldInv
<1> QED BY <1>1, DropShrinks DEF Quiet, HoldInv, Drop

(* The pipes and the fork of a child that is neither of a profiler's two.   *)
LEMMA OtherStartQuiet ==
  ASSUME HoldInv, NEW c \in Kids, \A p \in Profilers : c # Script(p) /\ c # Record(p),
         MakePipes(c) \/ Fork(c), fpc \notin {"script", "record"},
         fp' = fp, fpc' = fpc \/ (fpc = "wrapper" /\ fpc' = "server")
  PROVE  Quiet
<1>1. \A p \in Profilers : proc'[Record(p)] = proc[Record(p)] /\ proc'[Script(p)] = proc[Script(p)]
  BY Names DEF MakePipes, Fork, HoldInv
<1>2. DOMAIN holders' = Pipes /\ DOMAIN proc' = Kids
  BY DEF MakePipes, Fork, Drop, HoldInv
<1>3. ASSUME NEW p \in Profilers
      PROVE  holders'[Stdin(Script(p))] \subseteq holders[Stdin(Script(p))]
  <2>1. Frontend \notin holders[Stdin(Script(p))]
    BY DEF HoldInv, PipeInv
  <2>2. Stdin(Script(p)) \in Pipes /\ Stdin(Script(p)) \notin OwnPipes(c)
    BY Names DEF OwnPipes
  <2>3. CASE MakePipes(c)
    BY <2>2, <2>3 DEF MakePipes
  <2>4. CASE Fork(c)
    BY <2>1, <2>2, <2>4 DEF Fork, Drop
  <2> QED BY <2>3, <2>4
<1> QED BY <1>1, <1>2, <1>3 DEF Quiet

LEMMA StartScriptKeeps == ASSUME HoldInv, StartScript PROVE HoldInv'
<1>1. fp \in Profilers /\ fp' = fp /\ Script(fp) \in Kids
  BY Names DEF StartScript, HoldInv, LoopInv
<1>2. fpc = "script" /\ \A p \in Profilers : p >= fp => Ahead(p)
  BY DEF StartScript, HoldInv, LoopInv
<1>3. ~Behind(fp) /\ \A p \in Profilers : p > fp => Ahead(p)
  BY <1>1, <1>2 DEF Ahead, Behind, Profilers
<1>4. \A p \in Profilers : /\ proc'[Record(p)] = proc[Record(p)]
                           /\ proc'[Script(p)] = "absent" => proc[Script(p)] = "absent" /\ p # fp
  BY <1>1, Names DEF StartScript, MakePipes, Fork, HoldInv
<1>5. DOMAIN holders' = Pipes /\ DOMAIN proc' = Kids
  BY DEF StartScript, MakePipes, Fork, Drop, HoldInv
<1>6. fpc' \in {"script", "record"}
  BY <1>2 DEF StartScript
<1>7. LoopInv'
  BY <1>1, <1>2, <1>3, <1>4, <1>6 DEF LoopInv, Ahead, Behind
<1>8. ASSUME NEW p \in Profilers, p # fp
      PROVE  holders'[Stdin(Script(p))] = holders[Stdin(Script(p))]
  <2>1. Frontend \notin holders[Stdin(Script(p))]
    BY <1>8 DEF HoldInv, PipeInv
  <2>2. Stdin(Script(p)) \in Pipes /\ Stdin(Script(p)) \notin OwnPipes(Script(fp))
    BY Names, <1>1, <1>8 DEF OwnPipes
  <2>3. CASE MakePipes(Script(fp))
    BY <2>2, <2>3 DEF MakePipes
  <2>4. CASE Fork(Script(fp))
    <3>1. Stdin(Script(p)) \notin ClosedByParent(Script(fp))
      BY Names, <1>1 DEF ClosedByParent
    <3> QED BY <2>1, <2>2, <2>4, <3>1 DEF Fork, Drop
  <2> QED BY <2>3, <2>4 DEF StartScript
<1>9. holders'[Stdin(Script(fp))] \subseteq {Frontend, Record(fp)}
  <2>1. CASE MakePipes(Script(fp))
    BY <2>1, <1>1, Names DEF MakePipes, OwnPipes
  <2>2. CASE Fork(Script(fp))
    <3>1. Stdin(Script(fp)) \in Pipes /\ Stdin(Script(fp)) \in ClosedByChild(Script(fp))
      BY Names, <1>1 DEF ClosedByChild
    <3>2. holders'[Stdin(Script(fp))] \subseteq holders[Stdin(Script(fp))]
      BY <2>2, <3>1 DEF Fork, Drop
    <3> QED BY <1>1, <3>2 DEF HoldInv, PipeInv
  <2> QED BY <2>1, <2>2 DEF StartScript
<1>10. PipeInv'
  <2> SUFFICES ASSUME NEW p \in Profilers
               PROVE  /\ holders'[Stdin(Script(p))] \subseteq {Frontend, Record(p)}
                      /\ Frontend \in holders'[Stdin(Script(p))] =>
                           fp' = p /\ fpc' \in {"script", "record"} /\ ~Behind(p)'
                      /\ proc'[Script(p)] = "absent" => holders'[Stdin(Script(p))] = {}
    BY DEF PipeInv
  <2>1. CASE p = fp
    BY <1>1, <1>3, <1>4, <1>6, <1>9, <2>1 DEF Behind
  <2>2. CASE p # fp
    BY <1>4, <1>8, <2>2 DEF HoldInv, PipeInv
  <2> QED BY <2>1, <2>2
<1> QED BY <1>5, <1>7, <1>10 DEF HoldInv

LEMMA StartRecordKeeps == ASSUME HoldInv, StartRecord PROVE HoldInv'
<1>1. fp \in Profilers /\ fp' = fp /\ fpc = "record" /\ Record(fp) \in Kids /\ Script(fp) \in Kids
  BY Names DEF StartRecord, HoldInv, LoopInv
<1>2. \A p \in Profilers : /\ p # fp => proc'[Record(p)] = proc[Record(p)]
                           /\ proc'[Script(p)] = proc[Script(p)]
  BY <1>1, Names DEF StartRecord, MakePipes, Fork, HoldInv
<1>3. DOMAIN holders' = Pipes /\ DOMAIN proc' = Kids
  BY DEF StartRecord, MakePipes, Fork, Drop, HoldInv
<1>4. \A p \in Profilers : p > fp => Ahead(p)'
  BY <1>1, <1>2 DEF HoldInv, LoopInv, Ahead, Profilers
<1>5. CASE MakePipes(Record(fp)) /\ fpc' = fpc
  <2>1. proc'[Record(fp)] = "piped"
    BY <1>1, <1>5 DEF MakePipes, HoldInv
  <2>2. \A p \in Profilers : holders'[Stdin(Script(p))] = holders[Stdin(Script(p))]
    BY <1>1, <1>5, Names DEF MakePipes, OwnPipes
  <2>3. LoopInv'
    BY <1>1, <1>4, <1>5, <2>1 DEF LoopInv, Behind
  <2>4. PipeInv'
    <3> SUFFICES ASSUME NEW p \in Profilers
                 PROVE  /\ holders'[Stdin(Script(p))] \subseteq {Frontend, Record(p)}
                        /\ Frontend \in holders'[Stdin(Script(p))] =>
                             fp' = p /\ fpc' \in {"script", "record"} /\ ~Behind(p)'
                        /\ proc'[Script(p)] = "absent" => holders'[Stdin(Script(p))] = {}
      BY DEF PipeInv
    <3> QED BY <1>1, <1>2, <1>5, <2>1, <2>2 DEF HoldInv, PipeInv, Behind
  <2> QED BY <1>3, <2>3, <2>4 DEF HoldInv
<1>6. CASE Fork(Record(fp)) /\ fpc' = "accept"
  <2>1. ASSUME NEW p \in Profilers, p # fp
        PROVE  holders'[Stdin(Script(p))] \subseteq holders[Stdin(Script(p))]
    <3>1. Frontend \notin holders[Stdin(Script(p))] /\ Stdin(Script(p)) \in Pipes
      BY <2>1, Names DEF HoldInv, PipeInv
    <3> QED BY <1>6, <3>1 DEF Fork, Drop
  <2>2. holders'[Stdin(Script(fp))] \subseteq {Record(fp)}
    <3>1. Stdin(Script(fp)) \in Pipes /\ Stdin(Script(fp)) \in ClosedByParent(Record(fp))
      BY Names, <1>1 DEF ClosedByParent
    <3>2. holders[Stdin(Script(fp))] \subseteq {Frontend, Record(fp)}
      BY <1>1 DEF HoldInv, PipeInv
    <3> QED BY <1>6, <3>1, <3>2 DEF Fork, Drop
  <2>3. LoopInv'
    BY <1>1, <1>4, <1>6 DEF LoopInv
  <2>4. PipeInv'
    <3> SUFFICES ASSUME NEW p \in Profilers
                 PROVE  /\ holders'[Stdin(Script(p))] \subseteq {Frontend, Record(p)}
                        /\ Frontend \in holders'[Stdin(Script(p))] =>
                             fp' = p /\ fpc' \in {"script", "record"} /\ ~Behind(p)'
                        /\ proc'[Script(p)] = "absent" => holders'[Stdin(Script(p))] = {}
      BY DEF PipeInv
    <3>1. CASE p = fp
      <4>1. Frontend # Record(fp)
        BY <1>1, Names
      <4>2. proc[Script(fp)] = "absent" => holders[Stdin(Script(fp))] = {}
        BY <1>1 DEF HoldInv, PipeInv
      <4>3. proc[Script(fp)] = "absent" => holders'[Stdin(Script(fp))] = {}
        <5>1. Stdin(Script(fp)) \in Pipes
          BY <1>1, Names
        <5> QED BY <1>6, <4>2, <5>1 DEF Fork, Drop
      <4> QED BY <1>2, <2>2, <3>1, <4>1, <4>3
    <3>2. CASE p # fp
      BY <1>2, <2>1, <3>2 DEF HoldInv, PipeInv
    <3> QED BY <3>1, <3>2
  <2> QED BY <1>3, <2>3, <2>4 DEF HoldInv
<1> QED BY <1>5, <1>6 DEF StartRecord

LEMMA AcceptKeeps == ASSUME HoldInv, AcceptGeneric PROVE HoldInv'
<1>1. fp \in Profilers /\ fpc = "accept" /\ UNCHANGED <<proc, holders>>
  BY DEF AcceptGeneric, HoldInv, LoopInv
<1>2. \A p \in Profilers : Frontend \notin holders[Stdin(Script(p))]
  BY <1>1 DEF HoldInv, PipeInv
<1>3. PipeInv'
  <2> SUFFICES ASSUME NEW p \in Profilers
               PROVE  /\ holders'[Stdin(Script(p))] \subseteq {Frontend, Record(p)}
                      /\ Frontend \in holders'[Stdin(Script(p))] =>
                           fp' = p /\ fpc' \in {"script", "record"} /\ ~Behind(p)'
                      /\ proc'[Script(p)] = "absent" => holders'[Stdin(Script(p))] = {}
    BY DEF PipeInv
  <2> QED BY <1>1, <1>2 DEF HoldInv, PipeInv
<1>4. LoopInv'
  <2>1. CASE Last
    <3>1. fpc' = "gate" /\ fp' = 1
      BY <2>1 DEF AcceptGeneric
    <3> QED BY <3>1, ProfilerCntAssumption DEF LoopInv, Profilers
  <2>2. CASE ~Last
    <3>1. fpc' = "script" /\ fp' = fp + 1 /\ fp + 1 \in Profilers
      BY <1>1, <2>2, ProfilerCntAssumption DEF AcceptGeneric, Last, Profilers
    <3>2. \A p \in Profilers : p >= fp' => Ahead(p)'
      BY <1>1, <3>1 DEF HoldInv, LoopInv, Ahead, Profilers
    <3> QED BY <3>1, <3>2 DEF LoopInv
  <2> QED BY <2>1, <2>2
<1> QED BY <1>1, <1>3, <1>4 DEF HoldInv

LEMMA HoldStep == ASSUME HoldInv, [Next]_childVars PROVE HoldInv'
<1>1. CASE UNCHANGED <<fpc, fp, proc, holders>>
  BY <1>1 DEF HoldInv, LoopInv, PipeInv, Ahead, Behind
<1>2. CASE StartWrapper
  <2>1. /\ MakePipes(Wrapper) \/ Fork(Wrapper)
        /\ fpc = "wrapper" /\ fp' = fp /\ (fpc' = fpc \/ fpc' = "server")
    BY <1>2 DEF StartWrapper
  <2>2. Wrapper \in Kids /\ \A p \in Profilers : Wrapper # Script(p) /\ Wrapper # Record(p)
    BY Names
  <2>3. Quiet
    BY <2>1, <2>2, OtherStartQuiet
  <2> QED BY <2>3, QuietKeeps
<1>3. CASE ConnectServer \/ GiveUp \/ PassGate \/ WaitProfilers \/ JoinPool
  <2>1. Quiet
    BY <1>3 DEF ConnectServer, GiveUp, PassGate, WaitProfilers, JoinPool, Quiet, HoldInv
  <2> QED BY <2>1, QuietKeeps
<1>4. CASE StartScript
  BY <1>4, StartScriptKeeps
<1>5. CASE StartRecord
  BY <1>5, StartRecordKeeps
<1>6. CASE AcceptGeneric
  BY <1>6, AcceptKeeps
<1>7. CASE NotifyWrapper
  BY <1>7, DropQuiet, QuietKeeps DEF NotifyWrapper
<1>8. CASE CloseStdin
  BY <1>8, DropQuiet, QuietKeeps DEF CloseStdin
<1>9. CASE JoinWrapper
  BY <1>9, ReapQuiet, QuietKeeps, Names DEF JoinWrapper
<1>10. CASE DestroyWrapper
  <2>1. CASE fpc = "destroy" /\ holders' = Drop(holders, Frontend, ClosedByDestructor) /\ fpc' = "destroying" /\ UNCHANGED proc
    BY <1>10, <2>1, DropQuiet, QuietKeeps DEF DestroyWrapper
  <2>2. CASE fpc = "destroying" /\ Reap(Wrapper) /\ fpc' = "wait" /\ UNCHANGED holders
    BY <1>10, <2>2, ReapQuiet, QuietKeeps, Names DEF DestroyWrapper
  <2> QED BY <1>10, <2>1, <2>2 DEF DestroyWrapper
<1>11. CASE WrapperRuns
  <2>1. CASE WrapperReleased
    BY <2>1, DropQuiet, QuietKeeps DEF WrapperReleased, frontendVars
  <2>2. CASE WrapperUnreleased
    BY <2>2, DiesQuiet, QuietKeeps, Names DEF WrapperUnreleased
  <2>3. CASE CommandEnds
    BY <2>3, DiesQuiet, QuietKeeps, Names DEF CommandEnds
  <2> QED BY <1>11, <2>1, <2>2, <2>3 DEF WrapperRuns
<1>12. ASSUME NEW p \in Profilers, RecordEnds(p) \/ Watch(p) \/ ScriptConnects(p) \/ ScriptFails(p)
       PROVE  HoldInv'
  <2>0. Record(p) \in Kids /\ Script(p) \in Kids
    BY Names
  <2>1. CASE RecordEnds(p)
    BY <2>0, <2>1, DiesQuiet, QuietKeeps DEF RecordEnds
  <2>2. CASE ScriptFails(p)
    BY <2>0, <2>2, DiesQuiet, QuietKeeps DEF ScriptFails
  <2>3. CASE ScriptConnects(p)
    BY <2>3, <1>1 DEF ScriptConnects, frontendVars
  <2>4. CASE Watch(p)
    <3>0. fp' = fp /\ fpc' = fpc
      BY <2>4 DEF Watch, frontendVars
    <3>1. CASE holders' = Drop(holders, Frontend, {Stdin(Record(p))}) /\ UNCHANGED proc
      BY <3>0, <3>1, DropQuiet, QuietKeeps
    <3>2. CASE Reap(Record(p)) /\ UNCHANGED holders
      <4>1. Quiet
        BY <2>0, <3>0, <3>2, ReapQuiet
      <4> QED BY <4>1, QuietKeeps
    <3>3. CASE Reap(Script(p)) /\ UNCHANGED holders
      <4>1. Quiet
        BY <2>0, <3>0, <3>3, ReapQuiet
      <4> QED BY <4>1, QuietKeeps
    <3> QED BY <2>4, <3>1, <3>2, <3>3 DEF Watch
  <2> QED BY <1>12, <2>1, <2>2, <2>3, <2>4
<1>13. ASSUME NEW c \in Readers, ReaderEnds(c) PROVE HoldInv'
  <2>1. c \in Kids
    BY DEF Readers
  <2> QED BY <1>13, <2>1, DiesQuiet, QuietKeeps DEF ReaderEnds
<1>14. ASSUME NEW d \in Dsos, TaskStep(d) PROVE HoldInv'
  <2>1. /\ Addr2line(d) \in Kids /\ fpc = "pool" /\ UNCHANGED <<fpc, fp>>
        /\ \A p \in Profilers : Addr2line(d) # Script(p) /\ Addr2line(d) # Record(p)
    BY <1>14, Names DEF TaskStep, frontendVars
  <2>2. CASE MakePipes(Addr2line(d)) \/ Fork(Addr2line(d))
    BY <2>1, <2>2, OtherStartQuiet, QuietKeeps
  <2>3. CASE holders' = Drop(holders, Frontend, {Stdin(Addr2line(d))}) /\ UNCHANGED proc
    BY <2>1, <2>3, DropQuiet, QuietKeeps
  <2>4. CASE Reap(Addr2line(d)) /\ UNCHANGED holders
    <3>1. Quiet
      BY <2>1, <2>4, ReapQuiet
    <3> QED BY <3>1, QuietKeeps
  <2> QED BY <1>14, <2>2, <2>3, <2>4 DEF TaskStep
<1>15. CASE UNCHANGED childVars
  BY <1>1, <1>15 DEF childVars, frontendVars
<1> QED BY <1>2, <1>3, <1>4, <1>5, <1>6, <1>7, <1>8, <1>9, <1>10, <1>11, <1>12, <1>13, <1>14, <1>15
        DEF Next, FrontendRuns

LEMMA GetInstructionsHolds == ASSUME HoldInv, GetInstructions PROVE HoldInv'
<1>1. CASE UNCHANGED <<fpc, fp, proc, holders>>
  BY <1>1 DEF HoldInv, LoopInv, PipeInv, Ahead, Behind
<1>2. CASE fpc' = "destroy" /\ UNCHANGED <<fp, proc, holders>>
  <2>1. fpc = "script" /\ proc[Script(fp)] = "absent"
    BY DEF GetInstructions, Due
  <2>2. \A p \in Profilers : Frontend \notin holders[Stdin(Script(p))]
    BY <2>1 DEF HoldInv, PipeInv
  <2>3. LoopInv'
    BY <1>2 DEF HoldInv, LoopInv
  <2>4. PipeInv'
    BY <1>2, <2>2 DEF HoldInv, PipeInv
  <2> QED BY <1>2, <2>3, <2>4 DEF HoldInv
<1> QED BY <1>1, <1>2 DEF GetInstructions

LEMMA HoldInit == StartupInit => HoldInv
BY Names, ProfilerCntAssumption
   DEF StartupInit, Init, HoldInv, LoopInv, PipeInv, Ahead, Behind, Profilers

(* PerfPipePrivate, for any number of profilers and binaries: whoever is    *)
(* forked, and in whatever order, only perf-record can keep its pipe into  *)
(* perf-script from ending.                                                *)
THEOREM PerfPipePrivateTheorem == StartupSpec => []PerfPipePrivate
<1>1. StartupInit => HoldInv
  BY HoldInit
<1>2. HoldInv /\ [StartupNext]_<<startupVars, childVars>> => HoldInv'
  <2> SUFFICES ASSUME HoldInv, [StartupNext]_<<startupVars, childVars>>
               PROVE  HoldInv'
    OBVIOUS
  <2>1. CASE GetInstructions
    BY <2>1, GetInstructionsHolds
  <2>2. CASE [Next]_childVars
    BY <2>2, HoldStep
  <2> QED BY <2>1, <2>2 DEF StartupNext, StartupRuns, FrontendStarts, FrontendEnds, Run,
       GetCpuConfig, CheckRequirement, ObtainInstructions, Next, FrontendRuns
<1>3. HoldInv => PerfPipePrivate
  <2> SUFFICES ASSUME HoldInv, NEW p \in Profilers, proc[Record(p)] \in {"alive", "dead", "reaped"}
               PROVE  holders[Stdin(Script(p))] \subseteq {Record(p)}
    BY DEF PerfPipePrivate
  <2> QED BY DEF HoldInv, PipeInv, Behind
<1> QED BY <1>1, <1>2, <1>3, PTL DEF StartupSpec

-----------------------------------------------------------------------------
(* Nobody is left behind.                                                   *)

(* A watcher that is through with a child has waited for it, and a profiler *)
(* without one has no children unless its start is under way.              *)
WatchInv ==
  \A p \in Profilers :
    /\ watcher[p] \in {"script", "done"} => proc[Record(p)] = "reaped"
    /\ watcher[p] = "done" => proc[Script(p)] = "reaped"
    /\ watcher[p] = "absent" =>
         \/ proc[Script(p)] = "absent" /\ proc[Record(p)] = "absent"
         \/ p = fp /\ fpc \in {"script", "record", "accept"}
    /\ fpc \in {"pool", "returned"} => watcher[p] \in {"absent", "done"}

(* The same of the pool, which has a job in hand only while it runs.        *)
TaskInv ==
  \A d \in Dsos :
    /\ task[d] = "queued" => proc[Addr2line(d)] = "absent"
    /\ task[d] = "done" => proc[Addr2line(d)] = "reaped"
    /\ fpc # "pool" => task[d] \in {"queued", "done"}

LeftInv ==
  /\ HoldInv
  /\ DOMAIN watcher = Profilers /\ DOMAIN task = Dsos
  /\ fpc \in {"wait", "pool", "returned"} => proc[Wrapper] = "reaped"
  /\ WatchInv
  /\ TaskInv

(* No child of p is started or forgotten, and none is taken from the dead. *)
Spares(c) ==
  /\ proc[c] = "reaped" => proc'[c] = "reaped"
  /\ proc[c] = "absent" => proc'[c] = "absent"

LEMMA SparesKeeps ==
  ASSUME LeftInv, HoldInv', \A c \in Kids : Spares(c), UNCHANGED <<fpc, fp, watcher, task>>
  PROVE  LeftInv'
<1>1. WatchInv'
  BY Names DEF LeftInv, WatchInv, Spares
<1>2. TaskInv'
  BY Names DEF LeftInv, TaskInv, Spares
<1>3. fpc' \in {"wait", "pool", "returned"} => proc'[Wrapper] = "reaped"
  BY Names DEF LeftInv, Spares
<1> QED BY <1>1, <1>2, <1>3 DEF LeftInv

LEMMA DiesSpares ==
  ASSUME HoldInv, NEW c \in Kids, proc[c] = "alive", Dies(c)
  PROVE  \A e \in Kids : Spares(e)
BY DEF HoldInv, Dies, Spares

LEMMA ReapSpares ==
  ASSUME HoldInv, NEW c \in Kids, Reap(c)
  PROVE  proc'[c] = "reaped" /\ \A e \in Kids : Spares(e)
BY DEF HoldInv, Reap, Spares

(* The pipes and the fork of a child change nothing about another.          *)
LEMMA StartSpares ==
  ASSUME HoldInv, NEW c \in Kids, MakePipes(c) \/ Fork(c)
  PROVE  /\ \A e \in Kids \ {c} : proc'[e] = proc[e]
         /\ proc[c] # "reaped"
BY DEF HoldInv, MakePipes, Fork

LEMMA LeftFrontend ==
  ASSUME LeftInv, HoldInv', FrontendRuns
  PROVE  LeftInv'
<1>0. HoldInv
  BY DEF LeftInv
<1>1. CASE StartWrapper
  <2>1. /\ MakePipes(Wrapper) \/ Fork(Wrapper)
        /\ fpc = "wrapper" /\ (fpc' = "wrapper" \/ fpc' = "server")
        /\ UNCHANGED <<fp, watcher, task>>
    BY <1>1 DEF StartWrapper
  <2>2. \A p \in Profilers : proc'[Script(p)] = proc[Script(p)] /\ proc'[Record(p)] = proc[Record(p)]
    BY <1>0, <2>1, StartSpares, Names
  <2>3. \A d \in Dsos : proc'[Addr2line(d)] = proc[Addr2line(d)]
    BY <1>0, <2>1, StartSpares, Names DEF Addr2line, Wrapper
  <2>4. WatchInv'
    BY <2>1, <2>2 DEF LeftInv, WatchInv
  <2>5. TaskInv'
    BY <2>1, <2>3 DEF LeftInv, TaskInv
  <2> QED BY <2>1, <2>4, <2>5 DEF LeftInv
<1>2. CASE ConnectServer \/ PassGate \/ NotifyWrapper \/ CloseStdin
  BY <1>2 DEF ConnectServer, PassGate, NotifyWrapper, CloseStdin, LeftInv, WatchInv, TaskInv
<1>3. CASE StartScript \/ StartRecord
  <2>1. fp \in Profilers
    BY <1>0 DEF HoldInv, LoopInv
  <2>2. PICK e \in {Script(fp), Record(fp)} :
          /\ MakePipes(e) \/ Fork(e)
          /\ fpc \in {"script", "record"} /\ fpc' \in {"script", "record", "accept"}
          /\ UNCHANGED <<fp, watcher, task>>
    BY <1>3 DEF StartScript, StartRecord
  <2>3. e \in Kids /\ \A x \in Kids \ {e} : proc'[x] = proc[x]
    BY <1>0, <2>1, <2>2, StartSpares, Names
  <2>4. proc[e] # "reaped"
    BY <1>0, <2>2, <2>3, StartSpares
  <2>5. \A d \in Dsos : proc'[Addr2line(d)] = proc[Addr2line(d)]
    BY <2>1, <2>2, <2>3, Names
  <2>6. TaskInv'
    BY <2>2, <2>5 DEF LeftInv, TaskInv
  <2>7. ASSUME NEW p \in Profilers, p # fp
        PROVE  proc'[Script(p)] = proc[Script(p)] /\ proc'[Record(p)] = proc[Record(p)]
    BY <2>1, <2>2, <2>3, <2>7, Names
  <2>8. proc[Script(fp)] = "reaped" => proc'[Script(fp)] = "reaped"
    BY <2>1, <2>3, <2>4, Names
  <2>9. proc[Record(fp)] = "reaped" => proc'[Record(fp)] = "reaped"
    BY <2>1, <2>3, <2>4, Names
  <2>10. WatchInv'
    BY <2>2, <2>7, <2>8, <2>9 DEF LeftInv, WatchInv
  <2> QED BY <2>2, <2>6, <2>10 DEF LeftInv
<1>4. CASE AcceptGeneric
  <2>1. /\ fp \in Profilers /\ fpc = "accept" /\ UNCHANGED <<proc, task>>
        /\ watcher' = [watcher EXCEPT ![fp] = "close"] /\ fpc' \in {"gate", "script"}
    BY <1>0, <1>4 DEF AcceptGeneric, HoldInv, LoopInv
  <2>2. WatchInv'
    BY <2>1 DEF LeftInv, WatchInv
  <2>3. TaskInv'
    BY <2>1 DEF LeftInv, TaskInv
  <2> QED BY <2>1, <2>2, <2>3 DEF LeftInv
<1>5. CASE JoinWrapper \/ DestroyWrapper
  <2>1. CASE Reap(Wrapper) /\ fpc' = "wait" /\ fpc \in {"join", "destroying"}
    <3>1. proc'[Wrapper] = "reaped" /\ \A e \in Kids : Spares(e)
      BY <1>0, <2>1, ReapSpares, Names
    <3>2. UNCHANGED <<fp, watcher, task>>
      BY <1>5 DEF JoinWrapper, DestroyWrapper
    <3>3. WatchInv'
      BY <2>1, <3>1, <3>2, Names DEF LeftInv, WatchInv, Spares
    <3>4. TaskInv'
      BY <2>1, <3>1, <3>2, Names DEF LeftInv, TaskInv, Spares
    <3> QED BY <3>1, <3>2, <3>3, <3>4 DEF LeftInv
  <2>2. CASE fpc = "destroy" /\ fpc' = "destroying" /\ UNCHANGED proc
    BY <1>5, <2>2 DEF JoinWrapper, DestroyWrapper, LeftInv, WatchInv, TaskInv
  <2> QED BY <1>5, <2>1, <2>2 DEF JoinWrapper, DestroyWrapper
<1>6. CASE WaitProfilers \/ JoinPool
  BY <1>6 DEF WaitProfilers, JoinPool, LeftInv, WatchInv, TaskInv
<1> QED BY <1>1, <1>2, <1>3, <1>4, <1>5, <1>6 DEF FrontendRuns

LEMMA LeftWatch ==
  ASSUME LeftInv, HoldInv', NEW p \in Profilers, Watch(p)
  PROVE  LeftInv'
<1>0. /\ HoldInv /\ UNCHANGED <<fpc, fp, task>>
      /\ Record(p) \in Kids /\ Script(p) \in Kids
  BY Names DEF LeftInv, Watch, frontendVars
<1>1. /\ \A e \in Kids : Spares(e)
      /\ \E w \in {"record", "script", "done"} :
           /\ watcher' = [watcher EXCEPT ![p] = w]
           /\ w \in {"script", "done"} => proc'[Record(p)] = "reaped"
           /\ w = "done" => proc'[Script(p)] = "reaped"
      /\ watcher[p] \in {"close", "record", "script"}
  <2>1. CASE watcher[p] = "close" /\ watcher' = [watcher EXCEPT ![p] = "record"] /\ UNCHANGED proc
    BY <2>1 DEF Spares
  <2>2. CASE watcher[p] = "record" /\ Reap(Record(p)) /\ watcher' = [watcher EXCEPT ![p] = "script"]
    BY <1>0, <2>2, ReapSpares
  <2>3. CASE watcher[p] = "script" /\ Reap(Script(p)) /\ watcher' = [watcher EXCEPT ![p] = "done"]
    <3>1. proc[Record(p)] = "reaped"
      BY <2>3 DEF LeftInv, WatchInv
    <3>2. proc'[Script(p)] = "reaped" /\ \A e \in Kids : Spares(e)
      BY <1>0, <2>3, ReapSpares
    <3> QED BY <1>0, <2>3, <3>1, <3>2 DEF Spares
  <2> QED BY <2>1, <2>2, <2>3 DEF Watch
<1>2. fpc \notin {"pool", "returned"}
  BY <1>1 DEF LeftInv, WatchInv
<1>3. WatchInv'
  BY <1>0, <1>1, <1>2, Names DEF LeftInv, WatchInv, Spares
<1>4. TaskInv'
  BY <1>0, <1>1, Names DEF LeftInv, TaskInv, Spares
<1>5. fpc' \in {"wait", "pool", "returned"} => proc'[Wrapper] = "reaped"
  BY <1>0, <1>1, Names DEF LeftInv, Spares
<1> QED BY <1>0, <1>1, <1>3, <1>4, <1>5 DEF LeftInv

LEMMA LeftTask ==
  ASSUME LeftInv, HoldInv', NEW d \in Dsos, TaskStep(d)
  PROVE  LeftInv'
<1> DEFINE a == Addr2line(d)
<1>0. /\ HoldInv /\ fpc = "pool" /\ UNCHANGED <<fpc, fp, watcher>> /\ a \in Kids
  BY Names DEF LeftInv, TaskStep, frontendVars
<1>1. /\ \A e \in Kids \ {a} : proc'[e] = proc[e]
      /\ \E t \in {"fork", "ask", "wait", "done"} :
           /\ task' = [task EXCEPT ![d] = t]
           /\ t = "done" => proc'[a] = "reaped"
  <2>1. CASE (MakePipes(a) /\ task' = [task EXCEPT ![d] = "fork"]) \/ (Fork(a) /\ task' = [task EXCEPT ![d] = "ask"])
    BY <1>0, <2>1, StartSpares
  <2>2. CASE UNCHANGED proc /\ task' = [task EXCEPT ![d] = "wait"]
    BY <2>2
  <2>3. CASE Reap(a) /\ task' = [task EXCEPT ![d] = "done"]
    BY <1>0, <2>3 DEF Reap, HoldInv
  <2> QED BY <2>1, <2>2, <2>3 DEF TaskStep
<1>2. \A x \in Dsos : x # d => proc'[Addr2line(x)] = proc[Addr2line(x)]
  BY <1>1, Names DEF Addr2line
<1>3. TaskInv'
  BY <1>0, <1>1, <1>2 DEF LeftInv, TaskInv
<1>4. \A p \in Profilers : proc'[Script(p)] = proc[Script(p)] /\ proc'[Record(p)] = proc[Record(p)]
  BY <1>1, Names
<1>5. WatchInv'
  BY <1>0, <1>4 DEF LeftInv, WatchInv
<1>6. proc'[Wrapper] = proc[Wrapper]
  BY <1>1, Names DEF Wrapper, Addr2line
<1> QED BY <1>0, <1>1, <1>3, <1>5, <1>6 DEF LeftInv

LEMMA LeftStep == ASSUME LeftInv, [Next]_childVars PROVE LeftInv'
<1>0. HoldInv /\ HoldInv'
  BY HoldStep DEF LeftInv
<1>1. CASE FrontendRuns
  BY <1>0, <1>1, LeftFrontend
<1>2. CASE GiveUp
  BY <1>0, <1>2 DEF GiveUp, LeftInv, WatchInv, TaskInv
<1>3. CASE WrapperRuns
  <2>1. UNCHANGED <<fpc, fp, watcher, task>>
    BY <1>3 DEF WrapperRuns, WrapperReleased, WrapperUnreleased, CommandEnds, frontendVars
  <2>2. \A c \in Kids : Spares(c)
    <3>1. CASE UNCHANGED proc
      BY <3>1 DEF Spares
    <3>2. CASE proc[Wrapper] = "alive" /\ Dies(Wrapper)
      BY <1>0, <3>2, DiesSpares, Names
    <3> QED BY <1>3, <3>1, <3>2 DEF WrapperRuns, WrapperReleased, WrapperUnreleased, CommandEnds
  <2> QED BY <1>0, <2>1, <2>2, SparesKeeps
<1>4. ASSUME NEW p \in Profilers, RecordEnds(p) \/ ScriptConnects(p) \/ ScriptFails(p)
      PROVE  LeftInv'
  <2>1. UNCHANGED <<fpc, fp, watcher, task>>
    BY <1>4 DEF RecordEnds, ScriptConnects, ScriptFails, frontendVars
  <2>2. \A c \in Kids : Spares(c)
    <3>1. CASE UNCHANGED proc
      BY <3>1 DEF Spares
    <3>2. CASE proc[Record(p)] = "alive" /\ Dies(Record(p))
      BY <1>0, <3>2, DiesSpares, Names
    <3>3. CASE proc[Script(p)] = "alive" /\ Dies(Script(p))
      BY <1>0, <3>3, DiesSpares, Names
    <3> QED BY <1>4, <3>1, <3>2, <3>3 DEF RecordEnds, ScriptConnects, ScriptFails
  <2> QED BY <1>0, <2>1, <2>2, SparesKeeps
<1>5. ASSUME NEW p \in Profilers, Watch(p) PROVE LeftInv'
  BY <1>0, <1>5, LeftWatch
<1>6. ASSUME NEW c \in Readers, ReaderEnds(c) PROVE LeftInv'
  <2>1. c \in Kids /\ UNCHANGED <<fpc, fp, watcher, task>>
    BY <1>6 DEF Readers, ReaderEnds, frontendVars
  <2>2. \A e \in Kids : Spares(e)
    BY <1>0, <1>6, <2>1, DiesSpares DEF ReaderEnds
  <2> QED BY <1>0, <2>1, <2>2, SparesKeeps
<1>7. ASSUME NEW d \in Dsos, TaskStep(d) PROVE LeftInv'
  BY <1>0, <1>7, LeftTask
<1>8. CASE UNCHANGED childVars
  BY <1>8 DEF childVars, frontendVars, LeftInv, WatchInv, TaskInv, HoldInv, LoopInv, PipeInv, Ahead, Behind
<1> QED BY <1>1, <1>2, <1>3, <1>4, <1>5, <1>6, <1>7, <1>8 DEF Next

(* NoChildLeft, for any number of profilers and binaries: a session that    *)
(* has come to its end, abandoned or not, has waited for every process it  *)
(* started.                                                                *)
THEOREM NoChildLeftTheorem == StartupSpec => []NoChildLeft
<1>1. StartupInit => LeftInv
  <2> SUFFICES ASSUME StartupInit PROVE LeftInv
    OBVIOUS
  <2>1. HoldInv
    BY HoldInit
  <2>2. WatchInv /\ TaskInv
    BY Names DEF StartupInit, Init, WatchInv, TaskInv
  <2> QED BY <2>1, <2>2 DEF StartupInit, Init, LeftInv
<1>2. LeftInv /\ [StartupNext]_<<startupVars, childVars>> => LeftInv'
  <2> SUFFICES ASSUME LeftInv, [StartupNext]_<<startupVars, childVars>>
               PROVE  LeftInv'
    OBVIOUS
  <2>1. CASE GetInstructions
    <3>1. HoldInv'
      BY <2>1, GetInstructionsHolds DEF LeftInv
    <3>2. CASE UNCHANGED <<fpc, fp, proc, watcher, task>>
      BY <3>1, <3>2 DEF LeftInv, WatchInv, TaskInv
    <3>3. CASE fpc' = "destroy" /\ UNCHANGED <<fp, proc, watcher, task>>
      <4>1. fpc = "script" /\ proc[Script(fp)] = "absent"
        BY <2>1 DEF GetInstructions, Due
      <4>2. fp \in Profilers /\ proc[Record(fp)] = "absent"
        BY <4>1 DEF LeftInv, HoldInv, LoopInv, Ahead, Profilers
      <4>3. WatchInv'
        BY <3>3, <4>1, <4>2 DEF LeftInv, WatchInv
      <4>4. TaskInv'
        BY <3>3, <4>1 DEF LeftInv, TaskInv
      <4> QED BY <3>1, <3>3, <4>3, <4>4 DEF LeftInv
    <3> QED BY <2>1, <3>2, <3>3 DEF GetInstructions
  <2>2. CASE [Next]_childVars
    BY <2>2, LeftStep
  <2> QED BY <2>1, <2>2 DEF StartupNext, StartupRuns, FrontendStarts, FrontendEnds, Run,
       GetCpuConfig, CheckRequirement, ObtainInstructions, Next, FrontendRuns
<1>3. LeftInv => NoChildLeft
  <2> SUFFICES ASSUME LeftInv, fpc = "returned", NEW c \in Kids
               PROVE  proc[c] \in {"absent", "reaped"}
    BY DEF NoChildLeft
  <2>1. ASSUME NEW p \in Profilers
        PROVE  proc[Script(p)] \in {"absent", "reaped"} /\ proc[Record(p)] \in {"absent", "reaped"}
    BY DEF LeftInv, WatchInv
  <2>2. ASSUME NEW d \in Dsos
        PROVE  proc[Addr2line(d)] \in {"absent", "reaped"}
    BY DEF LeftInv, TaskInv
  <2> QED BY <2>1, <2>2 DEF LeftInv, Kids, PerfChildren
<1> QED BY <1>1, <1>2, <1>3, PTL DEF StartupSpec

-----------------------------------------------------------------------------
(* The streams.                                                             *)

LEMMA LeastOf ==
  ASSUME NEW S, S \subseteq Nat, S # {}
  PROVE  \E n \in S : \A m \in S : n <= m
<1>1. \E x \in S : \A y \in S : ~(<<y, x>> \in OpToRel(<, Nat))
  BY NatLessThanWellFounded, WFMin
<1>2. \E x \in S : \A y \in S : ~(y < x)
  BY <1>1, Zenon DEF OpToRel
<1> QED BY <1>2

(* The streams of the first profilers together; of all, PipeTriggers.       *)
Before[p \in 0..ProfilerCnt] == IF p = 0 THEN 0 ELSE Before[p - 1] + Counts[p]

CountsOK == \A p \in Profilers : ThreadCount(p) \in Nat \ {0} /\ Counts[p] = ThreadCount(p)

(* A sum up to n is extended by one more profiler.                          *)
LEMMA PartialSums ==
  ASSUME CountsOK, NEW n \in 0..ProfilerCnt
  PROVE  \E f \in [0..n -> Nat] : f[0] = 0 /\ \A p \in 1..n : f[p] = f[p - 1] + Counts[p]
<1> DEFINE Summed(m) == \E f \in [0..m -> Nat] : f[0] = 0 /\ \A p \in 1..m : f[p] = f[p - 1] + Counts[p]
           Bad == {m \in 0..ProfilerCnt : ~Summed(m)}
<1> SUFFICES ASSUME Bad # {} PROVE FALSE
  OBVIOUS
<1>1. PICK m \in Bad : \A l \in Bad : m <= l
  <2>1. Bad \subseteq Nat
    BY ProfilerCntAssumption
  <2> HIDE DEF Bad
  <2> QED BY <2>1, LeastOf
<1>2. m \in 0..ProfilerCnt /\ m \in Nat /\ ~Summed(m)
  BY <1>1, ProfilerCntAssumption
<1>3. CASE m = 0
  <2> DEFINE g == [p \in 0..0 |-> 0]
  <2>1. g \in [0..0 -> Nat] /\ g[0] = 0 /\ \A p \in 1..0 : g[p] = g[p - 1] + Counts[p]
    OBVIOUS
  <2> QED BY <1>2, <1>3, <2>1
<1>4. CASE m # 0
  <2>1. m - 1 \in 0..ProfilerCnt /\ m - 1 \notin Bad /\ m \in Profilers
    <3>1. m - 1 \in 0..ProfilerCnt /\ m \in Profilers /\ ~(m <= m - 1)
      BY <1>2, <1>4, ProfilerCntAssumption DEF Profilers
    <3> HIDE DEF Bad
    <3> QED BY <1>1, <3>1
  <2>2. Summed(m - 1)
    BY <2>1
  <2>3. PICK f \in [0..(m - 1) -> Nat] : f[0] = 0 /\ \A p \in 1..(m - 1) : f[p] = f[p - 1] + Counts[p]
    BY <2>2
  <2> DEFINE g == [p \in 0..m |-> IF p = m THEN f[m - 1] + Counts[m] ELSE f[p]]
  <2>4. \A p \in 0..m : p # m => p \in 0..(m - 1)
    BY <1>2
  <2>5. Counts[m] \in Nat /\ f[m - 1] \in Nat
    <3>1. m - 1 \in 0..(m - 1)
      BY <1>2, <1>4
    <3> QED BY <2>1, <2>3, <3>1 DEF CountsOK
  <2>6. g \in [0..m -> Nat]
    BY <2>3, <2>4, <2>5
  <2>7. 0 \in 0..m /\ g[0] = 0
    BY <1>2, <1>4, <2>3
  <2>8. ASSUME NEW p \in 1..m PROVE g[p] = g[p - 1] + Counts[p]
    <3>1. p \in 0..m /\ p - 1 \in 0..m /\ p - 1 # m
      BY <1>2
    <3>2. CASE p = m
      BY <3>1, <3>2
    <3>3. CASE p # m
      <4>1. p \in 1..(m - 1)
        BY <1>2, <3>3
      <4> QED BY <2>3, <3>1, <3>3, <4>1
    <3> QED BY <3>2, <3>3
  <2> HIDE DEF g
  <2>9. Summed(m)
    BY <2>6, <2>7, <2>8
  <2> QED BY <1>2, <2>9
<1> QED BY <1>3, <1>4

LEMMA BeforeIs ==
  ASSUME CountsOK
  PROVE  Before = [p \in 0..ProfilerCnt |-> IF p = 0 THEN 0 ELSE Before[p - 1] + Counts[p]]
<1>1. ProfilerCnt \in 0..ProfilerCnt /\ Profilers = 1..ProfilerCnt
  BY ProfilerCntAssumption DEF Profilers
<1>2. PICK f \in [0..ProfilerCnt -> Nat] :
        f[0] = 0 /\ \A p \in 1..ProfilerCnt : f[p] = f[p - 1] + Counts[p]
  BY <1>1, PartialSums
<1>3. \A p \in 0..ProfilerCnt : p = 0 \/ p \in 1..ProfilerCnt
  BY ProfilerCntAssumption
<1>4. f = [p \in 0..ProfilerCnt |-> IF p = 0 THEN 0 ELSE f[p - 1] + Counts[p]]
  BY <1>2, <1>3
<1> QED BY <1>4 DEF Before

LEMMA BeforeStep ==
  ASSUME CountsOK
  PROVE  /\ Before[0] = 0
         /\ \A p \in Profilers : Before[p] = Before[p - 1] + ThreadCount(p)
         /\ PipeTriggers = Before[ProfilerCnt]
<1>1. 0 \in 0..ProfilerCnt
  BY ProfilerCntAssumption
<1>2. \A p \in Profilers : p \in 0..ProfilerCnt /\ p # 0
  BY ProfilerCntAssumption DEF Profilers
<1>3. Before[0] = 0
  BY <1>1, BeforeIs
<1>4. \A p \in Profilers : Before[p] = Before[p - 1] + ThreadCount(p)
  BY <1>2, BeforeIs DEF CountsOK
<1>5. PipeTriggers = Before[ProfilerCnt]
  BY DEF PipeTriggers, Before
<1> QED BY <1>3, <1>4, <1>5

(* The sums are numbers and grow.                                           *)
LEMMA BeforeGrows ==
  ASSUME CountsOK, NEW n \in 0..ProfilerCnt
  PROVE  Before[n] \in Nat /\ \A m \in 0..n : Before[m] \in Nat /\ Before[m] <= Before[n]
<1> DEFINE Grows(k) == Before[k] \in Nat /\ \A m \in 0..k : Before[m] \in Nat /\ Before[m] <= Before[k]
           Bad == {k \in 0..ProfilerCnt : ~Grows(k)}
<1> SUFFICES ASSUME Bad # {} PROVE FALSE
  OBVIOUS
<1>1. PICK k \in Bad : \A l \in Bad : k <= l
  <2>1. Bad \subseteq Nat
    BY ProfilerCntAssumption
  <2> HIDE DEF Bad
  <2> QED BY <2>1, LeastOf
<1>2. k \in 0..ProfilerCnt /\ k \in Nat /\ ~Grows(k)
  BY <1>1, ProfilerCntAssumption
<1>3. CASE k = 0
  <2>1. Before[k] = 0 /\ \A m \in 0..k : m = k
    BY <1>2, <1>3, BeforeStep
  <2> QED BY <1>2, <2>1
<1>4. CASE k # 0
  <2>1. k - 1 \in 0..ProfilerCnt /\ k - 1 \notin Bad /\ k \in Profilers
    BY <1>1, <1>2, <1>4, ProfilerCntAssumption DEF Profilers
  <2>2. Grows(k - 1)
    BY <2>1
  <2>3. Before[k] = Before[k - 1] + ThreadCount(k) /\ ThreadCount(k) \in Nat /\ Before[k - 1] \in Nat
    BY <2>1, <2>2, BeforeStep DEF CountsOK
  <2>4. \A m \in 0..k : m = k \/ m \in 0..(k - 1)
    BY <1>2
  <2>5. Grows(k)
    BY <2>2, <2>3, <2>4
  <2> QED BY <1>2, <2>5
<1> QED BY <1>3, <1>4

(* The next streams of p, and what is left after the first p profilers.     *)
Gets(p) == instrs[p] = [a \in 1..ThreadCount(p) |-> Before[p - 1] + a]
Left(p) == methods = [a \in 1..(PipeTriggers - Before[p]) |-> Before[p] + a]

Fresh(p) == instrs[p] = <<>> /\ proc[Script(p)] = "absent"

(* Whoever has had its turn has its streams, in order, and nobody else has  *)
(* any.                                                                    *)
TakenInv ==
  /\ DOMAIN instrs = Profilers
  /\ startup_pc # "run" => fpc = "wrapper"
  /\ fpc \in {"wrapper", "server"} => fp = 1 /\ \A p \in Profilers : Fresh(p)
  /\ fpc = "script" =>
       /\ \A p \in Profilers : (p < fp => Gets(p)) /\ (p > fp => Fresh(p))
       /\ (Fresh(fp) /\ Left(fp - 1)) \/ (Gets(fp) /\ Left(fp))
  /\ fpc \in {"record", "accept"} =>
       /\ \A p \in Profilers : IF p <= fp THEN Gets(p) ELSE Fresh(p)
       /\ Left(fp)
  /\ fpc \in {"gate", "notify"} => Left(ProfilerCnt) /\ \A p \in Profilers : Gets(p)

(* A step that gives nothing away.                                          *)
Calm ==
  /\ UNCHANGED <<methods, instrs, cpu_config, startup_pc>>
  /\ startup_pc = "run" \/ fpc' = fpc
  /\ \A p \in Profilers : proc[Script(p)] = "absent" => proc'[Script(p)] = "absent"
  /\ \/ fpc' = fpc /\ fp' = fp
     \/ fpc = "wrapper" /\ fpc' = "server" /\ fp' = fp
     \/ fpc = "record" /\ fpc' = "accept" /\ fp' = fp
     \/ fpc = "gate" /\ fpc' = "notify"
     \/ fpc' \notin {"wrapper", "server", "script", "record", "accept", "gate", "notify"}

LEMMA CalmKeeps == ASSUME HoldInv, TakenInv, Calm PROVE TakenInv'
<1>1. /\ \A p \in Int : Before'[p] = Before[p]
      /\ PipeTriggers' = PipeTriggers /\ \A p \in Profilers : ThreadCount(p)' = ThreadCount(p)
  BY DEF Calm, Before, Counts, PipeTriggers, ThreadCount
<1>2. fp \in Profilers /\ fp \in Int /\ fp - 1 \in Int /\ ProfilerCnt \in Int
      /\ \A p \in Profilers : p \in Int /\ p - 1 \in Int
  BY ProfilerCntAssumption DEF HoldInv, LoopInv, Profilers
<1>3. \A p \in Profilers : (Gets(p) => Gets(p)') /\ (Fresh(p) => Fresh(p)')
  BY <1>1, <1>2 DEF Calm, Gets, Fresh
<1>4. \A p \in Int : Left(p) => Left(p)'
  BY <1>1 DEF Calm, Left
<1>5. CASE fpc' = fpc /\ fp' = fp
  <2>1. /\ Left(fp) => Left(fp)'
        /\ Left(fp - 1) => Left(fp - 1)'
        /\ Gets(fp) => Gets(fp)'
        /\ Fresh(fp) => Fresh(fp)'
    BY <1>1, <1>2, <1>5 DEF Calm, Left, Gets, Fresh
  <2> QED BY <1>2, <1>3, <1>4, <1>5, <2>1 DEF Calm, TakenInv
<1> QED BY <1>2, <1>3, <1>4, <1>5 DEF Calm, TakenInv

(* Only its own start brings a perf-script into being.                      *)
LEMMA AbsentStays ==
  ASSUME DOMAIN proc = Kids, NEW c \in Kids, NEW s,
         proc[c] # "absent" \/ (\A p \in Profilers : c # Script(p)),
         proc' = [proc EXCEPT ![c] = s]
  PROVE  \A p \in Profilers : proc[Script(p)] = "absent" => proc'[Script(p)] = "absent"
BY Names

(* What goes on beside the streams.                                         *)
Aside ==
  \/ StartWrapper \/ StartRecord \/ GiveUp \/ PassGate \/ WaitProfilers \/ JoinPool
  \/ NotifyWrapper \/ CloseStdin \/ JoinWrapper \/ DestroyWrapper
  \/ WrapperRuns
  \/ \E p \in Profilers : RecordEnds(p) \/ Watch(p) \/ ScriptConnects(p) \/ ScriptFails(p)
  \/ \E c \in Readers : ReaderEnds(c)
  \/ \E d \in Dsos : TaskStep(d)

LEMMA CalmStep ==
  ASSUME HoldInv, TakenInv, UNCHANGED startupVars,
         (startup_pc = "run" /\ Aside) \/ UNCHANGED childVars
  PROVE  Calm
<1>1. UNCHANGED <<methods, instrs, cpu_config, startup_pc>> /\ DOMAIN proc = Kids
  BY DEF startupVars, streamVars, HoldInv
<1>2. ASSUME fpc' = fpc, fp' = fp,
             \/ UNCHANGED proc
             \/ \E c \in Kids : /\ proc[c] # "absent" \/ (\A p \in Profilers : c # Script(p))
                                /\ \E s : proc' = [proc EXCEPT ![c] = s]
      PROVE  Calm
  BY <1>1, <1>2, AbsentStays DEF Calm
<1>3. ASSUME startup_pc = "run",
             \/ fpc = "wrapper" /\ fpc' = "server" /\ fp' = fp
             \/ fpc = "record" /\ fpc' = "accept" /\ fp' = fp
             \/ fpc = "gate" /\ fpc' = "notify"
             \/ fpc' \notin {"wrapper", "server", "script", "record", "accept", "gate", "notify"},
             \/ UNCHANGED proc
             \/ \E c \in Kids : /\ proc[c] # "absent" \/ (\A p \in Profilers : c # Script(p))
                                /\ \E s : proc' = [proc EXCEPT ![c] = s]
      PROVE  Calm
  BY <1>1, <1>3, AbsentStays DEF Calm
<1>4. ASSUME startup_pc = "run", StartWrapper PROVE Calm
  BY <1>2, <1>3, <1>4, Names DEF StartWrapper, MakePipes, Fork
<1>5. ASSUME startup_pc = "run", StartRecord PROVE Calm
  <2>1. fp \in Profilers /\ Record(fp) \in Kids /\ \A p \in Profilers : Record(fp) # Script(p)
    BY Names DEF HoldInv, LoopInv
  <2> QED BY <1>2, <1>3, <1>5, <2>1 DEF StartRecord, MakePipes, Fork
<1>6. ASSUME startup_pc = "run", GiveUp \/ PassGate \/ WaitProfilers \/ JoinPool PROVE Calm
  BY <1>3, <1>6 DEF GiveUp, PassGate, WaitProfilers, JoinPool
<1>7. ASSUME startup_pc = "run", NotifyWrapper \/ CloseStdin \/ JoinWrapper \/ DestroyWrapper PROVE Calm
  BY <1>3, <1>7, Names DEF NotifyWrapper, CloseStdin, JoinWrapper, DestroyWrapper, Reap
<1>8. CASE WrapperRuns
  BY <1>2, <1>8, Names DEF WrapperRuns, WrapperReleased, WrapperUnreleased, CommandEnds, Dies,
     frontendVars
<1>9. ASSUME NEW p \in Profilers, RecordEnds(p) \/ Watch(p) \/ ScriptConnects(p) \/ ScriptFails(p)
      PROVE  Calm
  <2>1. Record(p) \in Kids /\ Script(p) \in Kids
    BY Names
  <2>2. CASE RecordEnds(p) \/ ScriptFails(p)
    BY <1>2, <2>1, <2>2 DEF RecordEnds, ScriptFails, Dies, frontendVars
  <2>3. CASE ScriptConnects(p)
    BY <1>2, <2>3 DEF ScriptConnects, frontendVars
  <2>4. CASE Watch(p)
    BY <1>2, <2>1, <2>4 DEF Watch, Reap, frontendVars
  <2> QED BY <1>9, <2>2, <2>3, <2>4
<1>10. ASSUME NEW c \in Readers, ReaderEnds(c) PROVE Calm
  BY <1>2, <1>10 DEF ReaderEnds, Readers, Dies, frontendVars
<1>11. ASSUME NEW d \in Dsos, TaskStep(d) PROVE Calm
  <2>1. Addr2line(d) \in Kids /\ \A p \in Profilers : Addr2line(d) # Script(p)
    BY Names
  <2> QED BY <1>2, <1>11, <2>1 DEF TaskStep, MakePipes, Fork, Reap, frontendVars
<1>12. CASE UNCHANGED childVars
  BY <1>2, <1>12 DEF childVars, frontendVars
<1>13. CASE startup_pc = "run" /\ Aside
  BY <1>4, <1>5, <1>6, <1>7, <1>8, <1>9, <1>10, <1>11, <1>13 DEF Aside
<1> QED BY <1>12, <1>13

(* What the profilers ask for exists: every one has a thread.               *)
LEMMA CountsAreThreads ==
  ASSUME MachineTypeOK, CoresFit, startup_pc = "run"
  PROVE  CountsOK
<1>1. cpu_config.profiler # {} /\ cpu_config.profiler \subseteq 1..num_proc /\ num_proc \in Nat
  BY DEF CoresFit, MachineTypeOK
<1>2. Cardinality(cpu_config.profiler) \in Nat \ {0}
  <2>1. IsFiniteSet(1..num_proc)
    BY <1>1, FS_Interval
  <2>2. IsFiniteSet(cpu_config.profiler)
    BY <1>1, <2>1, FS_Subset
  <2> QED BY <1>1, <2>2, FS_CardinalityType, FS_EmptySet
<1> QED BY <1>2 DEF CountsOK, ThreadCount, Counts

LEMMA SumFacts ==
  ASSUME CountsOK, NEW p \in Profilers
  PROVE  /\ p \in Int /\ p - 1 \in Int /\ ThreadCount(p) \in Nat \ {0}
         /\ Before[p - 1] \in Nat /\ Before[p] \in Nat /\ PipeTriggers \in Nat
         /\ Before[p] = Before[p - 1] + ThreadCount(p)
         /\ Before[p] <= PipeTriggers
<1>1. p \in 0..ProfilerCnt /\ p - 1 \in 0..ProfilerCnt /\ ProfilerCnt \in 0..ProfilerCnt
      /\ p \in Int /\ p - 1 \in Int
  BY ProfilerCntAssumption DEF Profilers
<1>2. Before[p - 1] \in Nat /\ Before[p] \in Nat /\ Before[ProfilerCnt] \in Nat
      /\ Before[p] <= Before[ProfilerCnt]
  BY <1>1, BeforeGrows
<1> QED BY <1>1, <1>2, BeforeStep DEF CountsOK

(* Enough is left for a profiler whose turn it is.                          *)
LEMMA EnoughLeft ==
  ASSUME CountsOK, TakenInv, fp \in Profilers, Due
  PROVE  Left(fp - 1) /\ Fresh(fp) /\ Len(methods) >= ThreadCount(fp)
<1>1. /\ fp \in Int /\ fp - 1 \in Int /\ ThreadCount(fp) \in Nat \ {0}
      /\ Before[fp - 1] \in Nat /\ Before[fp] \in Nat /\ PipeTriggers \in Nat
      /\ Before[fp] = Before[fp - 1] + ThreadCount(fp) /\ Before[fp] <= PipeTriggers
  BY SumFacts
<1>2. ~Gets(fp)
  <2>1. Len([a \in 1..ThreadCount(fp) |-> Before[fp - 1] + a]) = ThreadCount(fp)
    BY <1>1
  <2>2. Len(<<>>) = 0
    OBVIOUS
  <2> QED BY <1>1, <2>1, <2>2 DEF Gets, Due
<1>3. Left(fp - 1) /\ Fresh(fp)
  BY <1>2 DEF TakenInv, Due
<1>4. Len(methods) = PipeTriggers - Before[fp - 1]
  BY <1>1, <1>3 DEF Left
<1> QED BY <1>1, <1>3, <1>4

LEMMA ObtainTakes ==
  ASSUME HoldInv, TakenInv, CountsOK, ObtainInstructions
  PROVE  TakenInv'
<1>1. /\ fpc = "server" /\ fpc' = "script" /\ fp' = fp
      /\ methods' = [m \in 1..PipeTriggers |-> m]
      /\ UNCHANGED <<instrs, proc, cpu_config>> /\ startup_pc = "run" /\ startup_pc' = startup_pc
  BY DEF ObtainInstructions, ConnectServer
<1>2. Before'[0] = Before[0] /\ PipeTriggers' = PipeTriggers
  BY <1>1 DEF Before, Counts, PipeTriggers, ThreadCount
<1>3. fp = 1 /\ \A p \in Profilers : Fresh(p) /\ p >= 1
  BY <1>1, ProfilerCntAssumption DEF TakenInv, Profilers
<1>4. 1 \in Profilers /\ PipeTriggers \in Nat /\ Before[0] = 0
  <2>1. 1 \in Profilers
    BY ProfilerCntAssumption DEF Profilers
  <2> QED BY <2>1, SumFacts, BeforeStep
<1>5. methods' = [a \in 1..(PipeTriggers' - Before'[0]) |-> Before'[0] + a]
  BY <1>1, <1>2, <1>4
<1>6. Left(fp - 1)'
  <2>1. fp' - 1 = 0
    BY <1>1, <1>3
  <2> QED BY <1>5, <2>1, Zenon DEF Left
<1>7. \A p \in Profilers : Fresh(p)'
  BY <1>1, <1>3 DEF Fresh
<1>8. Fresh(fp)' /\ \A p \in Profilers : p \in Int /\ ~(p < fp')
  <2>1. \A p \in Profilers : p \in Int
    BY DEF Profilers
  <2> QED BY <1>1, <1>3, <1>4, <1>7, <2>1 DEF Fresh
<1> QED BY <1>1, <1>3, <1>6, <1>7, <1>8 DEF TakenInv

LEMMA GetTakes ==
  ASSUME HoldInv, TakenInv, CountsOK, GetInstructions
  PROVE  TakenInv'
<1>1. fp \in Profilers /\ Due /\ fpc = "script"
  BY DEF GetInstructions, Due, HoldInv, LoopInv
<1>2. /\ Left(fp - 1) /\ Fresh(fp) /\ Len(methods) >= ThreadCount(fp)
  BY <1>1, EnoughLeft
<1>3. /\ instrs' = [instrs EXCEPT ![fp] = SubSeq(methods, 1, ThreadCount(fp))]
      /\ methods' = SubSeq(methods, ThreadCount(fp) + 1, Len(methods))
      /\ UNCHANGED <<fp, fpc, proc, cpu_config, startup_pc>>
  BY <1>2 DEF GetInstructions
<1>4. /\ fp \in Int /\ fp - 1 \in Int /\ ThreadCount(fp) \in Nat \ {0}
      /\ Before[fp - 1] \in Nat /\ Before[fp] \in Nat /\ PipeTriggers \in Nat
      /\ Before[fp] = Before[fp - 1] + ThreadCount(fp) /\ Before[fp] <= PipeTriggers
  BY <1>1, SumFacts
<1>5. /\ \A p \in Int : Before'[p] = Before[p]
      /\ PipeTriggers' = PipeTriggers /\ \A p \in Profilers : ThreadCount(p)' = ThreadCount(p)
  BY <1>3 DEF Before, Counts, PipeTriggers, ThreadCount
<1> DEFINE n == ThreadCount(fp)
           b == Before[fp - 1]
           m == PipeTriggers - b
<1>6. n \in Nat \ {0} /\ b \in Nat /\ m \in Nat /\ n <= m /\ Before[fp] = b + n /\ PipeTriggers - Before[fp] = m - n
  BY <1>4
<1>7. methods = [a \in 1..m |-> b + a]
  BY <1>2 DEF Left
<1> HIDE DEF n, b, m
<1>8. SubSeq(methods, 1, n) = [a \in 1..n |-> b + a]
  BY <1>6, <1>7
<1>9. SubSeq(methods, n + 1, Len(methods)) = [a \in 1..(m - n) |-> (b + n) + a]
  <2>1. Len(methods) = m /\ methods \in Seq(Int)
    BY <1>6, <1>7
  <2> QED BY <1>6, <1>7, <2>1
<1> USE DEF n, b, m
<1>10. Gets(fp)'
  BY <1>1, <1>3, <1>4, <1>5, <1>8 DEF Gets, TakenInv
<1>11. Left(fp)'
  BY <1>3, <1>4, <1>5, <1>6, <1>9 DEF Left
<1>12. \A p \in Profilers : p # fp => (Gets(p) => Gets(p)') /\ (Fresh(p) => Fresh(p)')
  <2>1. \A p \in Profilers : p - 1 \in Int
    BY DEF Profilers
  <2> QED BY <1>3, <1>5, <2>1 DEF Gets, Fresh, TakenInv
<1>13. \A p \in Profilers : p \in Int
  BY DEF Profilers
<1> QED BY <1>1, <1>3, <1>4, <1>10, <1>11, <1>12, <1>13 DEF TakenInv

LEMMA AcceptTakes ==
  ASSUME HoldInv, TakenInv, Run(AcceptGeneric)
  PROVE  TakenInv'
<1>1. /\ fpc = "accept" /\ UNCHANGED <<proc, methods, instrs, cpu_config, startup_pc>>
      /\ IF fp = ProfilerCnt THEN fpc' = "gate" /\ fp' = 1 ELSE fpc' = "script" /\ fp' = fp + 1
      /\ startup_pc = "run"
  BY DEF Run, AcceptGeneric, Last, startupVars, streamVars
<1>2. /\ \A p \in Int : Before'[p] = Before[p]
      /\ PipeTriggers' = PipeTriggers /\ \A p \in Profilers : ThreadCount(p)' = ThreadCount(p)
  BY <1>1 DEF Before, Counts, PipeTriggers, ThreadCount
<1>3. /\ fp \in Profilers /\ fp \in Int /\ fp - 1 \in Int /\ ProfilerCnt \in Int
      /\ \A p \in Profilers : p \in Int /\ p - 1 \in Int /\ p <= ProfilerCnt
      /\ (fp # ProfilerCnt => fp + 1 \in Profilers /\ (fp + 1) - 1 = fp)
  BY ProfilerCntAssumption DEF HoldInv, LoopInv, Profilers
<1>4. \A p \in Profilers : (Gets(p) => Gets(p)') /\ (Fresh(p) => Fresh(p)')
  BY <1>1, <1>2, <1>3 DEF Gets, Fresh
<1>5. \A p \in Int : Left(p) => Left(p)'
  BY <1>1, <1>2 DEF Left
<1>6. CASE fp = ProfilerCnt
  <2>1. Left(ProfilerCnt)'
    BY <1>1, <1>3, <1>5, <1>6 DEF TakenInv
  <2> QED BY <1>1, <1>3, <1>4, <1>6, <2>1 DEF TakenInv
<1>7. CASE fp # ProfilerCnt
  <2>1. fpc' = "script" /\ fp' = fp + 1 /\ fp' - 1 = fp
    BY <1>1, <1>3, <1>7
  <2>2. methods' = [a \in 1..(PipeTriggers' - Before'[fp]) |-> Before'[fp] + a]
    BY <1>1, <1>3, <1>5 DEF TakenInv, Left
  <2>3. Left(fp - 1)'
    BY <2>1, <2>2, Zenon DEF Left
  <2>4. Fresh(fp)'
    <3>1. Fresh(fp + 1)
      BY <1>1, <1>3, <1>7 DEF TakenInv
    <3> QED BY <1>1, <2>1, <3>1 DEF Fresh
  <2> QED BY <1>1, <1>3, <1>4, <2>1, <2>3, <2>4 DEF TakenInv
<1> QED BY <1>6, <1>7

LEMMA ScriptTakes ==
  ASSUME HoldInv, TakenInv, Run(~Due /\ StartScript)
  PROVE  TakenInv'
<1>1. /\ fpc = "script" /\ ~Due /\ fp' = fp
      /\ UNCHANGED <<methods, instrs, cpu_config, startup_pc>> /\ startup_pc = "run"
      /\ \/ fpc' = "script" /\ proc[Script(fp)] = "absent"
         \/ fpc' = "record" /\ proc[Script(fp)] # "absent"
      /\ \E s : proc' = [proc EXCEPT ![Script(fp)] = s]
  BY DEF Run, StartScript, MakePipes, Fork, startupVars, streamVars
<1>2. /\ \A p \in Int : Before'[p] = Before[p]
      /\ PipeTriggers' = PipeTriggers /\ \A p \in Profilers : ThreadCount(p)' = ThreadCount(p)
  BY <1>1 DEF Before, Counts, PipeTriggers, ThreadCount
<1>3. fp \in Profilers /\ \A p \in Profilers : p \in Int /\ p - 1 \in Int
  BY DEF HoldInv, LoopInv, Profilers
<1>4. \A p \in Profilers : (Gets(p) => Gets(p)') /\ (p # fp /\ Fresh(p) => Fresh(p)')
  BY <1>1, <1>2, <1>3, Names DEF Gets, Fresh, HoldInv
<1>5. \A p \in Int : Left(p) => Left(p)'
  BY <1>1, <1>2 DEF Left
<1>6. Gets(fp) /\ Left(fp)
  BY <1>1 DEF TakenInv, Due, Fresh
<1>7. Gets(fp)' /\ Left(fp)'
  BY <1>1, <1>2, <1>3, <1>6 DEF Gets, Left
<1> QED BY <1>1, <1>3, <1>4, <1>7 DEF TakenInv

(* What was given out in the order of the profilers is given out once.      *)
LEMMA TakenOnce ==
  ASSUME CountsOK, \A p \in Profilers : Gets(p)
  PROVE  \A p, q \in Profilers : \A a \in DOMAIN instrs[p], b \in DOMAIN instrs[q] :
           instrs[p][a] = instrs[q][b] => p = q /\ a = b
<1>1. ASSUME NEW p \in Profilers
      PROVE  /\ ThreadCount(p) \in Nat /\ Before[p - 1] \in Nat
             /\ Before[p] = Before[p - 1] + ThreadCount(p)
             /\ DOMAIN instrs[p] = 1..ThreadCount(p)
             /\ \A a \in DOMAIN instrs[p] : instrs[p][a] = Before[p - 1] + a
  BY SumFacts DEF Gets
<1>2. ASSUME NEW p \in Profilers, NEW q \in Profilers, p < q
      PROVE  Before[p] <= Before[q - 1]
  <2>1. q - 1 \in 0..ProfilerCnt /\ p \in 0..(q - 1)
    BY <1>2, ProfilerCntAssumption DEF Profilers
  <2> QED BY <2>1, BeforeGrows
<1>3. ASSUME NEW p \in Profilers, NEW q \in Profilers, p < q,
             NEW a \in DOMAIN instrs[p], NEW b \in DOMAIN instrs[q]
      PROVE  instrs[p][a] < instrs[q][b]
  <2>1. a \in 1..ThreadCount(p) /\ b \in 1..ThreadCount(q)
        /\ instrs[p][a] = Before[p - 1] + a /\ instrs[q][b] = Before[q - 1] + b
    BY <1>1
  <2>2. Before[p - 1] \in Nat /\ ThreadCount(p) \in Nat /\ Before[q - 1] \in Nat /\ ThreadCount(q) \in Nat
        /\ Before[p - 1] + ThreadCount(p) <= Before[q - 1]
    BY <1>1, <1>2, <1>3
  <2> QED BY <2>1, <2>2
<1> SUFFICES ASSUME NEW p \in Profilers, NEW q \in Profilers,
                    NEW a \in DOMAIN instrs[p], NEW b \in DOMAIN instrs[q], instrs[p][a] = instrs[q][b]
             PROVE  p = q /\ a = b
  OBVIOUS
<1>4. instrs[p][a] \in Nat /\ p \in Int /\ q \in Int
  <2>1. Before[p - 1] \in Nat /\ a \in 1..ThreadCount(p) /\ instrs[p][a] = Before[p - 1] + a
        /\ ThreadCount(p) \in Nat
    BY <1>1
  <2> QED BY <2>1 DEF Profilers
<1>5. p = q
  <2>1. CASE p < q
    BY <1>3, <1>4, <2>1
  <2>2. CASE q < p
    BY <1>3, <1>4, <2>2
  <2> QED BY <1>4, <2>1, <2>2
<1>6. a \in 1..ThreadCount(p) /\ b \in 1..ThreadCount(p) /\ Before[p - 1] + a = Before[p - 1] + b
      /\ Before[p - 1] \in Nat /\ ThreadCount(p) \in Nat
  BY <1>1, <1>5
<1> QED BY <1>5, <1>6

(* EveryStreamTaken, for any number of profilers, cores and options: what   *)
(* is left is what the profilers still to come ask for, since the cores    *)
(* do not change after the streams were counted.                           *)
THEOREM EveryStreamTakenTheorem == StartupSpec => []EveryStreamTaken
<1>1. StartupInit => HoldInv /\ TakenInv
  <2>1. StartupInit => HoldInv
    BY HoldInit
  <2>2. StartupInit => TakenInv
    BY Names DEF StartupInit, Init, TakenInv, Fresh
  <2> QED BY <2>1, <2>2
<1>2. MachineTypeOK /\ CoresFit /\ HoldInv /\ TakenInv /\ [StartupNext]_<<startupVars, childVars>>
        => HoldInv' /\ TakenInv'
  <2> SUFFICES ASSUME MachineTypeOK, CoresFit, HoldInv, TakenInv,
                      [StartupNext]_<<startupVars, childVars>>
               PROVE  HoldInv' /\ TakenInv'
    OBVIOUS
  <2>1. HoldInv'
    <3>1. CASE GetInstructions
      BY <3>1, GetInstructionsHolds
    <3>2. CASE [Next]_childVars
      BY <3>2, HoldStep
    <3> QED BY <3>1, <3>2 DEF StartupNext, StartupRuns, FrontendStarts, FrontendEnds, Run,
         GetCpuConfig, CheckRequirement, ObtainInstructions, Next, FrontendRuns
  <2>2. startup_pc = "run" => CountsOK
    BY CountsAreThreads
  <2>3. CASE GetCpuConfig \/ CheckRequirement
    <3>1. fpc = "wrapper" /\ fpc' = fpc /\ fp' = fp /\ UNCHANGED <<instrs, proc>>
      BY <2>3 DEF GetCpuConfig, CheckRequirement, TakenInv, streamVars, childVars, frontendVars
    <3> QED BY <2>1, <3>1 DEF TakenInv, Fresh
  <2>4. CASE ObtainInstructions
    BY <2>1, <2>2, <2>4, ObtainTakes DEF ObtainInstructions
  <2>5. CASE GetInstructions
    BY <2>1, <2>2, <2>5, GetTakes DEF GetInstructions
  <2>6. CASE Run(AcceptGeneric)
    BY <2>1, <2>6, AcceptTakes
  <2>7. CASE Run(~Due /\ StartScript)
    BY <2>1, <2>7, ScriptTakes
  <2>8. CASE UNCHANGED <<startupVars, childVars>>
    BY <2>1, <2>8, CalmStep, CalmKeeps
  <2>9. ASSUME startup_pc = "run", UNCHANGED startupVars, Aside PROVE TakenInv'
    BY <2>9, CalmStep, CalmKeeps
  <2>10. CASE StartupRuns
    BY <2>3, <2>10 DEF StartupRuns
  <2>11. CASE FrontendStarts
    <3>1. CASE Run(StartWrapper) \/ Run(StartRecord)
      BY <2>1, <2>9, <3>1, Zenon DEF Run, Aside
    <3> QED BY <2>4, <2>5, <2>6, <2>7, <2>11, <3>1, Zenon DEF FrontendStarts
  <2>12. CASE FrontendEnds
    BY <2>1, <2>9, <2>12, Zenon DEF FrontendEnds, Run, Aside
  <2>13. CASE Run(GiveUp) \/ Run(WrapperRuns)
    BY <2>1, <2>9, <2>13, Zenon DEF Run, Aside
  <2>14. ASSUME NEW p \in Profilers,
                \/ Run(RecordEnds(p)) \/ Run(Watch(p))
                \/ Run(ScriptConnects(p)) \/ Run(ScriptFails(p))
         PROVE  TakenInv'
    BY <2>9, <2>14 DEF Run, Aside
  <2>15. ASSUME NEW c \in Readers, Run(ReaderEnds(c)) PROVE TakenInv'
    BY <2>9, <2>15 DEF Run, Aside
  <2>16. ASSUME NEW d \in Dsos, Run(TaskStep(d)) PROVE TakenInv'
    BY <2>9, <2>16 DEF Run, Aside
  <2> QED BY <2>1, <2>8, <2>10, <2>11, <2>12, <2>13, <2>14, <2>15, <2>16 DEF StartupNext
<1>3. MachineTypeOK /\ CoresFit /\ HoldInv /\ TakenInv => EveryStreamTaken
  <2> SUFFICES ASSUME MachineTypeOK, CoresFit, HoldInv, TakenInv PROVE EveryStreamTaken
    OBVIOUS
  <2>1. startup_pc = "run" /\ Due => Len(methods) >= ThreadCount(fp)
    BY CountsAreThreads, EnoughLeft DEF HoldInv, LoopInv
  <2>2. ASSUME fpc \in {"gate", "notify"}
        PROVE  /\ methods = <<>>
               /\ \A p \in Profilers : Len(instrs[p]) = ThreadCount(p)
    <3>1. CountsOK /\ Left(ProfilerCnt) /\ \A p \in Profilers : Gets(p)
      BY <2>2, CountsAreThreads DEF TakenInv
    <3>2. PipeTriggers - Before[ProfilerCnt] = 0
      <4>1. ProfilerCnt \in Profilers
        BY ProfilerCntAssumption DEF Profilers
      <4> QED BY <3>1, <4>1, SumFacts, BeforeStep
    <3>3. methods = <<>>
      BY <3>1, <3>2 DEF Left
    <3>4. ASSUME NEW p \in Profilers PROVE Len(instrs[p]) = ThreadCount(p)
      <4>1. ThreadCount(p) \in Nat /\ instrs[p] = [a \in 1..ThreadCount(p) |-> Before[p - 1] + a]
        BY <3>1 DEF CountsOK, Gets
      <4>2. Len([a \in 1..ThreadCount(p) |-> Before[p - 1] + a]) = ThreadCount(p)
        BY <4>1
      <4> QED BY <4>1, <4>2
    <3> QED BY <3>3, <3>4
  <2>3. fpc \in {"gate", "notify"} => CountsOK /\ \A p \in Profilers : Gets(p)
    BY CountsAreThreads DEF TakenInv
  <2> QED BY <2>1, <2>2, <2>3, TakenOnce DEF EveryStreamTaken
<1> QED BY <1>1, <1>2, <1>3, CoreInvariance, CoresFitTheorem, PTL DEF StartupSpec
=============================================================================
