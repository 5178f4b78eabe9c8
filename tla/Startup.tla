------------------------------ MODULE Startup ------------------------------
(***************************************************************************)
(* From the command line to the running children: main_entrypoint chooses  *)
(* the cores, start_profiling_session checks what the profilers require of *)
(* the machine and then starts the children of module Children, each       *)
(* profiler with as many of the server's streams as it has threads.        *)
(*                                                                         *)
(* Parsing is left out: an option is the value CLI11 lets through.         *)
(***************************************************************************)
EXTENDS Children, Sequences

CONSTANTS
  MaxCores,    \* bound on std::thread::hardware_concurrency()
  MaxStacks    \* values of kernel.perf_event_max_stack

ASSUME MaxCoresAssumption == MaxCores \in Nat
ASSUME MaxStacksAssumption == MaxStacks \subseteq Nat

ReqTypes == {"SysKernelDebugReq", "PerfEventKernelSettingsReq", "NUMAMitigationReq"}
Requirements == <<"SysKernelDebugReq", "PerfEventKernelSettingsReq", "NUMAMitigationReq">>

VARIABLES
  num_proc, post_process, external, \* the machine and the options -p and -a
  satisfied,       \* the requirements this machine satisfies
  kernel_stack,    \* its kernel.perf_event_max_stack
  startup_pc,      \* "cores", "check", "run", or "refused"
  cpu_config,
  i, j,            \* profiler and requirement checked next
  already_checked, \* Requirement::already_checked
  max_stack,       \* each profiler's max_stack
  methods,         \* ServerConnInstrs::methods
  instrs           \* the streams each profiler was given

machineVars == <<num_proc, post_process, external, satisfied, kernel_stack>>
checkVars   == <<i, j, already_checked, max_stack>>
streamVars  == <<methods, instrs>>
startupVars == <<machineVars, startup_pc, cpu_config, checkVars, streamVars>>

Invalid == [valid |-> FALSE, profiler |-> {}, command |-> {}]

(* The requirement on kernel.perf_event_max_stack is that it be 1024 or more. *)
StartupInit ==
  /\ Init
  /\ num_proc \in 0..MaxCores /\ external \in BOOLEAN
  /\ post_process \in 0..(IF num_proc - 3 < 1 THEN 1 ELSE num_proc - 3)
  /\ satisfied \in SUBSET ReqTypes
  /\ kernel_stack \in MaxStacks
  /\ "PerfEventKernelSettingsReq" \in satisfied => kernel_stack >= 1024
  /\ startup_pc = "cores" /\ cpu_config = Invalid
  /\ i = 1 /\ j = 1 /\ already_checked = <<>>
  /\ max_stack = [p \in Profilers |-> 1024]
  /\ methods = <<>> /\ instrs = [p \in Profilers |-> <<>>]

-----------------------------------------------------------------------------
(* get_cpu_config and the class CPUConfig.                                  *)

CPUConfig(mask) ==
  [valid    |-> mask # <<>>,
   profiler |-> {k \in DOMAIN mask : mask[k] \in {"p", "b"}},
   command  |-> {k \in DOMAIN mask : mask[k] \in {"c", "b"}}]

TooManyByOne(n, p) == p > n - 2
TooMany(n, p) == p > n - 3

(* The mask of the first n cores; the sequence counts them from 1.  A      *)
(* machine with fewer than four never comes to the cases made for it.      *)
Mask(n, p, ext) ==
  CASE n = 0 -> <<>>
    [] n > 0 /\ p = 0 -> [k \in 1..n |-> "b"]
    [] n > 0 /\ p > 0 /\ TooMany(n, p) -> <<>>
    [] n = 1 /\ p > 0 /\ ~TooMany(n, p) -> IF ext THEN <<"b">> ELSE <<>>
    [] n = 2 /\ p > 0 /\ ~TooMany(n, p) -> <<"p", "c">>
    [] n = 3 /\ p > 0 /\ ~TooMany(n, p) -> <<"p", "p", "c">>
    [] n > 3 /\ p > 0 /\ ~TooMany(n, p) ->
         [k \in 1..n |-> IF k <= 2 THEN " " ELSE IF k <= 2 + p THEN "p" ELSE "c"]

GetCpuConfig ==
  /\ startup_pc = "cores"
  /\ cpu_config' = CPUConfig(Mask(num_proc, post_process, external))
  /\ startup_pc' = IF cpu_config'.valid THEN "check" ELSE "refused"
  /\ UNCHANGED <<machineVars, checkVars, streamVars, childVars>>

-----------------------------------------------------------------------------
(* The requirements, profiler by profiler.                                  *)

(* A look at the machine; the one at the kernel's settings writes down how  *)
(* deep a stack may be.                                                    *)
CheckInternal(req) ==
  max_stack' = IF req = "PerfEventKernelSettingsReq" /\ req \in satisfied
               THEN [max_stack EXCEPT ![i] = kernel_stack] ELSE max_stack

(* Requirement::check: the answer is kept by type of requirement.           *)
Check(req) ==
  IF req \in DOMAIN already_checked
  THEN UNCHANGED <<already_checked, max_stack>>
  ELSE /\ already_checked' =
            [r \in DOMAIN already_checked \cup {req} |->
               IF r = req THEN req \in satisfied ELSE already_checked[r]]
       /\ CheckInternal(req)

AllButLast == Len(Requirements) - 1
EveryRequirement == Len(Requirements)

CheckRequirement ==
  /\ startup_pc = "check"
  /\ Check(Requirements[j])
  /\ IF ~already_checked'[Requirements[j]]
     THEN startup_pc' = "refused" /\ UNCHANGED <<i, j>>
     ELSE IF j < EveryRequirement
     THEN j' = j + 1 /\ UNCHANGED <<i, startup_pc>>
     ELSE IF i < ProfilerCnt
     THEN i' = i + 1 /\ j' = 1 /\ UNCHANGED startup_pc
     ELSE startup_pc' = "run" /\ UNCHANGED <<i, j>>
  /\ UNCHANGED <<machineVars, cpu_config, streamVars, childVars>>

-----------------------------------------------------------------------------
(* The children, and the streams they are given.                            *)

(* The thread tree has one stream, any other profiler one for each core.   *)
ThreadCount(p) == IF p = 1 THEN 1 ELSE Cardinality(cpu_config.profiler)

Counts == [p \in Profilers |-> ThreadCount(p)]
OnePerProfiler == ProfilerCnt
PipeTriggers ==
  LET sum[p \in 0..ProfilerCnt] == IF p = 0 THEN 0 ELSE sum[p - 1] + Counts[p]
  IN  sum[ProfilerCnt]

(* "start<N>" is answered with N connection instructions. *)
ObtainInstructions ==
  /\ startup_pc = "run"
  /\ ConnectServer
  /\ methods' = [m \in 1..PipeTriggers |-> m]
  /\ UNCHANGED <<machineVars, startup_pc, cpu_config, checkVars, instrs>>

(* The first thing Perf::start does; too few streams left would be an       *)
(* exception that ends start_profiling_session.                            *)
Due == fpc = "script" /\ proc[Script(fp)] = "absent" /\ instrs[fp] = <<>>

GetInstructions ==
  /\ startup_pc = "run" /\ Due
  /\ IF Len(methods) >= ThreadCount(fp)
     THEN /\ instrs' = [instrs EXCEPT ![fp] = SubSeq(methods, 1, ThreadCount(fp))]
          /\ methods' = SubSeq(methods, ThreadCount(fp) + 1, Len(methods))
          /\ UNCHANGED <<gave_up, fpc>>
     ELSE /\ methods' = <<>> /\ UNCHANGED instrs
          /\ gave_up' = TRUE /\ fpc' = "destroy"
  /\ UNCHANGED <<machineVars, startup_pc, cpu_config, checkVars, fp,
                 wrapperVars, connected, proc, holders, watcher, task>>

Run(A) == startup_pc = "run" /\ A /\ UNCHANGED startupVars

StartupRuns == GetCpuConfig \/ CheckRequirement
FrontendStarts ==
  \/ Run(StartWrapper) \/ ObtainInstructions \/ GetInstructions
  \/ Run(~Due /\ StartScript) \/ Run(StartRecord) \/ Run(AcceptGeneric)
FrontendEnds ==
  \/ Run(PassGate) \/ Run(NotifyWrapper) \/ Run(CloseStdin) \/ Run(JoinWrapper)
  \/ Run(DestroyWrapper) \/ Run(WaitProfilers) \/ Run(JoinPool)

StartupNext ==
  \/ StartupRuns
  \/ FrontendStarts
  \/ FrontendEnds
  \/ Run(GiveUp)
  \/ Run(WrapperRuns)
  \/ \E p \in Profilers :
       \/ Run(RecordEnds(p)) \/ Run(Watch(p))
       \/ Run(ScriptConnects(p)) \/ Run(ScriptFails(p))
  \/ \E c \in Readers : Run(ReaderEnds(c))
  \/ \E d \in Dsos : Run(TaskStep(d))

StartupSpec == StartupInit /\ [][StartupNext]_<<startupVars, childVars>>

(* Every process and every thread of the pool is scheduled. *)
FairStartupSpec ==
  /\ StartupSpec
  /\ WF_<<startupVars, childVars>>(StartupRuns \/ FrontendStarts \/ FrontendEnds)
  /\ WF_<<startupVars, childVars>>(Run(WrapperRuns))
  /\ \A p \in Profilers :
       /\ WF_<<startupVars, childVars>>(Run(RecordEnds(p)))
       /\ WF_<<startupVars, childVars>>(Run(Watch(p)))
       /\ WF_<<startupVars, childVars>>(Run(ScriptConnects(p)))
  /\ \A c \in Readers : WF_<<startupVars, childVars>>(Run(ReaderEnds(c)))
  /\ \A d \in Dsos : WF_<<startupVars, childVars>>(Run(TaskStep(d)))

-----------------------------------------------------------------------------
(* Properties.                                                              *)

(* Whatever machine and options: cores that are accepted exist, there are   *)
(* some for the profilers and some for the command, and -p of them are     *)
(* kept from the command, unless it is 0 and all are shared               *)
(* (entrypoint.cpp:83-103, profiling.cpp:190-270).                         *)
CoresFit ==
  LET cores == cpu_config.profiler \cap cpu_config.command
  IN  startup_pc \in {"check", "run"} =>
        /\ cpu_config.profiler # {} /\ cpu_config.command # {}
        /\ cpu_config.profiler \cup cpu_config.command \subseteq 1..num_proc
        /\ IF post_process = 0 THEN cores = 1..num_proc
           ELSE cores = {} /\ Cardinality(cpu_config.profiler) = post_process

(* The streams asked for are those handed out: no profiler finds too few    *)
(* (profiling.cpp:155-169), none is given another's, and once all have     *)
(* started none is left for which the server would wait for ever.          *)
EveryStreamTaken ==
  /\ startup_pc = "run" /\ Due => Len(methods) >= ThreadCount(fp)
  /\ fpc \in {"gate", "notify"} =>
       /\ methods = <<>>
       /\ \A p \in Profilers : Len(instrs[p]) = ThreadCount(p)
       /\ \A p, q \in Profilers : \A a \in DOMAIN instrs[p], b \in DOMAIN instrs[q] :
            instrs[p][a] = instrs[q][b] => p = q /\ a = b

(* No process is started on a machine that fails a requirement of any of    *)
(* the profilers or without a valid choice of cores, although every answer *)
(* is reused for all objects of a type (profiling.hpp:53-61).              *)
NothingStartedUnfit ==
  (\E c \in Kids : proc[c] # "absent") => cpu_config.valid /\ satisfied = ReqTypes

(* A session that is not refused ends: every reader sees the end of its     *)
(* pipe, also in the pool, where children are forked while the pipes of    *)
(* others are open (profiling.cpp:747-792), and so does the wrapper of a   *)
(* session that is abandoned before it has started a profiler              *)
(* (process.cpp:37-52, 152-162).  The exceptions are one abandoned later   *)
(* and a perf-script that fails before it has connected (profilers.cpp:182). *)
StartedSessionEnds ==
  <>(startup_pc = "refused" \/ fpc = "returned" \/ HeldByWrapper \/ HeldInAccept)

(* "Indicates where the value of kernel.perf_event_max_stack should be       *)
(* written to" (requirements.cpp:48-49): every profiler knows it.          *)
StackDepthAgreed ==
  startup_pc = "run" => \A p \in Profilers : max_stack[p] = kernel_stack
=============================================================================
