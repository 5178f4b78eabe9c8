------------------------------ MODULE Children ------------------------------
(***************************************************************************)
(* The processes a profiling session starts and the pipes between them:    *)
(* class Process and the way start_profiling_session, Perf::start and the  *)
(* addr2line pool use it.  A pipe is at its end for its reader once nobody *)
(* holds its write end.  pipe() is called without O_CLOEXEC, so a child    *)
(* keeps, through exec, every write end its parent held at the fork that   *)
(* it does not close itself; this module is about who holds what.          *)
(***************************************************************************)
EXTENDS Integers, FiniteSets

CONSTANTS
  ProfilerCnt, \* profilers, each a perf-script and a perf-record
  Dsos,        \* binaries whose offsets addr2line is asked about
  ReadsStdin,  \* TRUE iff the command reads its standard input to the end
  GivesUp,     \* TRUE iff the session may be abandoned
  ScriptsFail  \* TRUE iff a perf-script may end before it says "connect"

ASSUME ProfilerCntAssumption == ProfilerCnt \in Nat \ {0}
ASSUME ChoiceAssumption == {ReadsStdin, GivesUp, ScriptsFail} \subseteq BOOLEAN

Profilers == 1..ProfilerCnt
Wrapper   == <<"wrapper", 0>>
Script(p) == <<"script", p>>
Record(p) == <<"record", p>>
Addr2line(d) == <<"addr2line", d>>
Frontend  == <<"frontend", 0>>

PerfChildren == {Script(p) : p \in Profilers} \cup {Record(p) : p \in Profilers}
Kids == {Wrapper} \cup PerfChildren \cup {Addr2line(d) : d \in Dsos}
Stdin(c) == <<"stdin", c>>
Notify   == <<"notify", Wrapper>>
Pipes == {Stdin(c) : c \in Kids} \cup {Notify}

VARIABLES
  fpc,      \* where the frontend's main thread is
  fp,       \* its loop counter over profilers
  proc,     \* each child: no pipes yet, pipes only, alive, dead, reaped
  released, \* the wrapper has read the byte that notify() writes
  notified, \* that byte has been written
  holders,  \* the processes that hold the write end of each pipe
  connected,\* the perf-scripts that have said "connect" to the frontend
  watcher,  \* the thread behind each Perf::process
  task,     \* the addr2line jobs of the pool
  gave_up   \* the session was abandoned

frontendVars == <<fpc, fp, gave_up>>
wrapperVars  == <<released, notified>>
childVars == <<frontendVars, wrapperVars, connected, proc, holders, watcher, task>>

Init ==
  /\ fpc = "wrapper" /\ fp = 1
  /\ proc = [c \in Kids |-> "absent"]
  /\ released = FALSE /\ notified = FALSE
  /\ holders = [q \in Pipes |-> {}]
  /\ connected = {}
  /\ watcher = [p \in Profilers |-> "absent"]
  /\ task = [d \in Dsos |-> "queued"]
  /\ gave_up = FALSE

-----------------------------------------------------------------------------
(* Process::start and the end of a process.                                 *)

(* A process drops the write ends of a set of pipes. *)
Drop(h, who, pipes) == [q \in Pipes |-> IF q \in pipes THEN h[q] \ {who} ELSE h[q]]

OwnPipes(c) == {Stdin(c)} \cup (IF c = Wrapper THEN {Notify} ELSE {})

(* First half: the pipes. *)
MakePipes(c) ==
  /\ proc[c] = "absent"
  /\ proc' = [proc EXCEPT ![c] = "piped"]
  /\ holders' = [q \in Pipes |->
                   IF q \in OwnPipes(c) THEN {Frontend} ELSE holders[q]]

(* What the child closes of its own pipes at once; the wrapper keeps its    *)
(* standard input until it is released.                                    *)
ClosedByChild(c) == IF c = Wrapper THEN {Notify} ELSE {Stdin(c)}

(* perf-record's output is perf-script's input: the frontend closes its end *)
(* of that pipe as soon as perf-record has it.                             *)
ParentKeepsEnd(c) == {}
ClosedByParent(c) == {Stdin(Script(p)) : p \in {q \in Profilers : c = Record(q)}}

(* Second half: the fork, and what either side closes after it. *)
Fork(c) ==
  LET inherited == {q \in Pipes : Frontend \in holders[q]} \ ClosedByChild(c)
      forked == [q \in Pipes |->
                   holders[q] \cup (IF q \in inherited THEN {c} ELSE {})]
  IN  /\ proc[c] = "piped"
      /\ proc' = [proc EXCEPT ![c] = "alive"]
      /\ holders' = Drop(forked, Frontend, ClosedByParent(c))

Dies(c) ==
  /\ proc' = [proc EXCEPT ![c] = "dead"]
  /\ holders' = Drop(holders, c, Pipes)

AtEnd(q) == holders[q] = {}

(* waitpid, which blocks. *)
ReapIfDead(c) ==
  proc' = [proc EXCEPT ![c] = IF @ = "dead" THEN "reaped" ELSE @]
Reap(c) == proc[c] = "dead" /\ proc' = [proc EXCEPT ![c] = "reaped"]

-----------------------------------------------------------------------------
(* The children.                                                            *)

WrapperReleased ==
  /\ proc[Wrapper] = "alive" /\ ~released
  /\ notified
  /\ released' = TRUE
  /\ holders' = Drop(holders, Wrapper, {Stdin(Wrapper)})
  /\ UNCHANGED <<frontendVars, proc, notified, connected, watcher, task>>

(* read() returns nothing: ERROR_START_PROFILE. *)
WrapperUnreleased ==
  /\ proc[Wrapper] = "alive" /\ ~released
  /\ ~notified /\ AtEnd(Notify)
  /\ Dies(Wrapper)
  /\ UNCHANGED <<frontendVars, wrapperVars, connected, watcher, task>>

CommandEnds ==
  /\ proc[Wrapper] = "alive" /\ released
  /\ ReadsStdin => AtEnd(Stdin(Wrapper))
  /\ Dies(Wrapper)
  /\ UNCHANGED <<frontendVars, wrapperVars, connected, watcher, task>>

(* perf-record lives as long as the process it is attached to.              *)
RecordEnds(p) ==
  /\ proc[Record(p)] = "alive"
  /\ proc[Wrapper] \in {"dead", "reaped"}
  /\ Dies(Record(p))
  /\ UNCHANGED <<frontendVars, wrapperVars, connected, watcher, task>>

(* perf-script reads its input after trace_begin only. *)
ReaderEnds(c) ==
  /\ proc[c] = "alive"
  /\ \A p \in Profilers : c = Script(p) => p \in connected
  /\ AtEnd(Stdin(c))
  /\ Dies(c)
  /\ UNCHANGED <<frontendVars, wrapperVars, connected, watcher, task>>

ScriptConnects(p) ==
  /\ proc[Script(p)] = "alive" /\ p \notin connected
  /\ connected' = connected \cup {p}
  /\ UNCHANGED <<frontendVars, wrapperVars, proc, holders, watcher, task>>

ScriptFails(p) ==
  /\ ScriptsFail
  /\ proc[Script(p)] = "alive" /\ p \notin connected
  /\ Dies(Script(p))
  /\ UNCHANGED <<frontendVars, wrapperVars, connected, watcher, task>>

-----------------------------------------------------------------------------
(* The frontend.                                                            *)

StartWrapper ==
  /\ fpc = "wrapper"
  /\ \/ MakePipes(Wrapper) /\ UNCHANGED fpc
     \/ Fork(Wrapper) /\ fpc' = "server"
  /\ UNCHANGED <<fp, gave_up, wrapperVars, connected, watcher, task>>

ConnectServer ==
  /\ fpc = "server"
  /\ fpc' = "script"
  /\ UNCHANGED <<fp, gave_up, wrapperVars, proc, holders, connected, watcher, task>>

StartScript ==
  /\ fpc = "script"
  /\ \/ MakePipes(Script(fp)) /\ UNCHANGED fpc
     \/ Fork(Script(fp)) /\ fpc' = "record"
  /\ UNCHANGED <<fp, gave_up, wrapperVars, connected, watcher, task>>

Last == fp = ProfilerCnt

StartRecord ==
  /\ fpc = "record"
  /\ \/ MakePipes(Record(fp)) /\ UNCHANGED fpc
     \/ Fork(Record(fp)) /\ fpc' = "accept"
  /\ UNCHANGED <<fp, gave_up, wrapperVars, connected, watcher, task>>

(* The frontend holds the write end of the generic pipe itself: it waits    *)
(* for "connect" and nothing else.  Then the thread that watches the two.  *)
Accepted == fp \in connected

AcceptGeneric ==
  /\ fpc = "accept"
  /\ Accepted
  /\ watcher' = [watcher EXCEPT ![fp] = "close"]
  /\ IF Last THEN fpc' = "gate" /\ fp' = 1
             ELSE fpc' = "script" /\ fp' = fp + 1
  /\ UNCHANGED <<gave_up, wrapperVars, connected, proc, holders, task>>

(* A message that is not the expected one, an exception, a clock that       *)
(* cannot be read: the function is left and the wrapper is destroyed.      *)
GiveUp ==
  /\ GivesUp
  /\ fpc \in {"server", "gate", "notify"}
  /\ gave_up' = TRUE
  /\ fpc' = "destroy"
  /\ UNCHANGED <<fp, wrapperVars, proc, holders, connected, watcher, task>>

PassGate ==
  /\ fpc = "gate"
  /\ fpc' = "notify"
  /\ UNCHANGED <<fp, gave_up, wrapperVars, proc, holders, connected, watcher, task>>

(* Process::notify: its FileDescriptor closes the pipe as it goes. *)
NotifyWrapper ==
  /\ fpc = "notify"
  /\ notified' = TRUE
  /\ holders' = Drop(holders, Frontend, {Notify})
  /\ fpc' = "close"
  /\ UNCHANGED <<fp, gave_up, proc, released, connected, watcher, task>>

CloseStdin ==
  /\ fpc = "close"
  /\ holders' = Drop(holders, Frontend, {Stdin(Wrapper)})
  /\ fpc' = "join"
  /\ UNCHANGED <<fp, gave_up, proc, wrapperVars, connected, watcher, task>>

JoinWrapper ==
  /\ fpc = "join"
  /\ Reap(Wrapper)
  /\ fpc' = "wait"
  /\ UNCHANGED <<fp, gave_up, wrapperVars, holders, connected, watcher, task>>

(* ~Process: the writing ends are closed, then waitpid. *)
ClosedByDestructor == {Stdin(Wrapper), Notify}

DestroyWrapper ==
  /\ \/ /\ fpc = "destroy"
        /\ holders' = Drop(holders, Frontend, ClosedByDestructor)
        /\ fpc' = "destroying"
        /\ UNCHANGED proc
     \/ /\ fpc = "destroying"
        /\ Reap(Wrapper)
        /\ fpc' = "wait"
        /\ UNCHANGED holders
  /\ UNCHANGED <<fp, gave_up, wrapperVars, connected, watcher, task>>

(* The frontend waits for the watchers; if it gives up, their futures do.   *)
WaitProfilers ==
  /\ fpc = "wait"
  /\ \A p \in Profilers : watcher[p] \in {"absent", "done"}
  /\ fpc' = IF gave_up THEN "returned" ELSE "pool"
  /\ UNCHANGED <<fp, gave_up, wrapperVars, proc, holders, connected, watcher, task>>

(* perf-record's standard input is closed, perf-record joined, then         *)
(* perf-script.                                                            *)
Watch(p) ==
  /\ \/ /\ watcher[p] = "close"
        /\ holders' = Drop(holders, Frontend, {Stdin(Record(p))})
        /\ watcher' = [watcher EXCEPT ![p] = "record"]
        /\ UNCHANGED proc
     \/ /\ watcher[p] = "record"
        /\ Reap(Record(p))
        /\ watcher' = [watcher EXCEPT ![p] = "script"]
        /\ UNCHANGED holders
     \/ /\ watcher[p] = "script"
        /\ Reap(Script(p))
        /\ watcher' = [watcher EXCEPT ![p] = "done"]
        /\ UNCHANGED holders
  /\ UNCHANGED <<frontendVars, wrapperVars, connected, task>>

-----------------------------------------------------------------------------
(* The pool that runs addr2line, one process per binary.                    *)

TwoThreads == 2
PoolThreads == 1

Active == {d \in Dsos : task[d] \notin {"queued", "done"}}

TaskStep(d) ==
  /\ fpc = "pool"
  /\ \/ /\ task[d] = "queued" /\ Cardinality(Active) < PoolThreads
        /\ MakePipes(Addr2line(d))
        /\ task' = [task EXCEPT ![d] = "fork"]
     \/ /\ task[d] = "fork"
        /\ Fork(Addr2line(d))
        /\ task' = [task EXCEPT ![d] = "ask"]
     \/ /\ task[d] = "ask"
        /\ holders' = Drop(holders, Frontend, {Stdin(Addr2line(d))})
        /\ task' = [task EXCEPT ![d] = "wait"]
        /\ UNCHANGED proc
     \/ /\ task[d] = "wait"
        /\ Reap(Addr2line(d))
        /\ task' = [task EXCEPT ![d] = "done"]
        /\ UNCHANGED holders
  /\ UNCHANGED <<frontendVars, wrapperVars, connected, watcher>>

JoinPool ==
  /\ fpc = "pool"
  /\ \A d \in Dsos : task[d] = "done"
  /\ fpc' = "returned"
  /\ UNCHANGED <<fp, gave_up, wrapperVars, proc, holders, connected, watcher, task>>

-----------------------------------------------------------------------------
FrontendRuns ==
  \/ StartWrapper \/ ConnectServer \/ StartScript \/ StartRecord \/ AcceptGeneric
  \/ PassGate \/ NotifyWrapper \/ CloseStdin \/ JoinWrapper
  \/ DestroyWrapper \/ WaitProfilers \/ JoinPool

WrapperRuns == WrapperReleased \/ WrapperUnreleased \/ CommandEnds
Readers == Kids \ ({Wrapper} \cup {Record(p) : p \in Profilers})

Next ==
  \/ FrontendRuns
  \/ GiveUp
  \/ WrapperRuns
  \/ \E p \in Profilers : RecordEnds(p) \/ Watch(p) \/ ScriptConnects(p) \/ ScriptFails(p)
  \/ \E c \in Readers : ReaderEnds(c)
  \/ \E d \in Dsos : TaskStep(d)

Spec == Init /\ [][Next]_childVars

(* Every process and every thread of the pool is scheduled.                 *)
FairSpec ==
  /\ Spec
  /\ WF_childVars(FrontendRuns)
  /\ WF_childVars(WrapperRuns)
  /\ \A p \in Profilers : WF_childVars(RecordEnds(p)) /\ WF_childVars(Watch(p)) /\ WF_childVars(ScriptConnects(p))
  /\ \A c \in Readers : WF_childVars(ReaderEnds(c))
  /\ \A d \in Dsos : WF_childVars(TaskStep(d))

-----------------------------------------------------------------------------
(* Properties.                                                              *)

(* Type invariant. *)
TypeOK ==
  /\ fpc \in {"wrapper", "server", "script", "record", "accept", "gate", "notify",
              "close", "join", "wait", "destroy", "destroying", "pool",
              "returned"}
  /\ fp \in Profilers
  /\ proc \in [Kids -> {"absent", "piped", "alive", "dead", "reaped"}]
  /\ released \in BOOLEAN /\ notified \in BOOLEAN /\ gave_up \in BOOLEAN
  /\ holders \in [Pipes -> SUBSET (Kids \cup {Frontend})]
  /\ connected \subseteq Profilers
  /\ watcher \in [Profilers -> {"absent", "close", "record", "script", "done"}]
  /\ task \in [Dsos -> {"queued", "fork", "ask", "wait", "done"}]

(* Once perf-record has its pipe into perf-script nobody else can write to *)
(* it or keep it open, so that the end perf-script sees is the end of the  *)
(* recording, whichever children are forked later (process.cpp:106-147,    *)
(* 262-266).                                                               *)
PerfPipePrivate ==
  \A p \in Profilers :
    proc[Record(p)] \in {"alive", "dead", "reaped"} =>
      holders[Stdin(Script(p))] \subseteq {Record(p)}

(* The session leaves no process behind that it has not waited for.        *)
NoChildLeft ==
  fpc = "returned" => \A c \in Kids : proc[c] \in {"absent", "reaped"}

(* A perf-script that ended before it said "connect": accept() waits on.   *)
HeldInAccept ==
  fpc = "accept" /\ fp \notin connected /\ proc[Script(fp)] = "dead"

(* Abandoned after a profiler has been started: its children hold the pipe  *)
(* whose end the wrapper waits for (process.cpp:106).                      *)
HeldByWrapper == gave_up /\ \E c \in PerfChildren : proc[c] # "absent"

(* "cleaning up after the session finishes or terminates with an error"    *)
(* (profiling.cpp:289-292): an abandoned session comes to its end too.     *)
GiveUpEnds == gave_up ~> fpc = "returned"
=============================================================================
