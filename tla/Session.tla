------------------------------ MODULE Session ------------------------------
(***************************************************************************)
(* A whole profiling session: start_profiling_session, the profiled        *)
(* command behind its wrapper, the profilers - each a perf-record, the     *)
(* perf-script it is piped into and the thread that watches both - and the *)
(* server's side, which is module Client with its inputs bound to what     *)
(* these parties really send.  The server runs inside the frontend's       *)
(* process (server_address is empty), so no files are transferred.         *)
(***************************************************************************)
EXTENDS Client

CONSTANTS
  ProfilerCnt, \* profilers; the first one follows threads, as in launch()
  ThreadCnt,   \* Profiler::get_thread_count of each
  EventOf,     \* the event type each one samples, NoEvent for the first
  MainTid,     \* the wrapper's thread, later the command's first
  GenericCap,  \* messages a pipe between perf-script and frontend can hold
  Faults,      \* what may go wrong, once, in a behaviour
  MaxSamples   \* bound: samples taken of the command in a behaviour

Profilers == 1..ProfilerCnt

ASSUME ProfilersAssumption ==
  /\ ProfilerCnt \in Nat \ {0}
  /\ ThreadCnt \in [Profilers -> Nat \ {0}] /\ ThreadCnt[1] = 1
  /\ EventOf \in [Profilers -> Events \cup {NoEvent}]
  /\ \A p \in Profilers : EventOf[p] = NoEvent <=> p = 1
ASSUME SessionAssumption ==
  /\ MainTid \in Tids
  /\ GenericCap \in Nat \ {0} /\ MaxSamples \in Nat
  /\ Faults \subseteq {"record_exits", "record_signalled", "script_exits",
                      "exec_fails", "command_exits"}

VARIABLES
  fpc,        \* where the frontend's main thread is
  fp,         \* its loop counter over profilers
  code,       \* what start_profiling_session is to return
  toClient,   \* control connection, frontend to client
  wrapper,    \* the process that becomes the profiled command
  threads,    \* threads of the command so far
  methods,    \* streams ServerConnInstrs has not given out
  streams,    \* the streams each profiler was given
  recorder,   \* each perf-record
  perf_pipe,  \* what perf-record has written and perf-script not read
  script,     \* each perf-script
  connected,  \* streams perf-script has opened
  stopped,    \* streams perf-script has closed
  stream,     \* what is on its way to each subclient
  next_index, \* adaptiveperf-process.py: streams given to threads so far
  event_stream_dict, \* ... and the stream of each thread, 0 if none yet
  outbox,     \* what perf-script has still to tell the frontend
  generic,    \* the pipe between them
  watcher,    \* the thread behind Perf::process
  fault,      \* the fault that has happened
  ran         \* history: samples taken of the command

frontendVars == <<fpc, fp, code, toClient>>
commandVars  == <<wrapper, threads, ran>>
setupVars    == <<methods, streams, connected>>
scriptVars   == <<script, stopped, stream, next_index, event_stream_dict, outbox>>
perfVars     == <<recorder, perf_pipe, generic, watcher, fault>>
partyVars    == <<frontendVars, commandVars, setupVars, scriptVars, perfVars>>
sessionVars  == <<vars, partyVars>>

StopLine == [type |-> "<STOP>"]
First(S) == CHOOSE i \in S : \A j \in S : i <= j

SessionInit ==
  /\ Init
  /\ fpc = "wrapper" /\ fp = 1 /\ code = 0 /\ toClient = <<>>
  /\ wrapper = "absent" /\ threads = {}
  /\ methods = {} /\ streams = [p \in Profilers |-> {}]
  /\ recorder = [p \in Profilers |-> "absent"]
  /\ perf_pipe = [p \in Profilers |-> <<>>]
  /\ script = [p \in Profilers |-> "absent"]
  /\ connected = {} /\ stopped = {}
  /\ stream = [i \in Subclients |-> <<>>]
  /\ next_index = [p \in Profilers |-> 0]
  /\ event_stream_dict = [p \in Profilers |-> [t \in Tids |-> 0]]
  /\ outbox = [p \in Profilers |-> <<>>]
  /\ generic = [p \in Profilers |-> <<>>]
  /\ watcher = [p \in Profilers |-> "absent"]
  /\ fault = "none"
  /\ ran = [p \in Profilers |-> NoSamples]

-----------------------------------------------------------------------------
(* The frontend: start_profiling_session. *)

(* Process::start with wait_for_notify: the child blocks on a pipe. *)
StartWrapper ==
  /\ fpc = "wrapper"
  /\ wrapper' = "waiting"
  /\ threads' = {MainTid}
  /\ fpc' = "start"
  /\ UNCHANGED <<vars, fp, code, toClient, ran, setupVars, scriptVars,
                 perfVars>>

SendStart ==
  /\ fpc = "start"
  /\ toClient' = toClient \o <<"start", "filename">>
  /\ fpc' = "instrs"
  /\ UNCHANGED <<vars, fp, code, commandVars, setupVars, scriptVars, perfVars>>

Received(msg) == toFrontend # <<>> /\ Head(toFrontend) = msg

GetInstructions ==
  /\ fpc = "instrs"
  /\ Received("instrs")
  /\ FrontendReads
  /\ methods' = Subclients
  /\ fpc' = "script"
  /\ UNCHANGED <<fp, code, toClient, commandVars, streams, connected,
                 scriptVars, perfVars>>

(* ServerConnInstrs::get_instructions: the next get_thread_count() streams. *)
Handed(p) == {i \in methods : Cardinality({j \in methods : j < i}) < ThreadCnt[p]}

StartScript ==
  /\ fpc = "script"
  /\ Cardinality(Handed(fp)) = ThreadCnt[fp]
  /\ streams' = [streams EXCEPT ![fp] = Handed(fp)]
  /\ methods' = methods \ Handed(fp)
  /\ script' = [script EXCEPT ![fp] = "connect"]
  /\ fpc' = "record"
  /\ UNCHANGED <<vars, fp, code, toClient, commandVars, connected, stopped,
                 stream, next_index, event_stream_dict, outbox, perfVars>>

StartRecord ==
  /\ fpc = "record"
  /\ recorder' = [recorder EXCEPT ![fp] = "attaching"]
  /\ fpc' = "accept"
  /\ UNCHANGED <<vars, fp, code, toClient, commandVars, setupVars, scriptVars,
                 perf_pipe, generic, watcher, fault>>

(* The generic connection is accepted before the next profiler is started. *)
AcceptGeneric ==
  /\ fpc = "accept"
  /\ script[fp] \notin {"connect", "hello"}
  /\ watcher' = [watcher EXCEPT ![fp] = "record"]
  /\ IF fp = ProfilerCnt
       THEN fpc' = "gate" /\ UNCHANGED fp
       ELSE fpc' = "script" /\ fp' = fp + 1
  /\ UNCHANGED <<vars, code, toClient, commandVars, setupVars, scriptVars,
                 recorder, perf_pipe, generic, fault>>

PassGate ==
  /\ fpc = "gate"
  /\ Received("start_profile")
  /\ FrontendReads
  /\ fpc' = "warmup"
  /\ UNCHANGED <<fp, code, toClient, commandVars, setupVars, scriptVars,
                 perfVars>>

(* The warm-up is what makes sure of the recorders: it is long enough.      *)
Warm == \A p \in Profilers : recorder[p] # "attaching"

SendTstamp ==
  /\ fpc = "warmup"
  /\ Warm
  /\ \E t \in Tstamps : toClient' = Append(toClient, t)
  /\ fpc' = "ack"
  /\ UNCHANGED <<vars, fp, code, commandVars, setupVars, scriptVars, perfVars>>

(* NOTIFY_TIMEOUT has passed and the wrapper is dead: is_running() reaps it *)
(* and join() throws.                                                      *)
GateTimeout ==
  /\ fpc = "gate"
  /\ wrapper \in {"dead", "reaped"}
  /\ wrapper' = "reaped"
  /\ code' = 2
  /\ fpc' = "returned"
  /\ UNCHANGED <<vars, fp, toClient, threads, ran, setupVars,
                 scriptVars, perfVars>>

(* Process::notify: the wrapper is told to become the command; if it is    *)
(* dead, nobody holds the read end and SIGPIPE ends the frontend.          *)
NotifyWrapper ==
  /\ fpc = "ack"
  /\ Received("tstamp_ack")
  /\ FrontendReads
  /\ IF wrapper = "waiting"
       THEN wrapper' = "released" /\ fpc' = "join"
       ELSE fpc' = "killed" /\ UNCHANGED wrapper
  /\ UNCHANGED <<fp, code, toClient, threads, ran, setupVars,
                 scriptVars, perfVars>>

(* A watcher may have taken the status: then waitpid fails, join() throws. *)
JoinWrapper ==
  /\ fpc = "join"
  /\ \/ wrapper = "dead" /\ fpc' = "wait" /\ fp' = 1 /\ UNCHANGED code
     \/ wrapper = "reaped" /\ fpc' = "returned" /\ code' = 2 /\ UNCHANGED fp
  /\ wrapper' = "reaped"
  /\ UNCHANGED <<vars, toClient, threads, ran, setupVars, scriptVars,
                 perfVars>>

(* What join() has returned for the wrapper is not 0. *)
CommandFailed == fault \in {"exec_fails", "command_exits"}

(* profiler_and_wrapper_handler: the profilers first, then the command. *)
WaitProfiler ==
  /\ fpc = "wait"
  /\ \/ /\ watcher[fp] = "ok" /\ fp # ProfilerCnt
        /\ fp' = fp + 1 /\ UNCHANGED <<fpc, code>>
     \/ /\ watcher[fp] = "ok" /\ fp = ProfilerCnt /\ ~CommandFailed
        /\ fpc' = "result" /\ UNCHANGED <<fp, code>>
     \/ /\ watcher[fp] = "failed" \/ (watcher[fp] = "ok" /\ fp = ProfilerCnt /\ CommandFailed)
        /\ code' = 2 /\ fpc' = "returned" /\ UNCHANGED fp
  /\ UNCHANGED <<vars, toClient, commandVars, setupVars, scriptVars, perfVars>>

ReadResult ==
  /\ fpc = "result"
  /\ Received("profiling_finished")
  /\ FrontendReads
  /\ fpc' = "drain" /\ fp' = 1
  /\ UNCHANGED <<code, toClient, commandVars, setupVars, scriptVars, perfVars>>

FirstMessage(msg) == TRUE
LastMessage(msg) == msg = "<STOP>"

DrainGeneric ==
  /\ fpc = "drain"
  /\ generic[fp] # <<>>
  /\ generic' = [generic EXCEPT ![fp] = Tail(@)]
  /\ IF ~LastMessage(Head(generic[fp]))
       THEN UNCHANGED <<fpc, fp>>
       ELSE IF fp = ProfilerCnt
              THEN fpc' = "finished" /\ UNCHANGED fp
              ELSE fp' = fp + 1 /\ UNCHANGED fpc
  /\ UNCHANGED <<vars, code, toClient, commandVars, setupVars, scriptVars,
                 recorder, perf_pipe, watcher, fault>>

ReadFinished ==
  /\ fpc = "finished"
  /\ Received("finished")
  /\ FrontendReads
  /\ fpc' = "returned"
  /\ UNCHANGED <<fp, code, toClient, commandVars, setupVars, scriptVars,
                 perfVars>>

FrontendRuns ==
  \/ StartWrapper \/ SendStart \/ GetInstructions
  \/ StartScript \/ StartRecord \/ AcceptGeneric
  \/ PassGate \/ GateTimeout \/ SendTstamp \/ NotifyWrapper \/ JoinWrapper
  \/ WaitProfiler \/ ReadResult \/ DrainGeneric \/ ReadFinished

-----------------------------------------------------------------------------
(* The profiled command and what perf-record sees of it.                    *)

Taken == Cardinality({s \in Profilers \X Tids \X (1..MaxSamples) :
                        s[3] <= ran[s[1]][s[2]]})

SampleOf(p, t) == [type |-> "sample", tid |-> t, event |-> EventOf[p]]
MetaOf(t) == [type |-> "syscall_meta", tid |-> t]

Recorded(p, l) ==
  perf_pipe' = IF recorder[p] = "recording"
                 THEN [perf_pipe EXCEPT ![p] = Append(@, l)] ELSE perf_pipe

(* A sample of the command is due; those of the wrapper while it waits are *)
(* left out.                                                               *)
Sample(p, t) ==
  /\ p # 1 /\ t \in threads
  /\ wrapper = "running"
  /\ Taken < MaxSamples
  /\ Recorded(p, SampleOf(p, t))
  /\ ran' = [ran EXCEPT ![p][t] = @ + 1]
  /\ UNCHANGED <<vars, frontendVars, wrapper, threads, setupVars, scriptVars,
                 recorder, generic, watcher, fault>>

(* execve succeeds. *)
CommandStarts ==
  /\ wrapper = "released"
  /\ wrapper' = "running"
  /\ Recorded(1, MetaOf(MainTid))
  /\ UNCHANGED <<vars, frontendVars, threads, ran, setupVars,
                 scriptVars, recorder, generic, watcher, fault>>

StartThread(t) ==
  /\ wrapper = "running"
  /\ t \notin threads
  /\ threads' = threads \cup {t}
  /\ Recorded(1, MetaOf(t))
  /\ UNCHANGED <<vars, frontendVars, wrapper, ran, setupVars,
                 scriptVars, recorder, generic, watcher, fault>>

(* The command and all its threads end, well or by a signal, which join()  *)
(* takes for well; its last thread's exit is recorded.                     *)
CommandEnds ==
  /\ wrapper = "running"
  /\ wrapper' = "dead"
  /\ Recorded(1, MetaOf(MainTid))
  /\ UNCHANGED <<vars, frontendVars, threads, ran, setupVars,
                 scriptVars, recorder, generic, watcher, fault>>

(* The wrapper exits with a code of its own where it cannot become the     *)
(* command, or the command ends with an error.                             *)
CommandFails(f) ==
  /\ fault = "none"
  /\ f \in Faults \cap {"exec_fails", "command_exits"}
  /\ wrapper = IF f = "exec_fails" THEN "released" ELSE "running"
  /\ wrapper' = "dead"
  /\ Recorded(1, MetaOf(MainTid))
  /\ fault' = f
  /\ UNCHANGED <<vars, frontendVars, threads, ran, setupVars,
                 scriptVars, recorder, generic, watcher>>

(* perf-record gets ready, ... *)
Attach(p) ==
  /\ recorder[p] = "attaching"
  /\ recorder' = [recorder EXCEPT ![p] = "recording"]
  /\ UNCHANGED <<vars, frontendVars, commandVars, setupVars, scriptVars,
                 perf_pipe, generic, watcher, fault>>

(* ... and ends when there is nothing left to record. *)
RecordEnds(p) ==
  /\ recorder[p] = "recording"
  /\ wrapper \in {"dead", "reaped"}
  /\ recorder' = [recorder EXCEPT ![p] = "exited"]
  /\ UNCHANGED <<vars, frontendVars, commandVars, setupVars, scriptVars,
                 perf_pipe, generic, watcher, fault>>

RecordFails(p, f) ==
  /\ fault = "none"
  /\ f \in Faults \cap {"record_exits", "record_signalled"}
  /\ recorder[p] = "recording"
  /\ recorder' = [recorder EXCEPT ![p] =
                    IF f = "record_exits" THEN "failed" ELSE "signalled"]
  /\ fault' = f
  /\ UNCHANGED <<vars, frontendVars, commandVars, setupVars, scriptVars,
                 perf_pipe, generic, watcher>>

-----------------------------------------------------------------------------
(* perf-script with the Python script it runs.                              *)

(* trace_begin: the streams in order, then the frontend. *)
ConnectStream(p) ==
  /\ script[p] = "connect"
  /\ connected' = connected \cup {First(streams[p] \ connected)}
  /\ script' = [script EXCEPT ![p] =
                  IF streams[p] \subseteq connected' THEN "hello" ELSE "connect"]
  /\ UNCHANGED <<vars, frontendVars, commandVars, methods, streams, stopped,
                 stream, next_index, event_stream_dict, outbox, perfVars>>

ConnectFrontend(p) ==
  /\ script[p] = "hello"
  /\ script' = [script EXCEPT ![p] = "process"]
  /\ UNCHANGED <<vars, frontendVars, commandVars, setupVars, stopped,
                 stream, next_index, event_stream_dict, outbox, perfVars>>

(* get_next_event_stream, round robin over the profiler's streams, once for *)
(* every thread.                                                           *)
NextStream(p) ==
  CHOOSE i \in streams[p] :
    Cardinality({j \in streams[p] : j < i}) = next_index[p] % ThreadCnt[p]
NextIndex(p) == (next_index[p] + 1) % ThreadCnt[p]
RoundRobin(p, t) == NextStream(p)
StreamFor(p, t) ==
  IF event_stream_dict[p][t] # 0 THEN event_stream_dict[p][t] ELSE NextStream(p)

ProcessEvent(p) ==
  /\ script[p] = "process"
  /\ perf_pipe[p] # <<>>
  /\ LET l == Head(perf_pipe[p])
         i == StreamFor(p, l.tid)
     IN  /\ perf_pipe' = [perf_pipe EXCEPT ![p] = Tail(@)]
         /\ stream' = [stream EXCEPT ![i] = Append(@, l)]
         /\ event_stream_dict' = [event_stream_dict EXCEPT ![p][l.tid] = i]
         /\ next_index' = [next_index EXCEPT ![p] =
              IF event_stream_dict[p][l.tid] # 0
                THEN @ ELSE NextIndex(p)]
  /\ UNCHANGED <<vars, frontendVars, commandVars, setupVars, script, stopped,
                 outbox,
                 recorder, generic, watcher, fault>>

SawEvent(p) == \E t \in Tids : event_stream_dict[p][t] # 0

(* trace_end: the end mark on every stream, then the frontend is told; the *)
(* script of the samplers has something to tell (sources and symbol maps)  *)
(* only if it saw a sample.                                                *)
StopStream(p) ==
  /\ \/ /\ script[p] = "process"
        /\ perf_pipe[p] = <<>>
        /\ recorder[p] \notin {"absent", "attaching", "recording"}
     \/ script[p] = "stop"
  /\ LET i == First(streams[p] \ stopped)
     IN  /\ stream' = [stream EXCEPT ![i] = Append(@, StopLine)]
         /\ stopped' = stopped \cup {i}
  /\ IF streams[p] \subseteq stopped'
       THEN /\ script' = [script EXCEPT ![p] = "tell"]
            /\ outbox' = [outbox EXCEPT ![p] =
                 (IF p = 1 \/ SawEvent(p)
                    THEN <<"found">> ELSE <<>>) \o <<"<STOP>">>]
       ELSE script' = [script EXCEPT ![p] = "stop"] /\ UNCHANGED outbox
  /\ UNCHANGED <<vars, frontendVars, commandVars, setupVars, next_index,
                 event_stream_dict, perfVars>>

TellFrontend(p) ==
  /\ script[p] = "tell"
  /\ Len(generic[p]) < GenericCap
  /\ generic' = [generic EXCEPT ![p] = Append(@, Head(outbox[p]))]
  /\ outbox' = [outbox EXCEPT ![p] = Tail(@)]
  /\ script' = [script EXCEPT ![p] =
                  IF Len(outbox[p]) = 1 THEN "exited" ELSE "tell"]
  /\ UNCHANGED <<vars, frontendVars, commandVars, setupVars, stopped,
                 stream, next_index, event_stream_dict, recorder, perf_pipe, watcher,
                 fault>>

ScriptFails(p) ==
  /\ fault = "none"
  /\ "script_exits" \in Faults
  /\ script[p] \in {"process", "stop", "tell"}
  /\ script' = [script EXCEPT ![p] = "failed"]
  /\ fault' = "script_exits"
  /\ UNCHANGED <<vars, frontendVars, commandVars, setupVars, stopped,
                 stream, next_index, event_stream_dict, outbox, recorder, perf_pipe,
                 generic, watcher>>

ScriptRuns(p) ==
  \/ ConnectStream(p) \/ ConnectFrontend(p)
  \/ ProcessEvent(p) \/ StopStream(p) \/ TellFrontend(p)

-----------------------------------------------------------------------------
(* The thread that watches a profiler.                                      *)

IgnoreExit(status) == 0
(* WEXITSTATUS is 0 for a process that a signal has ended. *)
ExitCode(status) == IF status = "failed" THEN 1 ELSE 0

(* waitpid(WNOHANG) reaps a wrapper that is dead, else it gets SIGTERM; pid *)
(* is a reference to a parameter that is gone, so neither may happen.       *)
Terminate ==
  wrapper' \in {wrapper,
                IF wrapper \in {"waiting", "released", "running"}
                  THEN "dead" ELSE "reaped"}

WatchRecord(p) ==
  /\ watcher[p] = "record"
  /\ recorder[p] \in {"exited", "failed", "signalled"}
  /\ IF ExitCode(recorder[p]) = 0
       THEN /\ watcher' = [watcher EXCEPT ![p] = "script"]
            /\ UNCHANGED wrapper
       ELSE /\ watcher' = [watcher EXCEPT ![p] = "failed"]
            /\ Terminate
  /\ recorder' = [recorder EXCEPT ![p] = "reaped"]
  /\ UNCHANGED <<vars, frontendVars, threads, ran, setupVars,
                 scriptVars, perf_pipe, generic, fault>>

WatchScript(p) ==
  /\ watcher[p] = "script"
  /\ script[p] \in {"exited", "failed"}
  /\ IF ExitCode(script[p]) = 0
       THEN /\ watcher' = [watcher EXCEPT ![p] = "ok"]
            /\ UNCHANGED wrapper
       ELSE /\ watcher' = [watcher EXCEPT ![p] = "failed"]
            /\ Terminate
  /\ script' = [script EXCEPT ![p] = "reaped"]
  /\ UNCHANGED <<vars, frontendVars, threads, ran, setupVars, stopped,
                 stream, next_index, event_stream_dict, outbox, recorder, perf_pipe,
                 generic, fault>>

-----------------------------------------------------------------------------
(* The server's side, fed by the others.                                    *)

ServerReads ==
  /\ toClient # <<>>
  /\ \/ Head(toClient) = "start" /\ ReadCommand("start", TRUE)
     \/ Head(toClient) = "filename" /\ ReadFilename
     \/ Head(toClient) \in Tstamps /\ ReadTstamp(Head(toClient))
  /\ toClient' = Tail(toClient)
  /\ UNCHANGED <<fpc, fp, code, commandVars, setupVars, scriptVars, perfVars>>

ServerRuns == ClientRuns /\ UNCHANGED partyVars

StreamAccepted(i) ==
  /\ i \in connected
  /\ AcceptConnection(i)
  /\ UNCHANGED partyVars

StreamRead(i) ==
  /\ stream[i] # <<>>
  /\ IF Head(stream[i]) = StopLine
       THEN ReadStop(i) ELSE ReadLine(i, Head(stream[i]))
  /\ stream' = [stream EXCEPT ![i] = Tail(@)]
  /\ UNCHANGED <<frontendVars, commandVars, setupVars, script, stopped,
                 next_index, event_stream_dict, outbox, perfVars>>

StreamRuns(i) ==
  StreamAccepted(i) \/ StreamRead(i) \/ (SubclientRuns(i) /\ UNCHANGED partyVars)

ProfilerRuns(p) ==
  \/ Attach(p) \/ RecordEnds(p)
  \/ ScriptRuns(p)
  \/ WatchRecord(p) \/ WatchScript(p)

SessionNext ==
  \/ FrontendRuns
  \/ \E p \in Profilers : ProfilerRuns(p)
  \/ \E p \in Profilers, t \in Tids : Sample(p, t)
  \/ \E t \in Tids : StartThread(t)
  \/ CommandStarts \/ CommandEnds
  \/ \E f \in Faults : CommandFails(f)
  \/ \E p \in Profilers, f \in Faults : RecordFails(p, f)
  \/ \E p \in Profilers : ScriptFails(p)
  \/ ServerReads \/ ServerRuns
  \/ \E i \in Subclients : StreamRuns(i)

SessionSpec == SessionInit /\ [][SessionNext]_sessionVars

(* Every process and every thread is scheduled, and the command ends.       *)
SessionFairness ==
  /\ WF_sessionVars(FrontendRuns)
  /\ WF_sessionVars(CommandStarts \/ CommandEnds)
  /\ \A p \in Profilers :
       /\ WF_sessionVars(Attach(p) \/ RecordEnds(p))
       /\ WF_sessionVars(ScriptRuns(p))
       /\ WF_sessionVars(WatchRecord(p) \/ WatchScript(p))
  /\ WF_sessionVars(ServerReads \/ ServerRuns)
  /\ \A i \in Subclients : WF_sessionVars(StreamRuns(i))

FairSession == SessionSpec /\ SessionFairness

-----------------------------------------------------------------------------
(* Properties.                                                              *)

(* Type invariant. *)
SessionTypeOK ==
  /\ TypeOK
  /\ fp \in Profilers /\ code \in {0, 2}
  /\ wrapper \in {"absent", "waiting", "released", "running", "dead", "reaped"}
  /\ threads \subseteq Tids
  /\ methods \subseteq Subclients /\ connected \subseteq Subclients
  /\ stopped \subseteq connected
  /\ \A p \in Profilers :
       /\ recorder[p] \in {"absent", "attaching", "recording", "exited",
                          "failed", "signalled", "reaped"}
       /\ script[p] \in {"absent", "connect", "hello", "process", "stop", "tell",
                        "exited", "failed", "reaped"}
       /\ watcher[p] \in {"absent", "record", "script", "ok", "failed"}
       /\ streams[p] \subseteq Subclients
       /\ next_index[p] \in 0..(ThreadCnt[p] - 1)
       /\ \A t \in Tids : event_stream_dict[p][t] \in streams[p] \cup {0}
       /\ Len(generic[p]) <= GenericCap

Sampled(p, t) == final_output[t][EventOf[p]]

(* A session that reports success has lost nothing and counted nothing     *)
(* twice: what it saves of a thread is every sample taken of it, whatever  *)
(* the lag of the scripts, the streams and the merge (profiling.cpp:443-   *)
(* 631, 1081-1100, adaptiveperf-process.py:49-56), and every thread is     *)
(* listed once, although several streams may tell of it: the profiler of   *)
(* threads is merged first (entrypoint.cpp:305-308, client.cpp:111-166).   *)
SuccessIsComplete ==
  fpc = "returned" /\ code = 0 =>
    /\ \A p \in Profilers \ {1}, t \in Tids : Sampled(p, t) = ran[p][t]
    /\ \A t \in threads : thread_tree[t] = 1

(* The profiled command runs only when every stream has reached the        *)
(* subclient that will read it: nothing of it can go unseen                *)
(* (profiling.cpp:552-612, client.cpp:81-99).                              *)
RunsOnlyWhenArmed ==
  wrapper \in {"released", "running"} =>
    /\ connected = Subclients
    /\ \A i \in Subclients : subpc[i] \in Notified
    /\ profile_start

(* A profiler that exits with an error, a command that does and one that   *)
(* cannot be executed are reported, although all the others and the server *)
(* may do well (profilers.cpp:185-275, profiling.cpp:470-548, process.cpp: *)
(* 230-253).  A perf-record that a signal ends is taken for a good end.    *)
FailureReported ==
  fpc = "returned" /\ fault \notin {"none", "record_signalled"} => code # 0

(* Success leaves no process behind and nothing unread in any pipe.        *)
NothingLeftBehind ==
  fpc = "returned" /\ code = 0 =>
    /\ wrapper = "reaped"
    /\ \A p \in Profilers : /\ recorder[p] = "reaped" /\ script[p] = "reaped"
                            /\ generic[p] = <<>> /\ perf_pipe[p] = <<>>
    /\ \A i \in Subclients : stream[i] = <<>>
    /\ toFrontend = <<>>

(* A session in which no profiler fails comes to its end, whatever becomes *)
(* of the command: "Waits for the profiler to finish executing and returns *)
(* its exit code" (profiling.hpp:159).                                     *)
SessionEnds == <>(fpc = "returned" \/ (fault # "none" /\ ~CommandFailed))
=============================================================================
