------------------------------- MODULE Client -------------------------------
(***************************************************************************)
(* One profiling session on the server: the thread that runs               *)
(* StdClient::process and the threads that run StdSubclient::process, one  *)
(* per stream of profiling data.  They share the counter of accepted       *)
(* connections (behind a mutex and a condition variable), the flag and the *)
(* timestamp that mark the start of profiling (behind nothing), and the    *)
(* result each subclient leaves behind for the client to merge.            *)
(*                                                                         *)
(* The module leaves the frontend and the profilers open: what they send   *)
(* is the parameter of the action that reads it, so everything shown here  *)
(* holds whatever they send, in whatever order.  A blocking read that has  *)
(* nothing to read is an action that is not taken.  What the client sends  *)
(* is the sequence toFrontend.                                             *)
(***************************************************************************)
EXTENDS Integers, Sequences, FiniteSets

CONSTANTS
  SubclientCnt,  \* the number the frontend sends in "start<number> ..."
  Tids,          \* threads of the profiled program
  Events,        \* event types: "walltime" is task-clock and offcpu-time
  Tstamps,       \* profile start timestamps the frontend may send
  Unset,         \* memory that holds no timestamp: 0 or uninitialised
  NoEvent,       \* extra_event_name before the first sample
  FileTransfer,  \* TRUE iff file_acceptor is not null
  StoresInOrder, \* TRUE iff the build makes plain stores visible in order
  CtlCap,        \* bound: messages the control connection can hold
  MaxLines       \* bound: lines one stream delivers

ASSUME SubclientCntAssumption == SubclientCnt \in Nat \ {0}
ASSUME TstampsAssumption == Unset \notin Tstamps
ASSUME EventsAssumption == NoEvent \notin Events
ASSUME BoundsAssumption == CtlCap \in Nat \ {0} /\ MaxLines \in Nat
ASSUME BuildAssumption == FileTransfer \in BOOLEAN /\ StoresInOrder \in BOOLEAN

Subclients == 1..SubclientCnt

VARIABLES
  pc,                   \* where the client's thread is
  toFrontend,           \* control connection, client to frontend
  announced,            \* history: "start_profile" has been written
  mutex,                \* accepted_mutex: "free" or "client"
  accepted,             \* StdClient::accepted
  profile_start,        \* StdClient::profile_start
  profile_start_tstamp, \* StdClient::profile_start_tstamp
  tstamp_msg,           \* the timestamp the frontend sent
  subpc,                \* where each subclient's thread is
  line,                 \* the line a subclient has read and not handled yet
  lines,                \* how many lines a subclient has read
  start_time_set,       \* locals of StdSubclient::process
  start_time,
  extra_event_name,
  samples,              \* samples kept, per thread of the program
  tree,                 \* threads the kept syscall_meta lines tell of
  joined,               \* loop counter of the merge
  tids,                 \* StdClient::process's set of known threads
  thread_tree,          \* entries of metadata["thread_tree"], per thread
  final_output          \* merged samples, per thread and event type

controlVars == <<pc, toFrontend, announced>>
lockVars    == <<mutex, accepted>>
startVars   == <<profile_start, profile_start_tstamp, tstamp_msg>>
readVars    == <<line, lines>>
localVars   == <<start_time_set, start_time, extra_event_name, samples, tree>>
mergeVars   == <<joined, tids, thread_tree, final_output>>
vars == <<controlVars, lockVars, startVars, subpc, readVars, localVars,
          mergeVars>>

-----------------------------------------------------------------------------
(* What a stream carries: JSON lines and the end mark.  A line that is not *)
(* a JSON object with a type, the empty line included, is Junk.            *)
Junk == [type |-> "junk"]
MetaLines == [type : {"syscall_meta"}, tid : Tids]
SampleLines == [type : {"sample"}, tid : Tids, event : Events]
Lines == MetaLines \cup SampleLines \cup {Junk}

ClientPcs == {"command", "filename", "spawn", "instrs", "lock", "check",
              "block", "waiting", "relock", "announce", "tstamp", "store",
              "ack", "merge", "save", "file_instrs", "files", "file",
              "finish", "leave", "unwind", "returned", "threw"}
SubPcs == {"unborn", "accept", "notify", "signal", "read", "line", "done",
           "refused", "failed"}
Ended == {"unborn", "done", "refused", "failed"}

(* What the client sends; "instrs" and "file_instrs" stand for the two      *)
(* messages that say how to connect.                                       *)
FileReplies == {"out_file_ok", "error_out_file", "error_out_file_timeout"}
Messages == FileReplies \cup
  {"error_result_dir", "error_wrong_command", "instrs", "start_profile",
   "error_tstamp", "tstamp_ack", "profiling_finished", "out_files",
   "file_instrs", "error_wrong_file_format", "finished"}

NoSamples == [t \in Tids |-> 0]

(* StdClient's and StdSubclient's constructors and the locals of process(). *)
Init ==
  /\ pc = "command" /\ toFrontend = <<>> /\ announced = FALSE
  /\ mutex = "free" /\ accepted = 0
  /\ profile_start = FALSE /\ profile_start_tstamp = Unset
  /\ tstamp_msg = Unset
  /\ subpc = [i \in Subclients |-> "unborn"]
  /\ line = [i \in Subclients |-> Junk]
  /\ lines = [i \in Subclients |-> 0]
  /\ start_time_set = [i \in Subclients |-> FALSE]
  /\ start_time = [i \in Subclients |-> Unset]
  /\ extra_event_name = [i \in Subclients |-> NoEvent]
  /\ samples = [i \in Subclients |-> NoSamples]
  /\ tree = [i \in Subclients |-> {}]
  /\ joined = 0 /\ tids = {} /\ thread_tree = NoSamples
  /\ final_output = [t \in Tids |-> [e \in Events |-> 0]]

WriteRegardless(msg) == toFrontend' = Append(toFrontend, msg)
(* Connection::write on the control connection: it blocks when full. *)
Write(msg) ==
  /\ Len(toFrontend) < CtlCap
  /\ toFrontend' = Append(toFrontend, msg)

-----------------------------------------------------------------------------
(* Setting up. *)

(* The start command; dirs tells whether the directories could be made. *)
ReadCommand(cmd, dirs) ==
  /\ pc = "command"
  /\ \/ /\ cmd = "start" /\ dirs
        /\ pc' = "filename"
        /\ UNCHANGED toFrontend
     \/ /\ cmd = "start" /\ ~dirs
        /\ Write("error_result_dir")
        /\ pc' = "returned"
     \/ /\ cmd # "start"
        /\ Write("error_wrong_command")
        /\ pc' = "returned"
  /\ UNCHANGED <<announced, lockVars, startVars, subpc, readVars, localVars,
                 mergeVars>>

ReadFilename ==
  /\ pc = "filename"
  /\ pc' = "spawn"
  /\ UNCHANGED <<toFrontend, announced, lockVars, startVars, subpc, readVars,
                 localVars, mergeVars>>

(* make_subclient and std::async, in index order. *)
SpawnSubclient(i) ==
  /\ pc = "spawn"
  /\ subpc[i] = "unborn"
  /\ \A j \in 1..(i - 1) : subpc[j] # "unborn"
  /\ subpc' = [subpc EXCEPT ![i] = "accept"]
  /\ pc' = IF i = SubclientCnt THEN "instrs" ELSE "spawn"
  /\ UNCHANGED <<toFrontend, announced, lockVars, startVars, readVars,
                 localVars, mergeVars>>

WriteInstructions ==
  /\ pc = "instrs"
  /\ Write("instrs")
  /\ pc' = "lock"
  /\ UNCHANGED <<announced, lockVars, startVars, subpc, readVars, localVars,
                 mergeVars>>

-----------------------------------------------------------------------------
(* Waiting for every subclient to be connected.                            *)

LockAccepted ==
  /\ pc \in {"lock", "relock"}
  /\ mutex = "free"
  /\ mutex' = "client"
  /\ pc' = "check"
  /\ UNCHANGED <<toFrontend, announced, accepted, startVars, subpc, readVars,
                 localVars, mergeVars>>

OneTooMany == accepted > SubclientCnt
AllButOneAccepted == accepted >= SubclientCnt - 1
AllAccepted == accepted >= SubclientCnt

CheckAccepted ==
  /\ pc = "check"
  /\ pc' = IF AllAccepted THEN "announce" ELSE "block"
  /\ UNCHANGED <<toFrontend, announced, lockVars, startVars, subpc, readVars,
                 localVars, mergeVars>>

(* condition_variable::wait: the mutex is released as the thread blocks. *)
WaitAccepted ==
  /\ pc = "block"
  /\ pc' = "waiting"
  /\ mutex' = "free"
  /\ UNCHANGED <<toFrontend, announced, accepted, startVars, subpc, readVars,
                 localVars, mergeVars>>

SpuriousWakeup ==
  /\ pc = "waiting"
  /\ pc' = "relock"
  /\ UNCHANGED <<toFrontend, announced, lockVars, startVars, subpc, readVars,
                 localVars, mergeVars>>

(* The mutex stays locked from here on: the lock lives as long as process(). *)
WriteStartProfile ==
  /\ pc = "announce"
  /\ Write("start_profile")
  /\ announced' = TRUE
  /\ pc' = "tstamp"
  /\ UNCHANGED <<lockVars, startVars, subpc, readVars, localVars, mergeVars>>

-----------------------------------------------------------------------------
(* The start of profiling.                                                 *)

ReadTstamp(msg) ==
  /\ pc = "tstamp"
  /\ \/ /\ msg \in Tstamps
        /\ tstamp_msg' = msg
        /\ pc' = "store"
        /\ UNCHANGED <<toFrontend, mutex>>
     \/ /\ msg \notin Tstamps
        /\ Write("error_tstamp")
        /\ pc' = "leave"
        /\ mutex' = "free"
        /\ UNCHANGED tstamp_msg
  /\ UNCHANGED <<announced, accepted, profile_start, profile_start_tstamp,
                 subpc, readVars, localVars, mergeVars>>

(* Two plain stores with no ordering between them: each becomes visible to *)
(* the subclients by itself, both before write() returns to the client.    *)
StoreTstamp ==
  /\ pc = "store"
  /\ profile_start_tstamp = Unset
  /\ profile_start_tstamp' = tstamp_msg
  /\ UNCHANGED <<controlVars, lockVars, profile_start, tstamp_msg, subpc,
                 readVars, localVars, mergeVars>>

MayStoreFlag == StoresInOrder => profile_start_tstamp # Unset

StoreProfileStart ==
  /\ pc = "store"
  /\ ~profile_start
  /\ MayStoreFlag
  /\ profile_start' = TRUE
  /\ UNCHANGED <<controlVars, lockVars, profile_start_tstamp, tstamp_msg,
                 subpc, readVars, localVars, mergeVars>>

BeforeStores == TRUE
AfterStores == profile_start_tstamp # Unset /\ profile_start

WriteTstampAck ==
  /\ pc = "store"
  /\ AfterStores
  /\ Write("tstamp_ack")
  /\ pc' = "merge"
  /\ UNCHANGED <<announced, lockVars, startVars, subpc, readVars, localVars,
                 mergeVars>>

-----------------------------------------------------------------------------
(* Collecting the results.  threads[i].get() waits for subclient i and     *)
(* rethrows what it threw.                                                 *)

AllSampled(sampled, known) == sampled
(* The threads that get an entry of their own, "?", when samples are merged. *)
Unlisted(sampled, known) == sampled \ known

MergeResult(i) ==
  LET sampled == {t \in Tids : samples[i][t] > 0}
      known   == tids \cup tree[i]
  IN  /\ pc = "merge"
      /\ i = joined + 1
      /\ subpc[i] = "done"
      /\ joined' = i
      /\ tids' = known
      /\ thread_tree' = [t \in Tids |->
           thread_tree[t] + (IF t \in tree[i] THEN 1 ELSE 0)
                          + (IF t \in Unlisted(sampled, known) THEN 1 ELSE 0)]
      /\ final_output' = [t \in Tids |-> [e \in Events |->
           IF t \in sampled /\ e = extra_event_name[i]
             THEN samples[i][t] ELSE final_output[t][e]]]
      /\ pc' = IF i = SubclientCnt THEN "save" ELSE "merge"
      /\ UNCHANGED <<toFrontend, announced, lockVars, startVars, subpc,
                     readVars, localVars>>

RethrowSubclientError(i) ==
  /\ pc = "merge"
  /\ i = joined + 1
  /\ subpc[i] \in {"refused", "failed"}
  /\ pc' = "unwind"
  /\ mutex' = "free"
  /\ UNCHANGED <<toFrontend, announced, accepted, startVars, subpc, readVars,
                 localVars, mergeVars>>

(* The files are saved without a look at whether that worked. *)
SaveResults ==
  /\ pc = "save"
  /\ IF FileTransfer
       THEN Write("out_files") /\ pc' = "file_instrs"
       ELSE Write("profiling_finished") /\ pc' = "finish"
  /\ UNCHANGED <<announced, lockVars, startVars, subpc, readVars, localVars,
                 mergeVars>>

WriteFileInstructions ==
  /\ pc = "file_instrs"
  /\ Write("file_instrs")
  /\ pc' = "files"
  /\ UNCHANGED <<announced, lockVars, startVars, subpc, readVars, localVars,
                 mergeVars>>

(* "p <name>" and "o <name>" announce a file that arrives on a connection  *)
(* of its own; anything else but the end mark is answered and forgotten.   *)
ReadFileCommand(cmd) ==
  /\ pc = "files"
  /\ \/ /\ cmd = "<STOP>"
        /\ pc' = "finish"
        /\ UNCHANGED toFrontend
     \/ /\ cmd = "file"
        /\ pc' = "file"
        /\ UNCHANGED toFrontend
     \/ /\ cmd \notin {"<STOP>", "file"}
        /\ Write("error_wrong_file_format")
        /\ UNCHANGED pc
  /\ UNCHANGED <<announced, lockVars, startVars, subpc, readVars, localVars,
                 mergeVars>>

(* The file is accepted and read to its end, to a full disk or a timeout. *)
ReceiveFile(reply) ==
  /\ pc = "file"
  /\ reply \in FileReplies
  /\ Write(reply)
  /\ pc' = "files"
  /\ UNCHANGED <<announced, lockVars, startVars, subpc, readVars, localVars,
                 mergeVars>>

WriteFinished ==
  /\ pc = "finish"
  /\ Write("finished")
  /\ pc' = "returned"
  /\ mutex' = "free"
  /\ UNCHANGED <<announced, accepted, startVars, subpc, readVars, localVars,
                 mergeVars>>

-----------------------------------------------------------------------------
(* Leaving early.  An exception of the control connection, of a file       *)
(* connection or of the archive, or an acceptor that cannot be made,       *)
(* unwinds process(): first the lock goes, then each future waits for its  *)
(* subclient, then the subclients are destroyed.                           *)

ThrowingPcs == {"command", "filename", "spawn", "instrs", "announce",
                "tstamp", "store", "save", "file_instrs", "files", "file",
                "finish"}

ClientThrows ==
  /\ pc \in ThrowingPcs
  /\ pc' = "unwind"
  /\ mutex' = "free"
  /\ UNCHANGED <<toFrontend, announced, accepted, startVars, subpc, readVars,
                 localVars, mergeVars>>

NoWait == TRUE
AllEnded == \A i \in Subclients : subpc[i] \in Ended

DestroyLocals ==
  /\ pc \in {"leave", "unwind"}
  /\ AllEnded
  /\ pc' = IF pc = "leave" THEN "returned" ELSE "threw"
  /\ UNCHANGED <<toFrontend, announced, lockVars, startVars, subpc, readVars,
                 localVars, mergeVars>>

(* The frontend takes a message off the control connection. *)
FrontendReads ==
  /\ toFrontend # <<>>
  /\ toFrontend' = Tail(toFrontend)
  /\ UNCHANGED <<pc, announced, lockVars, startVars, subpc, readVars,
                 localVars, mergeVars>>

-----------------------------------------------------------------------------
(* The subclients.                                                         *)

AcceptConnection(i) ==
  /\ subpc[i] = "accept"
  /\ subpc' = [subpc EXCEPT ![i] = "notify"]
  /\ UNCHANGED <<controlVars, lockVars, startVars, readVars, localVars,
                 mergeVars>>

(* accept() throws: nobody is notified, the future keeps the exception. *)
AcceptFails(i) ==
  /\ subpc[i] = "accept"
  /\ subpc' = [subpc EXCEPT ![i] = "refused"]
  /\ UNCHANGED <<controlVars, lockVars, startVars, readVars, localVars,
                 mergeVars>>

NotifyWithoutMutex == TRUE
MutexFree == mutex = "free"

(* StdClient::notify: the increment in its critical section, ... *)
IncrementAccepted(i) ==
  /\ subpc[i] = "notify"
  /\ MutexFree
  /\ accepted' = accepted + 1
  /\ subpc' = [subpc EXCEPT ![i] = "signal"]
  /\ UNCHANGED <<controlVars, mutex, startVars, readVars, localVars,
                 mergeVars>>

(* ... and notify_all after it. *)
NotifyAll(i) ==
  /\ subpc[i] = "signal"
  /\ subpc' = [subpc EXCEPT ![i] = "read"]
  /\ pc' = IF pc = "waiting" THEN "relock" ELSE pc
  /\ UNCHANGED <<toFrontend, announced, lockVars, startVars, readVars,
                 localVars, mergeVars>>

(* Connection::read hands over one line; whether profiling has started is  *)
(* looked up after that, in HandleLine.                                    *)
ReadLine(i, l) ==
  /\ subpc[i] = "read"
  /\ lines[i] < MaxLines
  /\ line' = [line EXCEPT ![i] = l]
  /\ lines' = [lines EXCEPT ![i] = @ + 1]
  /\ subpc' = [subpc EXCEPT ![i] = "line"]
  /\ UNCHANGED <<controlVars, lockVars, startVars, localVars, mergeVars>>

(* <STOP>: the start of profiling is not looked up again; a subclient that *)
(* has never seen it leaves an empty result.                               *)
ReadStop(i) ==
  /\ subpc[i] = "read"
  /\ subpc' = [subpc EXCEPT ![i] = "done"]
  /\ IF start_time_set[i]
       THEN UNCHANGED <<samples, tree>>
       ELSE /\ samples' = [samples EXCEPT ![i] = NoSamples]
            /\ tree' = [tree EXCEPT ![i] = {}]
  /\ UNCHANGED <<controlVars, lockVars, startVars, readVars, start_time_set,
                 start_time, extra_event_name, mergeVars>>

ReadFails(i) ==
  /\ subpc[i] = "read"
  /\ subpc' = [subpc EXCEPT ![i] = "failed"]
  /\ UNCHANGED <<controlVars, lockVars, startVars, readVars, localVars,
                 mergeVars>>

(* get_profile_start_tstamp *)
LookupStart(i) ==
  /\ start_time_set' = [start_time_set EXCEPT ![i] = profile_start]
  /\ start_time' = [start_time EXCEPT ![i] =
                      IF profile_start THEN profile_start_tstamp ELSE @]

KeepMeta(i) ==
  /\ line[i] \in MetaLines
  /\ tree' = [tree EXCEPT ![i] = @ \cup {line[i].tid}]
  /\ UNCHANGED <<extra_event_name, samples>>

(* The first sample seen after the start fixes the event type. *)
Expected(i) ==
  /\ line[i] \in SampleLines
  /\ profile_start
  /\ extra_event_name[i] \in {NoEvent, line[i].event}

KeepSample(i) ==
  /\ Expected(i)
  /\ extra_event_name' = [extra_event_name EXCEPT ![i] = line[i].event]
  /\ samples' = [samples EXCEPT ![i][line[i].tid] = @ + 1]
  /\ UNCHANGED tree

DropLine(i) ==
  /\ line[i] \notin MetaLines
  /\ ~Expected(i)
  /\ UNCHANGED <<extra_event_name, samples, tree>>

HandleLine(i) ==
  /\ subpc[i] = "line"
  /\ LookupStart(i)
  /\ KeepMeta(i) \/ KeepSample(i) \/ DropLine(i)
  /\ subpc' = [subpc EXCEPT ![i] = "read"]
  /\ UNCHANGED <<controlVars, lockVars, startVars, readVars, mergeVars>>

-----------------------------------------------------------------------------
Commands == {"start", "other"}
FileCommands == {"file", "other", "<STOP>"}
TstampMsgs == Tstamps \cup {Unset}

(* What the client's thread does by itself, between two blocking reads. *)
ClientRuns ==
  \/ \E i \in Subclients : SpawnSubclient(i)
  \/ WriteInstructions
  \/ LockAccepted \/ CheckAccepted \/ WaitAccepted
  \/ WriteStartProfile
  \/ StoreTstamp \/ StoreProfileStart \/ WriteTstampAck
  \/ \E i \in Subclients : MergeResult(i) \/ RethrowSubclientError(i)
  \/ SaveResults \/ WriteFileInstructions \/ WriteFinished
  \/ DestroyLocals

SubclientRuns(i) == IncrementAccepted(i) \/ NotifyAll(i) \/ HandleLine(i)

(* What depends on somebody else: input, and what may fail. *)
ClientReads ==
  \/ \E cmd \in Commands, dirs \in BOOLEAN : ReadCommand(cmd, dirs)
  \/ ReadFilename
  \/ \E msg \in TstampMsgs : ReadTstamp(msg)
  \/ \E cmd \in FileCommands : ReadFileCommand(cmd)
  \/ \E reply \in FileReplies : ReceiveFile(reply)

SubclientReads(i) ==
  \/ AcceptConnection(i)
  \/ \E l \in Lines : ReadLine(i, l)
  \/ ReadStop(i)

Fails ==
  \/ ClientThrows
  \/ \E i \in Subclients : AcceptFails(i) \/ ReadFails(i)

Next ==
  \/ ClientRuns
  \/ ClientReads
  \/ \E i \in Subclients : SubclientRuns(i) \/ SubclientReads(i)
  \/ Fails
  \/ SpuriousWakeup
  \/ FrontendReads

Spec == Init /\ [][Next]_vars

(* The scheduler runs every thread that can run, and a thread that waits   *)
(* for the mutex gets it if the mutex is free again and again.             *)
Fairness ==
  /\ WF_vars(ClientRuns)
  /\ SF_vars(LockAccepted)
  /\ \A i \in Subclients :
       /\ WF_vars(NotifyAll(i) \/ HandleLine(i))
       /\ SF_vars(IncrementAccepted(i))

FairSpec == Spec /\ Fairness

-----------------------------------------------------------------------------
(* Properties.                                                             *)

(* Type invariant. *)
ControlTypeOK ==
  /\ pc \in ClientPcs
  /\ toFrontend \in Seq(Messages)
  /\ Len(toFrontend) <= CtlCap
  /\ announced \in BOOLEAN

LockTypeOK == mutex \in {"free", "client"} /\ accepted \in Nat

StartTypeOK ==
  /\ profile_start \in BOOLEAN
  /\ profile_start_tstamp \in TstampMsgs
  /\ tstamp_msg \in TstampMsgs

SubclientTypeOK ==
  /\ subpc \in [Subclients -> SubPcs]
  /\ line \in [Subclients -> Lines]
  /\ lines \in [Subclients -> 0..MaxLines]
  /\ start_time_set \in [Subclients -> BOOLEAN]
  /\ start_time \in [Subclients -> TstampMsgs]
  /\ extra_event_name \in [Subclients -> Events \cup {NoEvent}]
  /\ samples \in [Subclients -> [Tids -> Nat]]
  /\ tree \in [Subclients -> SUBSET Tids]

MergeTypeOK ==
  /\ joined \in 0..SubclientCnt
  /\ tids \in SUBSET Tids
  /\ thread_tree \in [Tids -> Nat]
  /\ final_output \in [Tids -> [Events -> Nat]]

TypeOK ==
  ControlTypeOK /\ LockTypeOK /\ StartTypeOK /\ SubclientTypeOK /\ MergeTypeOK

Connected == {"notify", "signal", "read", "line", "done", "failed"}
Notified  == Connected \ {"notify"}
Arrived   == {i \in Subclients : subpc[i] \in Notified}

(* process() keeps accepted_mutex locked to its end (client.cpp:81).  That *)
(* is harmless only if, once it has stopped waiting, no subclient is still *)
(* to call notify(): such a subclient would block for good, and the join   *)
(* of its future with it.                                                  *)
NotifierNeverShutOut ==
  mutex = "client" /\ pc \notin {"check", "block"} =>
    \A i \in Subclients : subpc[i] # "notify"

(* "start_profile" opens the gate for the profiled command, and only after *)
(* every subclient has its connection (client.cpp:81-86): the client       *)
(* implements the abstract rendezvous.                                     *)
Gate == INSTANCE Rendezvous
          WITH Parties <- Subclients, arrived <- Arrived, open <- announced
ImplementsRendezvous == Gate!GateSpec

(* A subclient that has seen the start of profiling uses the timestamp the *)
(* frontend sent (client.cpp:96-97 against client.cpp:328-335): "gets the  *)
(* Unix timestamp of the start of profiling and saves it".                 *)
PublishedStart ==
  \A i \in Subclients : start_time_set[i] => start_time[i] = tstamp_msg

(* Whatever order the two stores become visible in: a line handled after   *)
(* the acknowledgement of the timestamp - every line about the profiled    *)
(* command, which waits for it - is handled with the right start time.     *)
TimedAfterAck ==
  [][\A i \in Subclients :
       pc \in {"merge", "save", "finish"} /\ HandleLine(i) =>
         start_time_set'[i] /\ start_time'[i] = tstamp_msg]_vars

(* When process() is over, however it ended, no subclient thread runs: it  *)
(* would use the client and its own object after their destruction         *)
(* (client.cpp:64-70, 145-146, 155).                                       *)
NoOrphanSubclient ==
  pc \in {"returned", "threw"} => \A i \in Subclients : subpc[i] \in Ended

(* Streams merged so far that told of a thread, and those that brought     *)
(* samples of it before any stream that told of it was merged.             *)
Told(t)   == {i \in 1..joined : t \in tree[i]}
Unnamed(t) == {i \in 1..joined :
                 samples[i][t] > 0 /\ \A j \in 1..i : t \notin tree[j]}

(* Every thread with merged samples is in the thread tree the frontend     *)
(* will show, also if no syscall_meta line told of it, and it has no entry *)
(* too many (client.cpp:111-166): one for each stream that told of it and  *)
(* a "?" for each that only sampled it and came first.  So a thread the    *)
(* tracer tells of is listed once as long as the tracer is merged first.   *)
SampledThreadListed ==
  \A t \in Tids :
    /\ (\E e \in Events : final_output[t][e] > 0) => thread_tree[t] > 0
    /\ thread_tree[t] = Cardinality(Told(t)) + Cardinality(Unnamed(t))

(* No wake-up is lost between the check of the counter and the wait        *)
(* (client.cpp:81-84, 320-326): with every stream connected the client     *)
(* lets profiling start, unless its own connection fails.                  *)
GateOpens ==
  (\A i \in Subclients : subpc[i] \in Connected)
    ~> (announced \/ pc \in {"unwind", "threw"})

-----------------------------------------------------------------------------
(* The inductive invariant behind the safety properties above.             *)

BeforeSpawn == {"command", "filename"}
BeforeStart == BeforeSpawn \cup
  {"spawn", "instrs", "lock", "check", "block", "waiting", "relock",
   "announce", "tstamp"}
Collected   == {"save", "file_instrs", "files", "file", "finish"}
AfterStart  == {"merge"} \cup Collected
PastGate    == {"announce", "tstamp", "store", "leave"} \cup AfterStart
HoldsMutex  == {"check", "block", "announce", "tstamp", "store"} \cup AfterStart

CountInv == accepted = Cardinality(Arrived)
MutexInv == mutex = "client" <=> pc \in HoldsMutex
GateInv  == announced \/ pc \in PastGate =>
              \A i \in Subclients : subpc[i] \in Notified
BirthInv == pc \in BeforeSpawn => \A i \in Subclients : subpc[i] = "unborn"
JoinInv  ==
  /\ pc \in BeforeStart \cup {"store"} => joined = 0
  /\ pc = "merge" => /\ joined < SubclientCnt
                     /\ \A i \in 1..joined : subpc[i] = "done"
  /\ pc \in Collected => \A i \in Subclients : subpc[i] = "done"
PublishInv ==
  /\ pc \in BeforeStart => ~profile_start /\ profile_start_tstamp = Unset
  /\ pc = "store" => tstamp_msg \in Tstamps
  /\ profile_start_tstamp \in {Unset, tstamp_msg}
  /\ pc \in AfterStart => profile_start /\ profile_start_tstamp = tstamp_msg
  /\ ~profile_start => \A i \in Subclients : ~start_time_set[i]
OrderInv ==
  StoresInOrder =>
    /\ profile_start => profile_start_tstamp = tstamp_msg
    /\ PublishedStart
ListInv ==
  /\ SampledThreadListed
  /\ \A t \in tids : thread_tree[t] > 0
  /\ \A t \in Tids : t \in tids <=> \E j \in 1..joined : t \in tree[j]
  /\ \A j \in 1..joined : subpc[j] = "done"

SessionInv ==
  /\ TypeOK
  /\ CountInv /\ MutexInv /\ GateInv
  /\ BirthInv /\ JoinInv /\ NoOrphanSubclient
  /\ PublishInv /\ OrderInv
  /\ ListInv
=============================================================================
