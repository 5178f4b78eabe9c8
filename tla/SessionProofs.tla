---------------------------- MODULE SessionProofs ----------------------------
(***************************************************************************)
(* Theorems about module Session: a session behaves as module Client says   *)
(* of a client whose inputs are left open, so what is proved of every       *)
(* client holds here; the profiled command runs only when armed; a failure *)
(* is reported; a success leaves nothing behind and is complete.  In order: *)
(* the streams and the gate (StreamsInv, ArmInv), the watchers (ReportInv,  *)
(* CommandInv), the ends of the pipes and of the merge (EndInv), and where  *)
(* each event of the command is until it is saved (EventsInv).             *)
(***************************************************************************)
EXTENDS Session, ClientProofs, WellFoundedInduction

(* First, the least of a set of streams.                                   *)
LEMMA FirstIsLeast ==
  ASSUME NEW S, S \subseteq Nat, S # {}
  PROVE  First(S) \in S /\ \A i \in S : First(S) <= i
<1>1. \E x \in S : \A y \in S : ~(<<y, x>> \in OpToRel(<, Nat))
  BY NatLessThanWellFounded, WFMin
<1>2. \E x \in S : \A y \in S : ~(y < x)
  BY <1>1, Zenon DEF OpToRel
<1>3. \E x \in S : \A y \in S : x <= y
  BY <1>2
<1> QED BY <1>3 DEF First

-----------------------------------------------------------------------------
(* What flows from perf-record to the subclients.                           *)

EventLines == MetaLines \cup SampleLines

FlowInv ==
  /\ perf_pipe \in [Profilers -> Seq(EventLines)]
  /\ stream \in [Subclients -> Seq(EventLines \cup {StopLine})]

LEMMA Appended ==
  ASSUME NEW D, NEW S, NEW f \in [D -> Seq(S)], NEW d, NEW x \in S
  PROVE  [f EXCEPT ![d] = Append(@, x)] \in [D -> Seq(S)]
<1>1. CASE d \in D
  BY <1>1
<1>2. CASE d \notin D
  <2>1. [f EXCEPT ![d] = Append(@, x)] = f
    BY <1>2
  <2> QED BY <2>1
<1> QED BY <1>1, <1>2

LEMMA Shortened ==
  ASSUME NEW D, NEW S, NEW f \in [D -> Seq(S)], NEW d \in D, f[d] # <<>>
  PROVE  [f EXCEPT ![d] = Tail(@)] \in [D -> Seq(S)] /\ Head(f[d]) \in S
OBVIOUS

(* Every line comes from perf-record, and only perf-script ends a stream.   *)
LEMMA FlowStep == FlowInv /\ [SessionNext]_sessionVars => FlowInv'
<1> SUFFICES ASSUME FlowInv, [SessionNext]_sessionVars PROVE FlowInv'
  OBVIOUS
<1> USE DEF FlowInv
<1>1. CASE UNCHANGED <<perf_pipe, stream>>
  BY <1>1
<1>2. ASSUME NEW p \in Profilers, NEW l \in EventLines, Recorded(p, l), UNCHANGED stream
      PROVE  FlowInv'
  <2>1. [perf_pipe EXCEPT ![p] = Append(@, l)] \in [Profilers -> Seq(EventLines)]
    BY <1>2, Appended
  <2> QED BY <1>2, <2>1 DEF Recorded
<1>3. 1 \in Profilers /\ MainTid \in Tids
  BY ProfilersAssumption, SessionAssumption DEF Profilers
<1>4. \A t \in Tids : MetaOf(t) \in EventLines
  BY DEF MetaOf, EventLines, MetaLines
<1>5. ASSUME NEW p \in Profilers, NEW t \in Tids, Sample(p, t) PROVE FlowInv'
  <2>1. EventOf[p] \in Events
    BY <1>5, ProfilersAssumption DEF Sample
  <2>2. SampleOf(p, t) \in EventLines
    BY <2>1 DEF SampleOf, EventLines, SampleLines
  <2> QED BY <1>2, <1>5, <2>2 DEF Sample, scriptVars
<1>6. ASSUME NEW t \in Tids, StartThread(t) PROVE FlowInv'
  BY <1>2, <1>3, <1>4, <1>6 DEF StartThread, scriptVars
<1>7. CASE CommandStarts
  BY <1>2, <1>3, <1>4, <1>7 DEF CommandStarts, scriptVars
<1>8. CASE CommandEnds \/ (\E f \in Faults : CommandFails(f))
  BY <1>2, <1>3, <1>4, <1>8 DEF CommandEnds, CommandFails, scriptVars
<1>9. ASSUME NEW p \in Profilers, ProcessEvent(p) PROVE FlowInv'
  <2> DEFINE l == Head(perf_pipe[p])
             i == StreamFor(p, l.tid)
  <2>1. /\ perf_pipe[p] # <<>>
        /\ perf_pipe' = [perf_pipe EXCEPT ![p] = Tail(@)]
        /\ stream' = [stream EXCEPT ![i] = Append(@, l)]
    BY <1>9 DEF ProcessEvent
  <2>2. l \in EventLines /\ perf_pipe' \in [Profilers -> Seq(EventLines)]
    BY <2>1, Shortened
  <2>3. stream' \in [Subclients -> Seq(EventLines \cup {StopLine})]
    <3>1. l \in EventLines \cup {StopLine}
      BY <2>2
    <3> HIDE DEF l, i
    <3> QED BY <2>1, <3>1, Appended
  <2> QED BY <2>2, <2>3
<1>10. ASSUME NEW p \in Profilers, StopStream(p) PROVE FlowInv'
  <2>1. PICK i : stream' = [stream EXCEPT ![i] = Append(@, StopLine)]
    BY <1>10 DEF StopStream
  <2>2. UNCHANGED perf_pipe
    BY <1>10 DEF StopStream, perfVars
  <2>3. stream' \in [Subclients -> Seq(EventLines \cup {StopLine})]
    BY <2>1, Appended
  <2> QED BY <2>2, <2>3
<1>11. ASSUME NEW i \in Subclients, StreamRead(i) PROVE FlowInv'
  <2>1. stream[i] # <<>> /\ stream' = [stream EXCEPT ![i] = Tail(@)] /\ UNCHANGED perf_pipe
    BY <1>11 DEF StreamRead, perfVars
  <2> QED BY <2>1, Shortened
<1>12. CASE FrontendRuns
  BY <1>1, <1>12 DEF FrontendRuns, StartWrapper, SendStart, GetInstructions, StartScript,
     StartRecord, AcceptGeneric, PassGate, GateTimeout, SendTstamp, NotifyWrapper,
     JoinWrapper, WaitProfiler, ReadResult, DrainGeneric, ReadFinished, scriptVars, perfVars
<1>13. ASSUME NEW p \in Profilers,
              Attach(p) \/ RecordEnds(p) \/ WatchRecord(p) \/ WatchScript(p)
              \/ ConnectStream(p) \/ ConnectFrontend(p) \/ TellFrontend(p) \/ ScriptFails(p)
              \/ \E f \in Faults : RecordFails(p, f)
       PROVE  FlowInv'
  BY <1>1, <1>13 DEF Attach, RecordEnds, WatchRecord, WatchScript, ConnectStream,
     ConnectFrontend, TellFrontend, ScriptFails, RecordFails, scriptVars, perfVars
<1>14. CASE ServerReads \/ ServerRuns
  BY <1>1, <1>14 DEF ServerReads, ServerRuns, partyVars, scriptVars, perfVars
<1>15. ASSUME NEW i \in Subclients, StreamAccepted(i) \/ (SubclientRuns(i) /\ UNCHANGED partyVars)
       PROVE  FlowInv'
  BY <1>1, <1>15 DEF StreamAccepted, partyVars, scriptVars, perfVars
<1>16. CASE UNCHANGED sessionVars
  BY <1>1, <1>16 DEF sessionVars, partyVars, scriptVars, perfVars
<1> QED
  BY <1>5, <1>6, <1>7, <1>8, <1>9, <1>10, <1>11, <1>12, <1>13, <1>14, <1>15, <1>16
     DEF SessionNext, ProfilerRuns, ScriptRuns, StreamRuns

-----------------------------------------------------------------------------
(* Every step of a session is one of the client, or leaves it alone.        *)

LEMMA SessionStepIsClientStep == FlowInv /\ [SessionNext]_sessionVars => [Next]_vars
<1> SUFFICES ASSUME FlowInv, [SessionNext]_sessionVars PROVE [Next]_vars
  OBVIOUS
<1>1. CASE FrontendRuns
  BY <1>1 DEF FrontendRuns, StartWrapper, SendStart, GetInstructions, StartScript,
     StartRecord, AcceptGeneric, PassGate, GateTimeout, SendTstamp, NotifyWrapper,
     JoinWrapper, WaitProfiler, ReadResult, DrainGeneric, ReadFinished, Next
<1>2. ASSUME NEW p \in Profilers, ProfilerRuns(p) \/ ScriptFails(p) PROVE [Next]_vars
  BY <1>2 DEF ProfilerRuns, Attach, RecordEnds, WatchRecord, WatchScript, ScriptRuns,
     ConnectStream, ConnectFrontend, ProcessEvent, StopStream, TellFrontend, ScriptFails
<1>3. ASSUME NEW p \in Profilers, NEW t \in Tids, Sample(p, t) PROVE [Next]_vars
  BY <1>3 DEF Sample
<1>4. ASSUME NEW t \in Tids, StartThread(t) PROVE [Next]_vars
  BY <1>4 DEF StartThread
<1>5. CASE CommandStarts \/ CommandEnds \/ (\E f \in Faults : CommandFails(f))
  BY <1>5 DEF CommandStarts, CommandEnds, CommandFails
<1>6. ASSUME NEW p \in Profilers, NEW f \in Faults, RecordFails(p, f) PROVE [Next]_vars
  BY <1>6 DEF RecordFails
<1>7. CASE ServerReads
  <2>1. "start" \in Commands /\ Tstamps \subseteq TstampMsgs
    BY DEF Commands, TstampMsgs
  <2>2. ClientReads
    BY <1>7, <2>1 DEF ServerReads, ClientReads
  <2> QED BY <2>2 DEF Next
<1>8. CASE ServerRuns
  BY <1>8 DEF ServerRuns, Next
<1>9. ASSUME NEW i \in Subclients, StreamRuns(i) PROVE [Next]_vars
  <2>1. CASE StreamAccepted(i)
    BY <2>1 DEF StreamAccepted, Next, SubclientReads
  <2>2. CASE StreamRead(i)
    <3>1. Head(stream[i]) \in EventLines \cup {StopLine}
      BY <2>2, Shortened DEF StreamRead, FlowInv
    <3>2. Head(stream[i]) # StopLine => Head(stream[i]) \in Lines
      BY <3>1 DEF EventLines, Lines
    <3> QED BY <2>2, <3>2 DEF StreamRead, Next, SubclientReads
  <2>3. CASE SubclientRuns(i)
    BY <2>3 DEF Next
  <2> QED BY <1>9, <2>1, <2>2, <2>3 DEF StreamRuns
<1>10. CASE UNCHANGED sessionVars
  BY <1>10 DEF sessionVars
<1> QED BY <1>1, <1>2, <1>3, <1>4, <1>5, <1>6, <1>7, <1>8, <1>9, <1>10 DEF SessionNext

LEMMA FlowInit == SessionInit => FlowInv
<1>1. <<>> \in Seq(EventLines) /\ <<>> \in Seq(EventLines \cup {StopLine})
  OBVIOUS
<1> QED BY <1>1 DEF SessionInit, FlowInv

(* A client in a session behaves as module Client allows, so what is proved *)
(* of every client, whoever feeds it, holds of the session.                *)
THEOREM SessionIsClient == SessionSpec => Spec
<1>1. SessionInit => Init
  BY DEF SessionInit
<1>2. FlowInv /\ [SessionNext]_sessionVars => FlowInv' /\ [Next]_vars
  BY FlowStep, SessionStepIsClientStep
<1> QED BY <1>1, <1>2, FlowInit, PTL DEF SessionSpec, Spec

-----------------------------------------------------------------------------
(* The streams and who connects them.                                       *)

(* Streams are given to one profiler each, and only those given are         *)
(* connected.                                                              *)
StreamsInv ==
  /\ fp \in Profilers
  /\ streams \in [Profilers -> SUBSET Subclients] /\ methods \subseteq Subclients
  /\ connected \subseteq Subclients /\ connected \cap methods = {}
  /\ DOMAIN script = Profilers
  /\ \A p \in Profilers : streams[p] \cap methods = {}
  /\ \A p, q \in Profilers : p # q => streams[p] \cap streams[q] = {}
  /\ \A p \in Profilers : script[p] = "connect" => ~(streams[p] \subseteq connected)
  /\ fpc \in {"wrapper", "start", "instrs"} =>
       connected = {} /\ \A p \in Profilers : streams[p] = {}

LEMMA StreamsInit == SessionInit => StreamsInv
BY ProfilersAssumption DEF SessionInit, StreamsInv, Profilers

LEMMA StreamsStep == StreamsInv /\ [SessionNext]_sessionVars => StreamsInv'
<1> SUFFICES ASSUME StreamsInv, [SessionNext]_sessionVars PROVE StreamsInv'
  OBVIOUS
<1>1. ASSUME UNCHANGED <<streams, methods, connected>>, fp' \in Profilers,
             DOMAIN script' = Profilers,
             \A p \in Profilers : script'[p] = "connect" => script[p] = "connect",
             fpc' \in {"wrapper", "start", "instrs"} => fpc \in {"wrapper", "start", "instrs"}
      PROVE  StreamsInv'
  BY <1>1 DEF StreamsInv
<1>2. fp \in Profilers /\ 1 \in Profilers /\ (fp # ProfilerCnt => fp + 1 \in Profilers)
  BY ProfilersAssumption DEF StreamsInv, Profilers
<1>3. DOMAIN script = Profilers
  BY DEF StreamsInv
<1>4. CASE GetInstructions
  BY <1>4 DEF GetInstructions, StreamsInv, scriptVars
<1>5. CASE StartScript
  <2>1. Handed(fp) \subseteq methods /\ Handed(fp) # {}
    <3>1. ThreadCnt[fp] # 0 /\ Cardinality(Handed(fp)) = ThreadCnt[fp]
      BY <1>2, <1>5, ProfilersAssumption DEF StartScript
    <3> QED BY <3>1, FS_EmptySet DEF Handed
  <2> DEFINE handed == Handed(fp)
  <2>2. /\ streams' = [streams EXCEPT ![fp] = handed]
        /\ methods' = methods \ handed
        /\ script' = [script EXCEPT ![fp] = "connect"]
        /\ fpc' = "record" /\ UNCHANGED <<fp, connected>>
    BY <1>5 DEF StartScript
  <2>3. handed \subseteq methods /\ handed # {}
    BY <2>1
  <2> HIDE DEF handed
  <2> QED BY <2>2, <2>3 DEF StreamsInv
<1>6. CASE StartWrapper \/ SendStart \/ StartRecord \/ AcceptGeneric \/ PassGate
           \/ GateTimeout \/ SendTstamp \/ NotifyWrapper \/ JoinWrapper
           \/ WaitProfiler \/ ReadResult \/ DrainGeneric \/ ReadFinished
  BY <1>1, <1>2, <1>3, <1>6 DEF StartWrapper, SendStart,
     StartRecord, AcceptGeneric, PassGate, GateTimeout, SendTstamp, NotifyWrapper,
     JoinWrapper, WaitProfiler, ReadResult, DrainGeneric, ReadFinished, setupVars, scriptVars
<1>7. ASSUME NEW p \in Profilers, ConnectStream(p) PROVE StreamsInv'
  <2> DEFINE i == First(streams[p] \ connected)
  <2>1. i \in streams[p] \ connected
    <3>1. streams[p] \ connected # {} /\ streams[p] \ connected \subseteq Nat
      BY <1>7 DEF ConnectStream, StreamsInv, Subclients
    <3> QED BY <3>1, FirstIsLeast
  <2>2. /\ connected' = connected \cup {i}
        /\ script' = [script EXCEPT ![p] = IF streams[p] \subseteq connected' THEN "hello" ELSE "connect"]
        /\ UNCHANGED <<fp, fpc, methods, streams>>
    BY <1>7 DEF ConnectStream, frontendVars
  <2> HIDE DEF i
  <2>3. \A q \in Profilers : script'[q] = "connect" => ~(streams[q] \subseteq connected')
    BY <2>1, <2>2 DEF StreamsInv
  <2> QED BY <2>1, <2>2, <2>3 DEF StreamsInv
<1>8. ASSUME NEW p \in Profilers,
             Attach(p) \/ RecordEnds(p) \/ WatchRecord(p) \/ WatchScript(p)
             \/ ConnectFrontend(p) \/ ProcessEvent(p) \/ StopStream(p)
             \/ TellFrontend(p) \/ ScriptFails(p)
             \/ \E f \in Faults : RecordFails(p, f)
      PROVE  StreamsInv'
  BY <1>1, <1>2, <1>3, <1>8 DEF Attach, RecordEnds, WatchRecord, WatchScript,
     ConnectFrontend, ProcessEvent, StopStream, TellFrontend, ScriptFails, RecordFails,
     setupVars, scriptVars, frontendVars
<1>9. CASE \/ CommandStarts \/ CommandEnds \/ (\E f \in Faults : CommandFails(f))
           \/ \E p \in Profilers, t \in Tids : Sample(p, t)
           \/ \E t \in Tids : StartThread(t)
  BY <1>1, <1>2, <1>3, <1>9 DEF CommandStarts, CommandEnds, CommandFails, Sample, StartThread,
     setupVars, scriptVars, frontendVars
<1>10. CASE ServerReads \/ ServerRuns \/ \E i \in Subclients : StreamRuns(i)
  BY <1>1, <1>2, <1>3, <1>10 DEF ServerReads, ServerRuns, StreamRuns, StreamAccepted, StreamRead,
     partyVars, setupVars, scriptVars, frontendVars
<1>11. CASE UNCHANGED sessionVars
  BY <1>1, <1>2, <1>3, <1>11 DEF sessionVars, partyVars, setupVars, scriptVars, frontendVars
<1> QED
  BY <1>4, <1>5, <1>6, <1>7, <1>8, <1>9, <1>10, <1>11
     DEF SessionNext, FrontendRuns, ProfilerRuns, ScriptRuns

-----------------------------------------------------------------------------
(* Who tells the wrapper to run.                                            *)

Armed == profile_start /\ \A i \in Subclients : subpc[i] \in Notified
AckInv == \A k \in DOMAIN toFrontend : toFrontend[k] = "tstamp_ack" => Armed

(* What one step of the client can do to the gate.                          *)
LEMMA ArmedStep == TypeOK /\ Armed /\ [Next]_vars => Armed'
<1> SUFFICES ASSUME TypeOK, Armed, [Next]_vars PROVE Armed'
  OBVIOUS
<1> USE DEF TypeOK, SubclientTypeOK, Armed, Notified, Connected,
        controlVars, lockVars, startVars, readVars, localVars, mergeVars
<1>1. CASE UNCHANGED <<profile_start, subpc>>
  BY <1>1
<1>2. CASE ClientRuns
  BY <1>2 DEF ClientRuns, SpawnSubclient, WriteInstructions, LockAccepted, CheckAccepted,
     WaitAccepted, WriteStartProfile, StoreTstamp, StoreProfileStart, WriteTstampAck,
     MergeResult, RethrowSubclientError, SaveResults, WriteFileInstructions,
     WriteFinished, DestroyLocals
<1>3. CASE ClientReads
  BY <1>1, <1>3 DEF ClientReads, ReadCommand, ReadFilename, ReadTstamp, ReadFileCommand, ReceiveFile
<1>4. ASSUME NEW i \in Subclients, SubclientRuns(i) \/ SubclientReads(i) PROVE Armed'
  BY <1>4 DEF SubclientRuns, SubclientReads, IncrementAccepted, NotifyAll, HandleLine,
     AcceptConnection, ReadLine, ReadStop
<1>5. CASE Fails \/ SpuriousWakeup \/ FrontendReads
  BY <1>5 DEF Fails, ClientThrows, AcceptFails, ReadFails, SpuriousWakeup, FrontendReads
<1>6. CASE UNCHANGED vars
  BY <1>1, <1>6 DEF vars
<1> QED BY <1>2, <1>3, <1>4, <1>5, <1>6 DEF Next

(* The acknowledgement is sent once both stores are done, past the gate.    *)
LEMMA AckStep == SessionInv /\ AckInv /\ [Next]_vars => AckInv'
<1> SUFFICES ASSUME SessionInv, AckInv, [Next]_vars PROVE AckInv'
  OBVIOUS
<1> USE DEF controlVars, lockVars, startVars, readVars, localVars, mergeVars
<1>1. TypeOK /\ toFrontend \in Seq(Messages) /\ (Armed => Armed')
  BY ArmedStep DEF SessionInv, TypeOK, ControlTypeOK
<1>2. CASE UNCHANGED toFrontend
  BY <1>1, <1>2 DEF AckInv
<1>3. ASSUME NEW msg, msg # "tstamp_ack", toFrontend' = Append(toFrontend, msg) PROVE AckInv'
  BY <1>1, <1>3 DEF AckInv
<1>4. CASE WriteTstampAck
  <2>1. Armed'
    BY <1>1, <1>4 DEF WriteTstampAck, AfterStores, Armed, SessionInv, GateInv, PastGate, AfterStart
  <2> QED BY <2>1 DEF AckInv
<1>5. CASE FrontendReads
  BY <1>1, <1>5 DEF FrontendReads, AckInv
<1>6. CASE WriteInstructions \/ WriteStartProfile \/ SaveResults \/ WriteFileInstructions \/ WriteFinished
  BY <1>3, <1>6 DEF WriteInstructions, WriteStartProfile, SaveResults, WriteFileInstructions,
     WriteFinished, Write
<1>7. CASE \/ \E i \in Subclients : SpawnSubclient(i) \/ MergeResult(i) \/ RethrowSubclientError(i)
           \/ LockAccepted \/ CheckAccepted \/ WaitAccepted
           \/ StoreTstamp \/ StoreProfileStart \/ DestroyLocals
  BY <1>2, <1>7 DEF SpawnSubclient, LockAccepted, CheckAccepted, WaitAccepted,
     StoreTstamp, StoreProfileStart, MergeResult, RethrowSubclientError, DestroyLocals
<1>8. CASE ClientReads
  <2>1. \A reply \in FileReplies : reply # "tstamp_ack"
    BY DEF FileReplies
  <2> QED BY <1>2, <1>3, <1>8, <2>1 DEF ClientReads, ReadCommand, ReadFilename, ReadTstamp,
       ReadFileCommand, ReceiveFile, Write
<1>9. ASSUME NEW i \in Subclients, SubclientRuns(i) \/ SubclientReads(i) PROVE AckInv'
  BY <1>2, <1>9 DEF SubclientRuns, SubclientReads, IncrementAccepted, NotifyAll, HandleLine,
     AcceptConnection, ReadLine, ReadStop
<1>10. CASE Fails \/ SpuriousWakeup
  BY <1>2, <1>10 DEF Fails, ClientThrows, AcceptFails, ReadFails, SpuriousWakeup
<1>11. CASE UNCHANGED vars
  BY <1>2, <1>11 DEF vars
<1> QED BY <1>4, <1>5, <1>6, <1>7, <1>8, <1>9, <1>10, <1>11 DEF Next, ClientRuns

ArmInv ==
  /\ AckInv
  /\ wrapper \in {"released", "running"} => Armed
  /\ \A i \in Subclients : subpc[i] \in Connected => i \in connected

(* A stream the subclient has is one perf-script has opened.               *)
LEMMA ConnectedStep ==
  ASSUME SessionInv, ArmInv, [SessionNext]_sessionVars
  PROVE  (\A i \in Subclients : subpc[i] \in Connected => i \in connected)'
<1> USE DEF ArmInv, SessionInv, TypeOK, SubclientTypeOK, Connected,
        controlVars, lockVars, startVars, readVars, localVars, mergeVars
<1> DEFINE Known == \A i \in Subclients : subpc[i] \in Connected => i \in connected
<1>1. ASSUME connected \subseteq connected', UNCHANGED subpc PROVE Known'
  BY <1>1
<1>2. CASE FrontendRuns
  BY <1>1, <1>2 DEF FrontendRuns, StartWrapper, SendStart, GetInstructions, StartScript,
     StartRecord, AcceptGeneric, PassGate, GateTimeout, SendTstamp, NotifyWrapper,
     JoinWrapper, WaitProfiler, ReadResult, DrainGeneric, ReadFinished, FrontendReads,
     setupVars, vars
<1>3. ASSUME NEW p \in Profilers, ProfilerRuns(p) \/ ScriptFails(p) PROVE Known'
  BY <1>1, <1>3 DEF ProfilerRuns, Attach, RecordEnds, WatchRecord, WatchScript, ScriptRuns,
     ConnectStream, ConnectFrontend, ProcessEvent, StopStream, TellFrontend, ScriptFails,
     setupVars, vars
<1>4. CASE \/ \E p \in Profilers, t \in Tids : Sample(p, t)
           \/ \E t \in Tids : StartThread(t)
           \/ CommandStarts \/ CommandEnds \/ (\E f \in Faults : CommandFails(f))
           \/ \E p \in Profilers, f \in Faults : RecordFails(p, f)
  BY <1>1, <1>4 DEF Sample, StartThread, CommandStarts, CommandEnds, CommandFails, RecordFails, setupVars, vars
<1>5. CASE ServerReads
  BY <1>1, <1>5 DEF ServerReads, ReadCommand, ReadFilename, ReadTstamp, setupVars
<1>6. CASE ServerRuns
  BY <1>6 DEF ServerRuns, ClientRuns, SpawnSubclient, WriteInstructions, LockAccepted,
     CheckAccepted, WaitAccepted, WriteStartProfile, StoreTstamp, StoreProfileStart,
     WriteTstampAck, MergeResult, RethrowSubclientError, SaveResults,
     WriteFileInstructions, WriteFinished, DestroyLocals, partyVars, setupVars
<1>7. ASSUME NEW i \in Subclients, StreamRuns(i) PROVE Known'
  BY <1>7 DEF StreamRuns, StreamAccepted, StreamRead, SubclientRuns, AcceptConnection,
     ReadLine, ReadStop, IncrementAccepted, NotifyAll, HandleLine, partyVars, setupVars
<1>8. CASE UNCHANGED sessionVars
  BY <1>1, <1>8 DEF sessionVars, partyVars, setupVars, vars
<1> QED BY <1>2, <1>3, <1>4, <1>5, <1>6, <1>7, <1>8 DEF SessionNext

LEMMA ArmStep ==
  ASSUME SessionInv, FlowInv, ArmInv, [SessionNext]_sessionVars
  PROVE  ArmInv'
<1>1. [Next]_vars
  BY SessionStepIsClientStep
<1>2. AckInv' /\ (Armed => Armed')
  BY <1>1, AckStep, ArmedStep DEF ArmInv, SessionInv
<1>3. ASSUME wrapper' \in {"released", "running"} => wrapper \in {"released", "running"} PROVE ArmInv'
  BY <1>2, <1>3, ConnectedStep DEF ArmInv
<1>4. CASE NotifyWrapper
  <2>1. toFrontend # <<>> /\ Head(toFrontend) = "tstamp_ack" /\ toFrontend \in Seq(Messages)
    BY <1>4 DEF NotifyWrapper, Received, SessionInv, TypeOK, ControlTypeOK
  <2>2. Armed
    BY <2>1 DEF ArmInv, AckInv
  <2> QED BY <1>2, <2>2, ConnectedStep DEF ArmInv
<1>5. CASE FrontendRuns /\ ~NotifyWrapper
  BY <1>3, <1>5 DEF FrontendRuns, StartWrapper, SendStart, GetInstructions, StartScript,
     StartRecord, AcceptGeneric, PassGate, GateTimeout, SendTstamp,
     JoinWrapper, WaitProfiler, ReadResult, DrainGeneric, ReadFinished, commandVars
<1>6. ASSUME NEW p \in Profilers, ProfilerRuns(p) \/ ScriptFails(p) PROVE ArmInv'
  BY <1>3, <1>6 DEF ProfilerRuns, Attach, RecordEnds, WatchRecord, WatchScript, ScriptRuns,
     ConnectStream, ConnectFrontend, ProcessEvent, StopStream, TellFrontend, ScriptFails,
     Terminate, commandVars
<1>7. CASE \/ \E p \in Profilers, t \in Tids : Sample(p, t)
           \/ \E t \in Tids : StartThread(t)
           \/ CommandStarts \/ CommandEnds \/ (\E f \in Faults : CommandFails(f))
           \/ \E p \in Profilers, f \in Faults : RecordFails(p, f)
  BY <1>3, <1>7 DEF Sample, StartThread, CommandStarts, CommandEnds, CommandFails, RecordFails, commandVars
<1>8. CASE ServerReads \/ ServerRuns \/ \E i \in Subclients : StreamRuns(i)
  BY <1>3, <1>8 DEF ServerReads, ServerRuns, StreamRuns, StreamAccepted, StreamRead,
     partyVars, commandVars
<1>9. CASE UNCHANGED sessionVars
  BY <1>3, <1>9 DEF sessionVars, partyVars, commandVars
<1> QED BY <1>4, <1>5, <1>6, <1>7, <1>8, <1>9 DEF SessionNext

(* RunsOnlyWhenArmed, for any number of profilers, streams, threads and     *)
(* samples and with any fault: the wrapper is released by an               *)
(* acknowledgement only, and that is sent past the gate.                   *)
THEOREM RunsOnlyWhenArmedTheorem == SessionSpec => []RunsOnlyWhenArmed
<1>1. SessionInit => ArmInv
  BY DEF SessionInit, Init, ArmInv, AckInv, Connected
<1>2. SessionInv /\ FlowInv /\ ArmInv /\ [SessionNext]_sessionVars => ArmInv'
  BY ArmStep
<1>3. StreamsInv /\ ArmInv => RunsOnlyWhenArmed
  BY DEF StreamsInv, ArmInv, Armed, RunsOnlyWhenArmed, Notified, Connected
<1>4. SessionSpec => []SessionInv
  BY SessionIsClient, Invariance, PTL
<1> QED BY <1>1, <1>2, <1>3, <1>4, FlowInit, FlowStep, StreamsInit, StreamsStep, PTL DEF SessionSpec

-----------------------------------------------------------------------------
(* A failure is seen by a watcher, and its verdict by the frontend.         *)

Setup == {"wrapper", "start", "instrs"}
Waited == {"result", "drain", "finished"}

(* Nothing of a profiler is there before its turn.                          *)
TurnInv ==
  /\ fp \in Profilers
  /\ DOMAIN recorder = Profilers /\ DOMAIN script = Profilers /\ DOMAIN watcher = Profilers
  /\ fpc \in Setup => fp = 1
  /\ fpc \in Setup \cup {"script", "record", "accept"} =>
       /\ \A p \in Profilers : p >= fp => watcher[p] = "absent"
       /\ \A p \in Profilers : p > fp => recorder[p] = "absent" /\ script[p] = "absent"
  /\ fpc \in Setup \cup {"script"} => recorder[fp] = "absent" /\ script[fp] = "absent"
  /\ fpc = "record" => recorder[fp] = "absent"

(* A watcher is content with what has ended well only.                      *)
VerdictInv ==
  /\ \A p \in Profilers :
       /\ watcher[p] \in {"script", "ok"} => recorder[p] = "reaped"
       /\ watcher[p] = "ok" => script[p] = "reaped"
  /\ fault = "record_exits" =>
       \E p \in Profilers : watcher[p] = "failed" \/ recorder[p] = "failed"
  /\ fault = "script_exits" =>
       \E p \in Profilers : watcher[p] = "failed" \/ script[p] = "failed"

WaitInv ==
  /\ fpc = "wait" => \A p \in Profilers : p < fp => watcher[p] = "ok"
  /\ fpc \in Waited \/ (fpc = "returned" /\ code = 0) =>
       ~CommandFailed /\ \A p \in Profilers : watcher[p] = "ok"

(* Nothing more comes of the wrapper once the frontend is past it.          *)
ReapedInv == fpc \in Waited \cup {"wait", "returned"} => wrapper = "reaped"

ReportInv == TurnInv /\ VerdictInv /\ WaitInv /\ ReapedInv

LEMMA ReportInit == SessionInit => ReportInv
BY ProfilersAssumption
   DEF SessionInit, ReportInv, TurnInv, VerdictInv, WaitInv, ReapedInv, Setup, Waited, Profilers

LEMMA ReapedStep == ReapedInv /\ [SessionNext]_sessionVars => ReapedInv'
<1> SUFFICES ASSUME ReapedInv, [SessionNext]_sessionVars PROVE ReapedInv'
  OBVIOUS
<1> USE DEF ReapedInv, Waited
<1>1. CASE UNCHANGED <<fpc, wrapper>>
  BY <1>1
<1>2. CASE FrontendRuns
  BY <1>2 DEF FrontendRuns, StartWrapper, SendStart, GetInstructions, StartScript,
     StartRecord, AcceptGeneric, PassGate, GateTimeout, SendTstamp, NotifyWrapper,
     JoinWrapper, WaitProfiler, ReadResult, DrainGeneric, ReadFinished, commandVars
<1>3. ASSUME NEW p \in Profilers, ProfilerRuns(p) \/ ScriptFails(p) PROVE ReapedInv'
  BY <1>3 DEF ProfilerRuns, Attach, RecordEnds, WatchRecord, WatchScript, Terminate, ScriptRuns,
     ConnectStream, ConnectFrontend, ProcessEvent, StopStream, TellFrontend, ScriptFails,
     frontendVars, commandVars
<1>4. CASE CommandStarts \/ CommandEnds \/ (\E f \in Faults : CommandFails(f))
  BY <1>4 DEF CommandStarts, CommandEnds, CommandFails, frontendVars
<1>5. CASE \/ \E p \in Profilers, t \in Tids : Sample(p, t)
           \/ \E t \in Tids : StartThread(t)
           \/ \E p \in Profilers, f \in Faults : RecordFails(p, f)
           \/ ServerReads \/ ServerRuns \/ (\E i \in Subclients : StreamRuns(i))
           \/ UNCHANGED sessionVars
  BY <1>1, <1>5 DEF Sample, StartThread, RecordFails, ServerReads, ServerRuns, StreamRuns,
     StreamAccepted, StreamRead, sessionVars, partyVars, frontendVars, commandVars
<1> QED BY <1>2, <1>3, <1>4, <1>5 DEF SessionNext

LEMMA ReportStep == ReportInv /\ [SessionNext]_sessionVars => ReportInv'
<1> USE DEF ReportInv, Setup, Waited
<1> SUFFICES ASSUME ReportInv, [SessionNext]_sessionVars
             PROVE  (TurnInv /\ VerdictInv /\ WaitInv)'
  BY ReapedStep
<1>1. fp \in Profilers /\ 1 \in Profilers /\ (fp # ProfilerCnt => fp + 1 \in Profilers)
      /\ \A p \in Profilers : p \in Int /\ p <= ProfilerCnt /\ p >= 1
  BY ProfilersAssumption DEF TurnInv, Profilers
<1>2. CASE UNCHANGED <<fpc, fp, code, recorder, script, watcher, fault>>
  BY <1>2 DEF TurnInv, VerdictInv, WaitInv, CommandFailed
(* The frontend moves, and no profiler.                                    *)
<1>3. CASE \/ StartWrapper \/ SendStart \/ GetInstructions \/ PassGate \/ GateTimeout
           \/ SendTstamp \/ NotifyWrapper \/ JoinWrapper \/ WaitProfiler
           \/ ReadResult \/ DrainGeneric \/ ReadFinished
  <2>1. UNCHANGED <<recorder, script, watcher, fault>>
    BY <1>3 DEF StartWrapper, SendStart, GetInstructions, PassGate, GateTimeout,
       SendTstamp, NotifyWrapper, JoinWrapper, WaitProfiler, ReadResult, DrainGeneric,
       ReadFinished, scriptVars, perfVars
  <2>2. VerdictInv'
    BY <2>1 DEF VerdictInv
  <2>3. TurnInv'
    BY <1>1, <1>3, <2>1 DEF StartWrapper, SendStart, GetInstructions, PassGate, GateTimeout,
       SendTstamp, NotifyWrapper, JoinWrapper, WaitProfiler, ReadResult, DrainGeneric,
       ReadFinished, TurnInv
  <2>4. WaitInv'
    <3>1. CASE WaitProfiler
      BY <1>1, <2>1, <3>1 DEF WaitProfiler, WaitInv, CommandFailed
    <3>2. CASE JoinWrapper
      BY <1>1, <2>1, <3>2 DEF JoinWrapper, WaitInv, CommandFailed
    <3>3. CASE StartWrapper \/ SendStart \/ GetInstructions \/ PassGate \/ GateTimeout
               \/ SendTstamp \/ NotifyWrapper \/ ReadResult \/ DrainGeneric \/ ReadFinished
      BY <2>1, <3>3 DEF StartWrapper, SendStart, GetInstructions, PassGate, GateTimeout,
         SendTstamp, NotifyWrapper, ReadResult, DrainGeneric, ReadFinished, WaitInv, CommandFailed
    <3> QED BY <1>3, <3>1, <3>2, <3>3
  <2> QED BY <2>2, <2>3, <2>4
<1>4. CASE StartScript
  <2>1. /\ fpc = "script" /\ fpc' = "record" /\ UNCHANGED <<fp, code, recorder, watcher, fault>>
        /\ script' = [script EXCEPT ![fp] = "connect"]
    BY <1>4 DEF StartScript, perfVars
  <2>2. watcher[fp] = "absent" /\ script[fp] = "absent"
    BY <1>1, <2>1 DEF TurnInv
  <2>3. TurnInv'
    BY <1>1, <2>1 DEF TurnInv
  <2>4. VerdictInv'
    BY <1>1, <2>1, <2>2 DEF TurnInv, VerdictInv
  <2> QED BY <2>1, <2>3, <2>4 DEF WaitInv, CommandFailed
<1>5. CASE StartRecord
  <2>1. /\ fpc = "record" /\ fpc' = "accept" /\ UNCHANGED <<fp, code, script, watcher, fault>>
        /\ recorder' = [recorder EXCEPT ![fp] = "attaching"]
    BY <1>5 DEF StartRecord, scriptVars
  <2>2. watcher[fp] = "absent" /\ recorder[fp] = "absent"
    BY <1>1, <2>1 DEF TurnInv
  <2>3. TurnInv'
    BY <1>1, <2>1 DEF TurnInv
  <2>4. VerdictInv'
    BY <1>1, <2>1, <2>2 DEF TurnInv, VerdictInv
  <2> QED BY <2>1, <2>3, <2>4 DEF WaitInv, CommandFailed
<1>6. CASE AcceptGeneric
  <2>1. /\ fpc = "accept" /\ UNCHANGED <<code, recorder, script, fault>>
        /\ watcher' = [watcher EXCEPT ![fp] = "record"]
        /\ \/ fp = ProfilerCnt /\ fpc' = "gate" /\ fp' = fp
           \/ fp # ProfilerCnt /\ fpc' = "script" /\ fp' = fp + 1
    BY <1>6 DEF AcceptGeneric, scriptVars
  <2>2. watcher[fp] = "absent"
    BY <1>1, <2>1 DEF TurnInv
  <2>3. TurnInv'
    BY <1>1, <2>1 DEF TurnInv
  <2>4. VerdictInv'
    BY <1>1, <2>1, <2>2 DEF TurnInv, VerdictInv
  <2> QED BY <2>1, <2>3, <2>4 DEF WaitInv, CommandFailed
(* perf-record and perf-script of a profiler that has begun.               *)
<1>7. ASSUME NEW p \in Profilers, NEW v, v # "absent", recorder[p] \in {"attaching", "recording"},
             recorder' = [recorder EXCEPT ![p] = v],
             UNCHANGED <<fpc, fp, code, script, watcher>>,
             fault' = fault \/ (fault' = "record_exits" /\ v = "failed") \/ fault' = "record_signalled"
      PROVE  (TurnInv /\ VerdictInv /\ WaitInv)'
  <2>1. TurnInv' /\ WaitInv'
    BY <1>1, <1>7 DEF TurnInv, WaitInv, CommandFailed
  <2>2. VerdictInv'
    BY <1>7 DEF TurnInv, VerdictInv
  <2> QED BY <2>1, <2>2
<1>8. ASSUME NEW p \in Profilers, NEW v, v # "absent",
             script[p] \in {"connect", "hello", "process", "stop", "tell"},
             script' = [script EXCEPT ![p] = v],
             UNCHANGED <<fpc, fp, code, recorder, watcher>>,
             fault' = fault \/ (fault' = "script_exits" /\ v = "failed")
      PROVE  (TurnInv /\ VerdictInv /\ WaitInv)'
  <2>1. TurnInv' /\ WaitInv'
    BY <1>1, <1>8 DEF TurnInv, WaitInv, CommandFailed
  <2>2. VerdictInv'
    BY <1>8 DEF TurnInv, VerdictInv
  <2> QED BY <2>1, <2>2
<1>9. ASSUME NEW p \in Profilers, Attach(p) \/ RecordEnds(p) PROVE (TurnInv /\ VerdictInv /\ WaitInv)'
  BY <1>7, <1>9 DEF Attach, RecordEnds, frontendVars, scriptVars
<1>10. ASSUME NEW p \in Profilers, NEW f \in Faults, RecordFails(p, f) PROVE (TurnInv /\ VerdictInv /\ WaitInv)'
  BY <1>7, <1>10 DEF RecordFails, frontendVars, scriptVars
<1>11. ASSUME NEW p \in Profilers,
              ConnectStream(p) \/ ConnectFrontend(p) \/ StopStream(p) \/ TellFrontend(p)
              \/ ProcessEvent(p) \/ ScriptFails(p)
       PROVE  (TurnInv /\ VerdictInv /\ WaitInv)'
  BY <1>2, <1>8, <1>11 DEF ConnectStream, ConnectFrontend, StopStream, TellFrontend, ProcessEvent,
     ScriptFails, frontendVars, perfVars
<1>12. ASSUME NEW p \in Profilers, WatchRecord(p) PROVE (TurnInv /\ VerdictInv /\ WaitInv)'
  <2>1. /\ watcher[p] = "record" /\ recorder' = [recorder EXCEPT ![p] = "reaped"]
        /\ UNCHANGED <<fpc, fp, code, script, fault>>
        /\ \/ recorder[p] # "failed" /\ watcher' = [watcher EXCEPT ![p] = "script"]
           \/ watcher' = [watcher EXCEPT ![p] = "failed"]
    BY <1>12 DEF WatchRecord, ExitCode, frontendVars, scriptVars
  <2>2. recorder[p] # "absent"
    BY <1>12 DEF WatchRecord
  <2>3. TurnInv' /\ WaitInv'
    BY <1>1, <2>1, <2>2 DEF TurnInv, WaitInv, CommandFailed
  <2>4. VerdictInv'
    BY <2>1 DEF TurnInv, VerdictInv
  <2> QED BY <2>3, <2>4
<1>13. ASSUME NEW p \in Profilers, WatchScript(p) PROVE (TurnInv /\ VerdictInv /\ WaitInv)'
  <2>1. /\ watcher[p] = "script" /\ script' = [script EXCEPT ![p] = "reaped"]
        /\ UNCHANGED <<fpc, fp, code, recorder, fault>>
        /\ \/ script[p] # "failed" /\ watcher' = [watcher EXCEPT ![p] = "ok"]
           \/ watcher' = [watcher EXCEPT ![p] = "failed"]
    BY <1>13 DEF WatchScript, ExitCode, frontendVars
  <2>2. script[p] # "absent"
    BY <1>13 DEF WatchScript
  <2>3. TurnInv' /\ WaitInv'
    BY <1>1, <2>1, <2>2 DEF TurnInv, WaitInv, CommandFailed
  <2>4. VerdictInv'
    BY <2>1 DEF TurnInv, VerdictInv
  <2> QED BY <2>3, <2>4
<1>14. CASE \/ \E p \in Profilers, t \in Tids : Sample(p, t)
            \/ \E t \in Tids : StartThread(t)
            \/ CommandStarts \/ CommandEnds
            \/ ServerReads \/ ServerRuns \/ \E i \in Subclients : StreamRuns(i)
  BY <1>2, <1>14 DEF Sample, StartThread, CommandStarts, CommandEnds, ServerReads, ServerRuns,
     StreamRuns, StreamAccepted, StreamRead, partyVars, frontendVars, scriptVars, perfVars
<1>15. CASE UNCHANGED sessionVars
  BY <1>2, <1>15 DEF sessionVars, partyVars, frontendVars, scriptVars, perfVars
(* The frontend has not joined a wrapper that fails.                       *)
<1>16. ASSUME NEW f \in Faults, CommandFails(f) PROVE (TurnInv /\ VerdictInv /\ WaitInv)'
  <2>1. /\ wrapper # "reaped" /\ fault' \in {"exec_fails", "command_exits"}
        /\ UNCHANGED <<fpc, fp, code, recorder, script, watcher>>
    BY <1>16 DEF CommandFails, frontendVars, scriptVars
  <2>2. fpc \notin Waited \cup {"wait", "returned"}
    BY <2>1 DEF ReapedInv
  <2> QED BY <2>1, <2>2 DEF TurnInv, VerdictInv, WaitInv
<1> QED
  BY <1>3, <1>4, <1>5, <1>6, <1>9, <1>10, <1>11, <1>12, <1>13, <1>14, <1>15, <1>16
     DEF SessionNext, FrontendRuns, ProfilerRuns, ScriptRuns

AllFaults == {"record_exits", "record_signalled", "script_exits", "exec_fails", "command_exits"}
FaultInv  == fault \in AllFaults \cup {"none"}

(* A fault, once it has happened, stays.                                    *)
LEMMA FaultStays ==
  ASSUME [SessionNext]_sessionVars
  PROVE  fault' = fault \/ (fault = "none" /\ fault' \in AllFaults)
<1>1. ASSUME NEW p \in Profilers, NEW f \in Faults, RecordFails(p, f)
      PROVE  fault = "none" /\ fault' \in AllFaults
  BY <1>1 DEF RecordFails, AllFaults
<1>2. ASSUME NEW p \in Profilers, ScriptFails(p)
      PROVE  fault = "none" /\ fault' \in AllFaults
  BY <1>2 DEF ScriptFails, AllFaults
<1>3. CASE FrontendRuns
  BY <1>3 DEF FrontendRuns, StartWrapper, SendStart, GetInstructions, StartScript,
     StartRecord, AcceptGeneric, PassGate, GateTimeout, SendTstamp, NotifyWrapper,
     JoinWrapper, WaitProfiler, ReadResult, DrainGeneric, ReadFinished, perfVars
<1>4. ASSUME NEW p \in Profilers, ProfilerRuns(p) PROVE fault' = fault
  BY <1>4 DEF ProfilerRuns, Attach, RecordEnds, WatchRecord, WatchScript, ScriptRuns,
     ConnectStream, ConnectFrontend, ProcessEvent, StopStream, TellFrontend, perfVars
<1>5. CASE \/ \E p \in Profilers, t \in Tids : Sample(p, t)
           \/ \E t \in Tids : StartThread(t)
           \/ CommandStarts \/ CommandEnds
           \/ ServerReads \/ ServerRuns \/ (\E i \in Subclients : StreamRuns(i))
           \/ UNCHANGED sessionVars
  BY <1>5 DEF Sample, StartThread, CommandStarts, CommandEnds, ServerReads, ServerRuns,
     StreamRuns, StreamAccepted, StreamRead, sessionVars, partyVars, perfVars
<1>6. ASSUME NEW f \in Faults, CommandFails(f) PROVE fault = "none" /\ fault' \in AllFaults
  BY <1>6 DEF CommandFails, AllFaults
<1> QED BY <1>1, <1>2, <1>3, <1>4, <1>5, <1>6 DEF SessionNext

LEMMA FaultInit == SessionInit => FaultInv
BY DEF SessionInit, FaultInv

LEMMA FaultStep == FaultInv /\ [SessionNext]_sessionVars => FaultInv'
BY FaultStays DEF FaultInv

(* FailureReported, for any number of profilers and streams: success is     *)
(* returned only when every watcher is content, and no watcher is with a   *)
(* process that exited with an error, and when the command, which cannot   *)
(* fail any more once it is joined, has not failed.                        *)
THEOREM FailureReportedTheorem == SessionSpec => []FailureReported
<1>1. ReportInv /\ FaultInv => FailureReported
  BY DEF ReportInv, VerdictInv, WaitInv, FaultInv, AllFaults, CommandFailed, FailureReported
<1> QED BY <1>1, FaultInit, FaultStep, ReportInit, ReportStep, PTL DEF SessionSpec

-----------------------------------------------------------------------------
(* What a session leaves behind that has seen no error.                     *)

Unharmed == fault \in {"none", "record_signalled"}
Turn     == Setup \cup {"script", "record", "accept"}
Success  == fpc = "returned" /\ code = 0

(* No watcher terminates the wrapper, so it is reaped where it is joined.   *)
CommandInv ==
  Unharmed =>
    /\ \A p \in Profilers : /\ watcher[p] # "failed" /\ recorder[p] # "failed"
                            /\ script[p] # "failed"
    /\ fpc = "wrapper" => wrapper = "absent"
    /\ fpc \in (Turn \ {"wrapper"}) \cup {"gate", "warmup", "ack"} => wrapper = "waiting"
    /\ fpc = "join" => wrapper \in {"released", "running", "dead"}
    /\ fpc \in Waited \cup {"wait", "returned"} => wrapper = "reaped"
    /\ fpc # "killed" /\ code = 0

LEMMA CommandInit == SessionInit => CommandInv
BY ProfilersAssumption DEF SessionInit, CommandInv, Setup, Turn, Waited, Profilers

LEMMA CommandStep == ReportInv /\ CommandInv /\ [SessionNext]_sessionVars => CommandInv'
<1> SUFFICES ASSUME ReportInv, CommandInv, [SessionNext]_sessionVars, Unharmed' PROVE CommandInv'
  BY DEF CommandInv
<1> USE DEF CommandInv, Setup, Turn, Waited, Unharmed
<1>1. DOMAIN recorder = Profilers /\ DOMAIN script = Profilers /\ DOMAIN watcher = Profilers
      /\ fp \in Profilers
  BY DEF ReportInv, TurnInv
<1>2. CASE UNCHANGED <<fpc, code, recorder, script, watcher, wrapper, fault>>
  BY <1>2
<1>3. CASE \/ StartWrapper \/ SendStart \/ GetInstructions \/ PassGate \/ GateTimeout
           \/ SendTstamp \/ NotifyWrapper \/ JoinWrapper \/ WaitProfiler
           \/ ReadResult \/ DrainGeneric \/ ReadFinished
  <2>1. UNCHANGED <<recorder, script, watcher, fault>>
    BY <1>3 DEF StartWrapper, SendStart, GetInstructions, PassGate, GateTimeout,
       SendTstamp, NotifyWrapper, JoinWrapper, WaitProfiler, ReadResult, DrainGeneric,
       ReadFinished, scriptVars, perfVars
  <2>2. CASE \/ StartWrapper \/ SendStart \/ GetInstructions \/ PassGate \/ GateTimeout
             \/ SendTstamp \/ NotifyWrapper
    BY <2>1, <2>2 DEF StartWrapper, SendStart, GetInstructions, PassGate, GateTimeout,
       SendTstamp, NotifyWrapper, commandVars
  <2>3. CASE JoinWrapper \/ WaitProfiler \/ ReadResult \/ DrainGeneric \/ ReadFinished
    BY <1>1, <2>1, <2>3 DEF JoinWrapper, WaitProfiler, ReadResult, DrainGeneric, ReadFinished,
       commandVars, CommandFailed
  <2> QED BY <1>3, <2>2, <2>3
<1>4. CASE StartScript \/ StartRecord \/ AcceptGeneric
  BY <1>1, <1>4 DEF StartScript, StartRecord, AcceptGeneric, scriptVars, perfVars, commandVars
<1>5. ASSUME NEW p \in Profilers,
             Attach(p) \/ RecordEnds(p) \/ (\E f \in Faults : RecordFails(p, f))
             \/ ConnectStream(p) \/ ConnectFrontend(p) \/ StopStream(p) \/ TellFrontend(p)
             \/ ProcessEvent(p) \/ ScriptFails(p)
      PROVE  CommandInv'
  <2>1. UNCHANGED <<fpc, code, wrapper, watcher>> /\ (fault' = fault \/ fault = "none")
    BY <1>5 DEF Attach, RecordEnds, RecordFails, ConnectStream, ConnectFrontend, StopStream,
       TellFrontend, ProcessEvent, ScriptFails, frontendVars, commandVars, perfVars
  <2>2. \A q \in Profilers : recorder'[q] # "failed"
    BY <1>1, <1>5, <2>1 DEF Attach, RecordEnds, RecordFails, ConnectStream, ConnectFrontend, StopStream,
       TellFrontend, ProcessEvent, ScriptFails, perfVars
  <2>3. \A q \in Profilers : script'[q] # "failed"
    BY <1>1, <1>5, <2>1 DEF Attach, RecordEnds, RecordFails, ConnectStream, ConnectFrontend, StopStream,
       TellFrontend, ProcessEvent, ScriptFails, scriptVars
  <2> QED BY <2>1, <2>2, <2>3
<1>6. ASSUME NEW p \in Profilers, WatchRecord(p) \/ WatchScript(p) PROVE CommandInv'
  BY <1>1, <1>6 DEF WatchRecord, WatchScript, ExitCode, frontendVars, scriptVars
<1>7. CASE CommandStarts \/ CommandEnds \/ (\E f \in Faults : CommandFails(f))
  BY <1>7 DEF CommandStarts, CommandEnds, CommandFails, frontendVars, scriptVars
<1>8. CASE \/ \E p \in Profilers, t \in Tids : Sample(p, t)
           \/ \E t \in Tids : StartThread(t)
           \/ ServerReads \/ ServerRuns \/ \E i \in Subclients : StreamRuns(i)
  BY <1>2, <1>8 DEF Sample, StartThread, ServerReads, ServerRuns, StreamRuns, StreamAccepted,
     StreamRead, partyVars, frontendVars, commandVars, scriptVars, perfVars
<1>9. CASE UNCHANGED sessionVars
  BY <1>2, <1>9 DEF sessionVars, partyVars, frontendVars, commandVars, scriptVars, perfVars
<1> QED BY <1>3, <1>4, <1>5, <1>6, <1>7, <1>8, <1>9
     DEF SessionNext, FrontendRuns, ProfilerRuns, ScriptRuns

-----------------------------------------------------------------------------
(* The streams of a profiler in their order.                                *)

LEMMA LargestIsMember ==
  ASSUME NEW N \in Nat, NEW S, S \subseteq 1..N, S # {}
  PROVE  \E m \in S : \A i \in S : i <= m
<1> DEFINE Bounds == {n \in 1..N : \A i \in S : i <= n}
           m == First(Bounds)
<1>0. \A i \in S : i \in Nat /\ 1 <= i /\ i <= N
  OBVIOUS
<1>1. N \in Bounds /\ Bounds \subseteq Nat
  <2>1. PICK i : i \in S
    OBVIOUS
  <2>2. N \in 1..N
    BY <1>0, <2>1
  <2> QED BY <1>0, <2>2
<1>2. m \in Bounds /\ \A n \in Bounds : m <= n
  <2> HIDE DEF Bounds
  <2> QED BY <1>1, FirstIsLeast
<1>3. m \in S
  <2> SUFFICES ASSUME m \notin S PROVE FALSE
    OBVIOUS
  <2> HIDE DEF m
  <2>1. m \in 1..N /\ \A i \in S : i < m
    BY <1>0, <1>2
  <2>2. PICK i : i \in S
    OBVIOUS
  <2>3. m - 1 \in 1..N /\ \A j \in S : j <= m - 1
    BY <1>0, <2>1, <2>2
  <2>4. m - 1 \in Bounds /\ m - 1 < m
    BY <2>1, <2>3
  <2> QED BY <1>2, <2>1, <2>4
<1> QED BY <1>2, <1>3

Rank(S, i) == Cardinality({j \in S : j < i})

(* Every number below that of the streams is the rank of one of them.      *)
LEMMA RankTaken ==
  ASSUME NEW N \in Nat, NEW S, S \subseteq 1..N, NEW k \in Nat, k < Cardinality(S)
  PROVE  \E i \in S : Rank(S, i) = k
<1> DEFINE Below(i) == {j \in S : j < i}
           Late == {i \in S : Cardinality(Below(i)) >= k}
<1>1. IsFiniteSet(S) /\ \A B \in SUBSET S : IsFiniteSet(B) /\ Cardinality(B) \in Nat
  <2>1. IsFiniteSet(1..N)
    BY FS_Interval
  <2> QED BY <2>1, FS_Subset, FS_CardinalityType
(* The largest of a part of them, and the rest below it.                   *)
<1>2. ASSUME NEW B \in SUBSET S, B # {}
      PROVE  \E m \in B : {j \in B : j < m} = B \ {m}
                          /\ Cardinality({j \in B : j < m}) = Cardinality(B) - 1
  <2>1. PICK m \in B : \A i \in B : i <= m
    BY <1>2, LargestIsMember
  <2>2. {j \in B : j < m} = B \ {m}
    <3>1. \A j \in B : j \in Nat
      OBVIOUS
    <3>2. \A j \in B : j < m <=> j # m
      BY <2>1, <3>1
    <3> QED BY <3>2
  <2>3. Cardinality(B \ {m}) = Cardinality(B) - 1
    BY <1>1, FS_RemoveElement
  <2> QED BY <2>2, <2>3
<1>3. Late # {}
  <2>1. S # {}
    BY <1>1, FS_EmptySet
  <2>2. PICK m \in S : Cardinality(Below(m)) = Cardinality(S) - 1
    BY <1>2, <2>1
  <2>3. Cardinality(S) \in Nat
    BY <1>1
  <2> QED BY <2>2, <2>3
<1> DEFINE first == First(Late)
<1>4. first \in Late /\ \A i \in Late : first <= i
  <2>1. S \subseteq Nat /\ Late \subseteq S
    OBVIOUS
  <2> HIDE DEF Late
  <2> QED BY <1>3, <2>1, FirstIsLeast
<1> HIDE DEF first
<1>5. Cardinality(Below(first)) = k
  <2> SUFFICES ASSUME Cardinality(Below(first)) # k PROVE FALSE
    OBVIOUS
  <2> DEFINE B == Below(first)
  <2>1. B \in SUBSET S /\ Cardinality(B) \in Nat /\ Cardinality(B) > k
    BY <1>1, <1>4
  <2>2. B # {}
    BY <2>1, FS_EmptySet
  <2>3. PICK m \in B : Cardinality({j \in B : j < m}) = Cardinality(B) - 1
    BY <1>2, <2>1, <2>2
  <2>4. {j \in B : j < m} = Below(m)
    <3>1. \A j \in S : j \in Nat
      OBVIOUS
    <3>2. \A j \in S : j < m => j < first
      BY <1>4, <2>1, <3>1
    <3> QED BY <3>2
  <2>5. m \in Late /\ m < first
    BY <2>1, <2>3, <2>4
  <2> QED BY <1>4, <2>5
<1> QED BY <1>4, <1>5 DEF Rank

(* The streams a profiler was given are as many as its threads, and its    *)
(* events go to them only.                                                  *)
GivenInv ==
  /\ next_index \in [Profilers -> Nat]
  /\ event_stream_dict \in [Profilers -> [Tids -> Nat]]
  /\ \A p \in Profilers :
       /\ script[p] = "absent" => streams[p] = {}
       /\ script[p] # "absent" => Cardinality(streams[p]) = ThreadCnt[p]
       /\ \A t \in Tids : event_stream_dict[p][t] \in streams[p] \cup {0}

LEMMA GivenInit == SessionInit => GivenInv
BY DEF SessionInit, GivenInv

LEMMA StreamForGiven ==
  ASSUME StreamsInv, GivenInv, NEW p \in Profilers, script[p] # "absent"
  PROVE  streams[p] # {} /\ NextStream(p) \in streams[p]
         /\ \A t \in Tids : StreamFor(p, t) \in streams[p]
<1>1. ThreadCnt[p] \in Nat \ {0} /\ next_index[p] \in Nat
  BY ProfilersAssumption DEF GivenInv
<1>2. next_index[p] % ThreadCnt[p] \in Nat /\ next_index[p] % ThreadCnt[p] < ThreadCnt[p]
  BY <1>1
<1>3. Cardinality(streams[p]) = ThreadCnt[p] /\ streams[p] \subseteq 1..SubclientCnt /\ SubclientCnt \in Nat
  BY SubclientCntAssumption DEF GivenInv, StreamsInv, Subclients
<1>4. NextStream(p) \in streams[p]
  <2> DEFINE k == next_index[p] % ThreadCnt[p]
  <2>1. k \in Nat /\ k < Cardinality(streams[p])
    BY <1>2, <1>3
  <2> HIDE DEF k
  <2>2. \E i \in streams[p] : Rank(streams[p], i) = k
    BY <1>3, <2>1, RankTaken
  <2> QED BY <2>2 DEF NextStream, k, Rank
<1> QED BY <1>4 DEF StreamFor, GivenInv

LEMMA GivenStep ==
  FlowInv /\ StreamsInv /\ ReportInv /\ GivenInv /\ [SessionNext]_sessionVars => GivenInv'
<1> SUFFICES ASSUME FlowInv, StreamsInv, ReportInv, GivenInv, [SessionNext]_sessionVars PROVE GivenInv'
  OBVIOUS
<1> USE DEF GivenInv
<1>1. ASSUME UNCHANGED <<streams, next_index, event_stream_dict>>,
             \A p \in Profilers : script'[p] = "absent" <=> script[p] = "absent"
      PROVE  GivenInv'
  BY <1>1
<1>2. fp \in Profilers /\ DOMAIN script = Profilers /\ streams \in [Profilers -> SUBSET Subclients]
  BY DEF StreamsInv
<1>3. CASE StartScript
  <2> DEFINE handed == Handed(fp)
  <2>1. /\ fpc = "script" /\ Cardinality(handed) = ThreadCnt[fp]
        /\ streams' = [streams EXCEPT ![fp] = handed]
        /\ script' = [script EXCEPT ![fp] = "connect"]
        /\ UNCHANGED <<next_index, event_stream_dict>>
    BY <1>3 DEF StartScript
  <2> HIDE DEF handed
  <2>2. script[fp] = "absent"
    BY <2>1 DEF ReportInv, TurnInv
  <2> QED BY <1>2, <2>1, <2>2
<1>4. ASSUME NEW p \in Profilers, ProcessEvent(p) PROVE GivenInv'
  <2> DEFINE l == Head(perf_pipe[p])
             t == l.tid
             i == StreamFor(p, t)
             n == NextIndex(p)
  <2>1. /\ script[p] = "process" /\ perf_pipe[p] # <<>>
        /\ event_stream_dict' = [event_stream_dict EXCEPT ![p][t] = i]
        /\ next_index' = [next_index EXCEPT ![p] = IF event_stream_dict[p][t] # 0 THEN @ ELSE n]
        /\ UNCHANGED <<script, streams>>
    BY <1>4 DEF ProcessEvent, setupVars
  <2>2. t \in Tids
    <3>1. l \in EventLines
      BY <2>1, Shortened DEF FlowInv
    <3> QED BY <3>1 DEF EventLines, MetaLines, SampleLines
  <2>3. i \in streams[p]
    BY <2>1, <2>2, StreamForGiven
  <2>4. n \in Nat
    BY ProfilersAssumption DEF NextIndex
  <2>5. i \in Nat
    BY <1>2, <2>3 DEF Subclients
  <2> HIDE DEF i, t, n
  <2> QED BY <2>1, <2>2, <2>3, <2>4, <2>5
<1>5. CASE FrontendRuns /\ ~StartScript
  BY <1>1, <1>5 DEF FrontendRuns, StartWrapper, SendStart, GetInstructions,
     StartRecord, AcceptGeneric, PassGate, GateTimeout, SendTstamp, NotifyWrapper,
     JoinWrapper, WaitProfiler, ReadResult, DrainGeneric, ReadFinished, scriptVars, setupVars
<1>6. ASSUME NEW p \in Profilers,
             Attach(p) \/ RecordEnds(p) \/ (\E f \in Faults : RecordFails(p, f))
             \/ ConnectStream(p) \/ ConnectFrontend(p) \/ StopStream(p) \/ TellFrontend(p)
             \/ ScriptFails(p) \/ WatchRecord(p) \/ WatchScript(p)
      PROVE  GivenInv'
  BY <1>1, <1>2, <1>6 DEF Attach, RecordEnds, RecordFails, ConnectStream, ConnectFrontend, StopStream,
     TellFrontend, ScriptFails, WatchRecord, WatchScript, scriptVars, setupVars
<1>7. CASE \/ \E p \in Profilers, t \in Tids : Sample(p, t)
           \/ \E t \in Tids : StartThread(t)
           \/ CommandStarts \/ CommandEnds \/ (\E f \in Faults : CommandFails(f))
           \/ ServerReads \/ ServerRuns \/ \E i \in Subclients : StreamRuns(i)
  BY <1>1, <1>7 DEF Sample, StartThread, CommandStarts, CommandEnds, CommandFails, ServerReads, ServerRuns,
     StreamRuns, StreamAccepted, StreamRead, partyVars, scriptVars, setupVars
<1>8. CASE UNCHANGED sessionVars
  BY <1>1, <1>8 DEF sessionVars, partyVars, scriptVars, setupVars
<1> QED BY <1>3, <1>4, <1>5, <1>6, <1>7, <1>8 DEF SessionNext, ProfilerRuns, ScriptRuns

-----------------------------------------------------------------------------
(* perf-script has come to the end of perf-record before it ends a stream.  *)

PipeInv ==
  Unharmed =>
    \A p \in Profilers :
      script[p] \notin {"absent", "connect", "hello", "process"} =>
        perf_pipe[p] = <<>> /\ recorder[p] \notin {"absent", "attaching", "recording"}

LEMMA PipeInit == SessionInit => PipeInv
BY DEF SessionInit, PipeInv

LEMMA PipeStep ==
  FlowInv /\ ReportInv /\ CommandInv /\ PipeInv /\ [SessionNext]_sessionVars => PipeInv'
<1> SUFFICES ASSUME FlowInv, ReportInv, CommandInv, PipeInv, [SessionNext]_sessionVars PROVE PipeInv'
  OBVIOUS
<1> USE DEF PipeInv
<1>1. DOMAIN recorder = Profilers /\ DOMAIN script = Profilers /\ DOMAIN perf_pipe = Profilers
      /\ fp \in Profilers
  BY DEF ReportInv, TurnInv, FlowInv
<1>2. CASE UNCHANGED <<script, recorder, perf_pipe, fault>>
  BY <1>2 DEF Unharmed
<1>3. CASE FrontendRuns /\ ~StartScript /\ ~StartRecord
  BY <1>2, <1>3 DEF FrontendRuns, StartWrapper, SendStart, GetInstructions,
     AcceptGeneric, PassGate, GateTimeout, SendTstamp, NotifyWrapper,
     JoinWrapper, WaitProfiler, ReadResult, DrainGeneric, ReadFinished, scriptVars, perfVars
<1>4. CASE StartScript
  BY <1>1, <1>4 DEF StartScript, perfVars, Unharmed
<1>5. CASE StartRecord
  <2>1. recorder[fp] = "absent"
    BY <1>5 DEF StartRecord, ReportInv, TurnInv
  <2> QED BY <1>1, <1>5, <2>1 DEF StartRecord, scriptVars, Unharmed
<1>6. ASSUME NEW p \in Profilers, NEW l, Recorded(p, l), UNCHANGED <<script, recorder, fault>>
      PROVE  PipeInv'
  BY <1>1, <1>6 DEF Recorded, Unharmed
<1>7. CASE \/ \E p \in Profilers, t \in Tids : Sample(p, t)
           \/ \E t \in Tids : StartThread(t)
           \/ CommandStarts \/ CommandEnds
  <2>1. 1 \in Profilers
    BY ProfilersAssumption DEF Profilers
  <2> QED BY <1>6, <1>7, <2>1 DEF Sample, StartThread, CommandStarts, CommandEnds, scriptVars
<1>8. ASSUME NEW p \in Profilers,
             Attach(p) \/ RecordEnds(p) \/ (\E f \in Faults : RecordFails(p, f))
      PROVE  PipeInv'
  <2>1. /\ UNCHANGED <<script, perf_pipe>> /\ recorder[p] \in {"attaching", "recording"}
        /\ recorder' = [recorder EXCEPT ![p] = recorder'[p]]
        /\ fault # "none" => fault' = fault
    BY <1>1, <1>8 DEF Attach, RecordEnds, RecordFails, scriptVars
  <2>2. Unharmed' => Unharmed
    BY <2>1 DEF Unharmed
  <2> QED BY <1>1, <2>1, <2>2
<1>9. ASSUME NEW p \in Profilers, WatchRecord(p) PROVE PipeInv'
  BY <1>1, <1>9 DEF WatchRecord, scriptVars, Unharmed
<1>10. ASSUME NEW p \in Profilers, WatchScript(p) PROVE PipeInv'
  BY <1>1, <1>10 DEF WatchScript, CommandInv, Unharmed
<1>11. ASSUME NEW p \in Profilers,
              ConnectStream(p) \/ ConnectFrontend(p) \/ TellFrontend(p) \/ ProcessEvent(p) \/ StopStream(p)
       PROVE  PipeInv'
  BY <1>1, <1>11 DEF ConnectStream, ConnectFrontend, StopStream, TellFrontend, ProcessEvent,
     perfVars, Unharmed
<1>12. ASSUME NEW p \in Profilers, ScriptFails(p) PROVE PipeInv'
  BY <1>1, <1>12 DEF ScriptFails, Unharmed
<1>13. CASE ServerReads \/ ServerRuns \/ (\E i \in Subclients : StreamRuns(i)) \/ UNCHANGED sessionVars
  BY <1>2, <1>13 DEF ServerReads, ServerRuns, StreamRuns, StreamAccepted,
     StreamRead, sessionVars, partyVars, scriptVars, perfVars
<1>14. ASSUME NEW f \in Faults, CommandFails(f) PROVE PipeInv'
  BY <1>14 DEF CommandFails, Unharmed
<1> QED BY <1>3, <1>4, <1>5, <1>7, <1>8, <1>9, <1>10, <1>11, <1>12, <1>13, <1>14
     DEF SessionNext, ProfilerRuns, ScriptRuns

-----------------------------------------------------------------------------
(* The end of a stream: sent once, last, and read last.                     *)

EndOf(i) ==
  /\ \A k \in DOMAIN stream[i] : stream[i][k] = StopLine <=> i \in stopped /\ k = Len(stream[i])
  /\ subpc[i] = "done" <=> i \in stopped /\ stream[i] = <<>>

StopInv ==
  /\ stopped \cap methods = {}
  /\ fpc \in Setup => stopped = {}
  /\ \A p \in Profilers :
       /\ script[p] \in {"absent", "connect", "hello", "process"} => streams[p] \cap stopped = {}
       /\ script[p] = "stop" => ~(streams[p] \subseteq stopped)
  /\ \A i \in Subclients : EndOf(i)

LEMMA StopInit == SessionInit => StopInv
BY DEF SessionInit, Init, StopInv, EndOf

LEMMA AfterHead ==
  ASSUME NEW S, NEW s \in Seq(S), s # <<>>
  PROVE  /\ Len(Tail(s)) = Len(s) - 1 /\ Head(s) = s[1] /\ 1 \in DOMAIN s
         /\ \A k \in DOMAIN Tail(s) : Tail(s)[k] = s[k + 1] /\ k + 1 \in DOMAIN s
         /\ (Tail(s) = <<>> <=> Len(s) = 1)
<1>1. Tail(s) \in Seq(S) /\ Len(s) \in Nat \ {0} /\ Len(Tail(s)) = Len(s) - 1
  OBVIOUS
<1>2. \A t \in Seq(S) : t = <<>> <=> Len(t) = 0
  OBVIOUS
<1>3. \A k \in DOMAIN Tail(s) : Tail(s)[k] = s[k + 1] /\ k + 1 \in DOMAIN s
  BY <1>1
<1>4. Tail(s) = <<>> <=> Len(s) = 1
  <2> DEFINE t == Tail(s)
  <2>1. t \in Seq(S) /\ Len(s) \in Nat /\ Len(t) = Len(s) - 1
    BY <1>1
  <2> HIDE DEF t
  <2>2. t = <<>> <=> Len(s) = 1
    BY <2>1, <1>2
  <2> QED BY <2>2 DEF t
<1> QED BY <1>1, <1>3, <1>4

(* What a step does to the ends of the streams, seen from a subclient.      *)
LEMMA DoneStep ==
  ASSUME TypeOK, FlowInv, [SessionNext]_sessionVars, NEW i \in Subclients
  PROVE  (subpc'[i] = "done" <=> subpc[i] = "done")
         \/ (StreamRead(i) /\ Head(stream[i]) = StopLine)
<1> USE DEF controlVars, lockVars, startVars, readVars, localVars, mergeVars
<1>1. subpc \in [Subclients -> SubPcs]
  BY DEF TypeOK, SubclientTypeOK
<1>2. CASE FrontendRuns
  BY <1>2 DEF FrontendRuns, StartWrapper, SendStart, GetInstructions, StartScript,
     StartRecord, AcceptGeneric, PassGate, GateTimeout, SendTstamp, NotifyWrapper,
     JoinWrapper, WaitProfiler, ReadResult, DrainGeneric, ReadFinished, FrontendReads, vars
<1>3. ASSUME NEW p \in Profilers, ProfilerRuns(p) \/ ScriptFails(p) PROVE UNCHANGED subpc
  BY <1>3 DEF ProfilerRuns, Attach, RecordEnds, WatchRecord, WatchScript, ScriptRuns,
     ConnectStream, ConnectFrontend, ProcessEvent, StopStream, TellFrontend, ScriptFails, vars
<1>4. CASE \/ \E p \in Profilers, t \in Tids : Sample(p, t)
           \/ \E t \in Tids : StartThread(t)
           \/ CommandStarts \/ CommandEnds \/ (\E f \in Faults : CommandFails(f))
           \/ \E p \in Profilers, f \in Faults : RecordFails(p, f)
           \/ UNCHANGED sessionVars
  BY <1>4 DEF Sample, StartThread, CommandStarts, CommandEnds, CommandFails, RecordFails, sessionVars, vars
<1>5. CASE ServerReads
  BY <1>5 DEF ServerReads, ReadCommand, ReadFilename, ReadTstamp
<1>6. CASE ServerRuns
  BY <1>1, <1>6 DEF ServerRuns, ClientRuns, SpawnSubclient, WriteInstructions, LockAccepted,
     CheckAccepted, WaitAccepted, WriteStartProfile, StoreTstamp, StoreProfileStart,
     WriteTstampAck, MergeResult, RethrowSubclientError, SaveResults,
     WriteFileInstructions, WriteFinished, DestroyLocals
<1>7. ASSUME NEW j \in Subclients, StreamRuns(j)
      PROVE (subpc'[i] = "done" <=> subpc[i] = "done") \/ (j = i /\ StreamRead(j) /\ Head(stream[j]) = StopLine)
  BY <1>1, <1>7 DEF StreamRuns, StreamAccepted, StreamRead, SubclientRuns, AcceptConnection,
     ReadLine, ReadStop, IncrementAccepted, NotifyAll, HandleLine
<1> QED BY <1>2, <1>3, <1>4, <1>5, <1>6, <1>7 DEF SessionNext

LEMMA StopStep ==
  ASSUME TypeOK, FlowInv, StreamsInv, ReportInv, GivenInv, StopInv, [SessionNext]_sessionVars
  PROVE  StopInv'
<1>0. /\ stream \in [Subclients -> Seq(EventLines \cup {StopLine})]
      /\ \A l \in EventLines : l # StopLine
      /\ streams \in [Profilers -> SUBSET Subclients]
      /\ DOMAIN script = Profilers /\ fp \in Profilers
  BY DEF FlowInv, EventLines, MetaLines, SampleLines, StopLine, StreamsInv
<1>1. ASSUME UNCHANGED <<streams, stopped, stream>>, methods' \subseteq methods,
             fpc' \in Setup => fpc \in Setup,
             \A p \in Profilers :
               /\ script'[p] \in {"absent", "connect", "hello", "process"} =>
                    script[p] \in {"absent", "connect", "hello", "process"}
               /\ script'[p] = "stop" => script[p] = "stop",
             UNCHANGED subpc
      PROVE  StopInv'
  BY <1>1 DEF StopInv, EndOf
<1>2. CASE GetInstructions
  BY <1>2 DEF GetInstructions, FrontendReads, StopInv, EndOf, Setup, scriptVars
<1>3. CASE StartScript
  <2> DEFINE handed == Handed(fp)
  <2>1. /\ handed \subseteq methods /\ methods' = methods \ handed
        /\ streams' = [streams EXCEPT ![fp] = handed]
        /\ script' = [script EXCEPT ![fp] = "connect"]
        /\ fpc' = "record" /\ UNCHANGED <<subpc, stopped, stream>>
    BY <1>3 DEF StartScript, Handed, vars
  <2> HIDE DEF handed
  <2> QED BY <1>0, <2>1 DEF StopInv, EndOf, Setup
<1>4. CASE FrontendRuns /\ ~GetInstructions /\ ~StartScript
  BY <1>1, <1>4 DEF FrontendRuns, StartWrapper, SendStart,
     StartRecord, AcceptGeneric, PassGate, GateTimeout, SendTstamp, NotifyWrapper,
     JoinWrapper, WaitProfiler, ReadResult, DrainGeneric, ReadFinished, FrontendReads,
     scriptVars, setupVars, Setup, vars
<1>5. ASSUME NEW p \in Profilers, NEW i, i \in streams[p] \ stopped, NEW l \in EventLines,
             script[p] = "process", UNCHANGED <<subpc, fpc, methods, streams, stopped, script>>,
             stream' = [stream EXCEPT ![i] = Append(@, l)]
      PROVE  StopInv'
  <2>1. \A j \in Subclients : EndOf(j)'
    <3> TAKE j \in Subclients
    <3>1. EndOf(j)
      BY DEF StopInv
    <3>2. CASE j # i
      BY <1>0, <1>5, <3>1, <3>2 DEF EndOf
    <3>3. CASE j = i
      <4>1. stream'[i] = Append(stream[i], l) /\ stream[i] \in Seq(EventLines \cup {StopLine})
        BY <1>0, <1>5, <3>3
      <4>2. l # StopLine
        BY <1>0
      <4> QED BY <1>5, <3>1, <3>3, <4>1, <4>2 DEF EndOf
    <3> QED BY <3>2, <3>3
  <2> QED BY <1>5, <2>1 DEF StopInv
<1>6. ASSUME NEW p \in Profilers, ProcessEvent(p) PROVE StopInv'
  <2> DEFINE l == Head(perf_pipe[p])
             i == StreamFor(p, l.tid)
  <2>1. /\ script[p] = "process" /\ perf_pipe[p] # <<>>
        /\ stream' = [stream EXCEPT ![i] = Append(@, l)]
        /\ UNCHANGED <<subpc, fpc, methods, streams, stopped, script>>
    BY <1>6 DEF ProcessEvent, frontendVars, setupVars, vars
  <2>2. l \in EventLines
    BY <2>1, Shortened DEF FlowInv
  <2>3. l.tid \in Tids
    BY <2>2 DEF EventLines, MetaLines, SampleLines
  <2>4. i \in streams[p] \ stopped
    BY <2>1, <2>3, StreamForGiven DEF StopInv
  <2> HIDE DEF l, i
  <2> QED BY <1>5, <2>1, <2>2, <2>4
<1>7. ASSUME NEW p \in Profilers, StopStream(p) PROVE StopInv'
  <2> DEFINE i == First(streams[p] \ stopped)
  <2>1. /\ script[p] \in {"process", "stop"}
        /\ stream' = [stream EXCEPT ![i] = Append(@, StopLine)]
        /\ stopped' = stopped \cup {i}
        /\ script' = [script EXCEPT ![p] = IF streams[p] \subseteq stopped' THEN "tell" ELSE "stop"]
        /\ UNCHANGED <<subpc, fpc, methods, streams>>
    BY <1>7 DEF StopStream, frontendVars, setupVars, vars
  <2>2. i \in streams[p] \ stopped
    <3>1. streams[p] # {} /\ streams[p] \subseteq Nat
      BY <1>0, <2>1, StreamForGiven DEF Subclients
    <3>2. streams[p] \ stopped # {}
      BY <2>1, <3>1 DEF StopInv
    <3>3. streams[p] \ stopped \subseteq Nat
      BY <3>1
    <3> QED BY <3>2, <3>3, FirstIsLeast
  <2> HIDE DEF i
  <2>3. \A j \in Subclients : EndOf(j)'
    <3> TAKE j \in Subclients
    <3>1. EndOf(j)
      BY DEF StopInv
    <3>2. CASE j # i
      BY <1>0, <2>1, <3>1, <3>2 DEF EndOf
    <3>3. CASE j = i
      <4>1. stream'[i] = Append(stream[i], StopLine) /\ stream[i] \in Seq(EventLines \cup {StopLine})
        BY <1>0, <2>1, <3>3
      <4> QED BY <2>1, <2>2, <3>1, <3>3, <4>1 DEF EndOf
    <3> QED BY <3>2, <3>3
  <2>4. \A q \in Profilers : q # p => i \notin streams[q]
    BY <2>2 DEF StreamsInv
  <2>5. i \notin methods
    BY <2>2 DEF StreamsInv
  <2>6. fpc \notin Setup
    BY <2>2 DEF StreamsInv, Setup
  <2> QED BY <1>0, <2>1, <2>3, <2>4, <2>5, <2>6 DEF StopInv
<1>8. ASSUME NEW p \in Profilers,
             Attach(p) \/ RecordEnds(p) \/ (\E f \in Faults : RecordFails(p, f))
             \/ ConnectStream(p) \/ ConnectFrontend(p) \/ TellFrontend(p)
             \/ ScriptFails(p) \/ WatchRecord(p) \/ WatchScript(p)
      PROVE  StopInv'
  BY <1>0, <1>1, <1>8 DEF Attach, RecordEnds, RecordFails, ConnectStream, ConnectFrontend,
     TellFrontend, ScriptFails, WatchRecord, WatchScript, scriptVars, setupVars, frontendVars, vars
<1>9. CASE \/ \E p \in Profilers, t \in Tids : Sample(p, t)
           \/ \E t \in Tids : StartThread(t)
           \/ CommandStarts \/ CommandEnds \/ (\E f \in Faults : CommandFails(f)) \/ UNCHANGED sessionVars
  BY <1>1, <1>9 DEF Sample, StartThread, CommandStarts, CommandEnds, CommandFails, sessionVars, partyVars,
     frontendVars, scriptVars, setupVars, vars
<1>10. ASSUME UNCHANGED <<fpc, methods, streams, stopped, script>>, \A i \in Subclients : EndOf(i)' PROVE StopInv'
  BY <1>10 DEF StopInv
<1>11. ASSUME UNCHANGED <<stopped, stream>>, \A i \in Subclients : subpc'[i] = "done" <=> subpc[i] = "done"
       PROVE \A i \in Subclients : EndOf(i)'
  BY <1>11 DEF StopInv, EndOf
<1>12. CASE ServerReads \/ ServerRuns \/ \E i \in Subclients : StreamRuns(i) /\ ~StreamRead(i)
  <2>1. UNCHANGED <<fpc, methods, streams, stopped, stream, script>>
    BY <1>12 DEF ServerReads, ServerRuns, StreamRuns, StreamAccepted, partyVars, frontendVars, scriptVars,
       setupVars
  <2>2. \A i \in Subclients : subpc'[i] = "done" <=> subpc[i] = "done"
    <3>1. ASSUME NEW i \in Subclients, StreamRead(i) PROVE FALSE
      BY <2>1, <1>0, <3>1 DEF StreamRead
    <3> QED BY <3>1, DoneStep
  <2> QED BY <1>10, <1>11, <2>1, <2>2
<1>13. ASSUME NEW i \in Subclients, StreamRead(i) PROVE StopInv'
  <2>1. /\ stream[i] # <<>> /\ stream' = [stream EXCEPT ![i] = Tail(@)]
        /\ UNCHANGED <<fpc, methods, streams, stopped, script>>
    BY <1>13 DEF StreamRead, frontendVars, setupVars
  <2>2. /\ subpc[i] # "done" /\ (subpc'[i] = "done" <=> Head(stream[i]) = StopLine)
        /\ \A j \in Subclients : j # i => subpc'[j] = subpc[j]
    BY <1>13 DEF StreamRead, ReadStop, ReadLine, TypeOK, SubclientTypeOK
  <2>3. \A j \in Subclients : EndOf(j)'
    <3> TAKE j \in Subclients
    <3>1. EndOf(j)
      BY DEF StopInv
    <3>2. CASE j # i
      BY <1>0, <2>1, <2>2, <3>1, <3>2 DEF EndOf
    <3>3. CASE j = i
      <4>1. /\ stream'[i] = Tail(stream[i]) /\ stream[i] \in Seq(EventLines \cup {StopLine})
            /\ stream[i] # <<>>
        BY <1>0, <2>1, <3>3
      <4>2. /\ Len(stream'[i]) = Len(stream[i]) - 1 /\ Head(stream[i]) = stream[i][1]
            /\ \A k \in DOMAIN stream'[i] : stream'[i][k] = stream[i][k + 1] /\ k + 1 \in DOMAIN stream[i]
            /\ 1 \in DOMAIN stream[i] /\ (stream'[i] = <<>> <=> Len(stream[i]) = 1)
        BY <4>1, AfterHead
      <4>3. Head(stream[i]) = StopLine <=> i \in stopped /\ Len(stream[i]) = 1
        BY <3>1, <3>3, <4>2 DEF EndOf
      <4>4. (subpc[i] = "done" <=> i \in stopped /\ stream[i] = <<>>)'
        BY <2>1, <2>2, <4>2, <4>3
      <4>5. (\A k \in DOMAIN stream[i] : stream[i][k] = StopLine <=> i \in stopped /\ k = Len(stream[i]))'
        BY <2>1, <3>1, <3>3, <4>1, <4>2 DEF EndOf
      <4> QED BY <3>3, <4>4, <4>5 DEF EndOf
    <3> QED BY <3>2, <3>3
  <2> QED BY <1>10, <2>1, <2>3
<1> QED BY <1>2, <1>3, <1>4, <1>6, <1>7, <1>8, <1>9, <1>12, <1>13
     DEF SessionNext, ProfilerRuns, ScriptRuns

-----------------------------------------------------------------------------
(* What perf-script tells the frontend: the end mark once and last.         *)

Tellings == {"found", "<STOP>"}

Telling(p) ==
  /\ \A k \in DOMAIN generic[p] : generic[p][k] = "<STOP>" => k = Len(generic[p])
  /\ script[p] \notin {"tell", "exited", "failed", "reaped"} => generic[p] = <<>>
  /\ script[p] = "tell" =>
       /\ outbox[p] # <<>>
       /\ \A k \in DOMAIN outbox[p] : outbox[p][k] = "<STOP>" <=> k = Len(outbox[p])
       /\ \A k \in DOMAIN generic[p] : generic[p][k] # "<STOP>"

GenericInv ==
  /\ generic \in [Profilers -> Seq(Tellings)]
  /\ outbox \in [Profilers -> Seq(Tellings)]
  /\ \A p \in Profilers : Telling(p)
  /\ fpc = "drain" => \A p \in Profilers : p < fp => generic[p] = <<>>
  /\ fpc = "finished" \/ Success => \A p \in Profilers : generic[p] = <<>>

LEMMA GenericInit == SessionInit => GenericInv
BY DEF SessionInit, GenericInv, Telling, Success

LEMMA GenericStep == ReportInv /\ GenericInv /\ [SessionNext]_sessionVars => GenericInv'
<1> SUFFICES ASSUME ReportInv, GenericInv, [SessionNext]_sessionVars PROVE GenericInv'
  OBVIOUS
<1> USE DEF GenericInv, Success
<1>1. DOMAIN script = Profilers /\ fp \in Profilers /\ ProfilerCnt \in Profilers
      /\ \A p \in Profilers : p \in Int /\ p <= ProfilerCnt
  BY ProfilersAssumption DEF ReportInv, TurnInv, Profilers
<1>2. ASSUME UNCHANGED <<generic, outbox, fpc, fp, code>>,
             \A p \in Profilers :
               script'[p] = script[p]
               \/ /\ script'[p] # "tell"
                  /\ script'[p] \in {"exited", "failed", "reaped"} \/ generic[p] = <<>>
      PROVE  GenericInv'
  <2>1. \A p \in Profilers : Telling(p) => Telling(p)'
    BY <1>2 DEF Telling
  <2> QED BY <1>2, <2>1
<1>21. ASSUME UNCHANGED <<generic, outbox, script>>, fpc' \notin {"drain", "finished"}, ~Success'
      PROVE  GenericInv'
  BY <1>21 DEF Telling
(* The frontend. *)
<1>3. CASE \/ StartWrapper \/ SendStart \/ GetInstructions \/ PassGate \/ GateTimeout
           \/ SendTstamp \/ NotifyWrapper \/ JoinWrapper \/ WaitProfiler
           \/ StartRecord \/ AcceptGeneric
  BY <1>21, <1>3 DEF StartWrapper, SendStart, GetInstructions, PassGate, GateTimeout,
     SendTstamp, NotifyWrapper, JoinWrapper, WaitProfiler, StartRecord, AcceptGeneric,
     scriptVars, perfVars
<1>4. CASE StartScript
  <2>1. /\ script[fp] = "absent" /\ fpc' = "record"
        /\ script' = [script EXCEPT ![fp] = "connect"] /\ UNCHANGED <<generic, outbox>>
    BY <1>4 DEF StartScript, perfVars, ReportInv, TurnInv
  <2> QED BY <1>1, <2>1 DEF Telling
<1>5. CASE ReadResult
  BY <1>1, <1>5, ProfilersAssumption DEF ReadResult, scriptVars, perfVars, Profilers, Telling
<1>6. CASE ReadFinished
  BY <1>6 DEF ReadFinished, scriptVars, perfVars, Telling
<1>7. CASE DrainGeneric
  <2>1. /\ fpc = "drain" /\ generic[fp] # <<>> /\ generic' = [generic EXCEPT ![fp] = Tail(@)]
        /\ \/ Head(generic[fp]) # "<STOP>" /\ UNCHANGED <<fpc, fp>>
           \/ Head(generic[fp]) = "<STOP>" /\ fp = ProfilerCnt /\ fpc' = "finished" /\ fp' = fp
           \/ Head(generic[fp]) = "<STOP>" /\ fp # ProfilerCnt /\ fp' = fp + 1 /\ fpc' = fpc
        /\ UNCHANGED <<script, outbox>>
    BY <1>7 DEF DrainGeneric, LastMessage, scriptVars
  <2> DEFINE s == generic[fp]
  <2>2. s \in Seq(Tellings) /\ s # <<>> /\ generic'[fp] = Tail(s)
        /\ generic' \in [Profilers -> Seq(Tellings)]
    BY <1>1, <2>1
  <2>3. /\ Len(Tail(s)) = Len(s) - 1 /\ Head(s) = s[1] /\ 1 \in DOMAIN s
        /\ \A k \in DOMAIN Tail(s) : Tail(s)[k] = s[k + 1] /\ k + 1 \in DOMAIN s
        /\ (Tail(s) = <<>> <=> Len(s) = 1)
    BY <2>2, AfterHead
  <2>4. \A k \in DOMAIN s : s[k] = "<STOP>" => k = Len(s)
    BY <1>1 DEF Telling
  <2>5. (s[1] = "<STOP>" => Tail(s) = <<>>)
        /\ \A k \in DOMAIN Tail(s) : Tail(s)[k] = "<STOP>" => k = Len(Tail(s))
    <3>1. s[1] = "<STOP>" => Len(s) = 1
      BY <2>3, <2>4
    <3>2. ASSUME NEW k \in DOMAIN Tail(s), Tail(s)[k] = "<STOP>" PROVE k = Len(Tail(s))
      <4>1. k \in Int /\ Len(s) \in Int
        BY <2>2
      <4>2. k + 1 = Len(s)
        BY <2>3, <2>4, <3>2
      <4> QED BY <2>3, <4>1, <4>2
    <3> QED BY <2>3, <3>1, <3>2
  <2>6. script[fp] = "reaped"
    BY <1>1, <2>1 DEF ReportInv, WaitInv, VerdictInv, Waited
  <2>7. \A p \in Profilers : p # fp => generic'[p] = generic[p]
    BY <2>1
  <2> HIDE DEF s
  <2>8. \A p \in Profilers : Telling(p)'
    BY <2>1, <2>2, <2>5, <2>6, <2>7 DEF Telling
  <2>9. (fpc = "drain" => \A p \in Profilers : p < fp => generic[p] = <<>>)'
    <3>1. CASE UNCHANGED <<fpc, fp>>
      BY <1>1, <2>1, <2>7, <3>1
    <3>2. CASE ~UNCHANGED <<fpc, fp>>
      <4>1. generic'[fp] = <<>>
        BY <2>1, <2>2, <2>3, <2>5, <3>2 DEF s
      <4> QED BY <1>1, <2>1, <2>7, <4>1
    <3> QED BY <3>1, <3>2
  <2>10. (fpc = "finished" \/ Success => \A p \in Profilers : generic[p] = <<>>)'
    <3>1. SUFFICES ASSUME fpc' # "drain" PROVE \A p \in Profilers : generic'[p] = <<>>
      BY <2>1
    <3>2. generic'[fp] = <<>> /\ fp = ProfilerCnt
      BY <2>1, <2>2, <2>3, <2>5, <3>1 DEF s
    <3> QED BY <1>1, <2>1, <2>7, <3>2
  <2> QED BY <2>1, <2>2, <2>8, <2>9, <2>10
(* perf-script. *)
<1>8. ASSUME NEW p \in Profilers, TellFrontend(p) PROVE GenericInv'
  <2> DEFINE msg == Head(outbox[p])
  <2>1. /\ script[p] = "tell" /\ generic' = [generic EXCEPT ![p] = Append(@, msg)]
        /\ outbox' = [outbox EXCEPT ![p] = Tail(@)]
        /\ script' = [script EXCEPT ![p] = IF Len(outbox[p]) = 1 THEN "exited" ELSE "tell"]
        /\ UNCHANGED <<fpc, fp, code>>
    BY <1>8 DEF TellFrontend, frontendVars
  <2>2. fpc \notin Waited /\ ~Success
    BY <2>1 DEF ReportInv, WaitInv, VerdictInv
  <2>3. generic[p] \in Seq(Tellings) /\ generic'[p] = Append(generic[p], msg)
    BY <2>1
  <2> DEFINE o == outbox[p]
  <2>4. o \in Seq(Tellings) /\ o # <<>> /\ msg = o[1] /\ 1 \in DOMAIN o /\ outbox'[p] = Tail(o)
        /\ \A k \in DOMAIN o : o[k] = "<STOP>" <=> k = Len(o)
    BY <2>1 DEF Telling
  <2>5. /\ Len(Tail(o)) = Len(o) - 1 /\ (Tail(o) = <<>> <=> Len(o) = 1)
        /\ \A k \in DOMAIN Tail(o) : Tail(o)[k] = o[k + 1] /\ k + 1 \in DOMAIN o
    BY <2>4, AfterHead
  <2>6. msg \in Tellings /\ Tail(o) \in Seq(Tellings)
    BY <2>4
  <2>7. generic' \in [Profilers -> Seq(Tellings)] /\ outbox' \in [Profilers -> Seq(Tellings)]
    <3> HIDE DEF msg
    <3> QED BY <2>1, <2>6, Appended
  <2>8. \A k \in DOMAIN generic'[p] :
          (k = Len(generic'[p]) /\ generic'[p][k] = msg) \/ generic'[p][k] # "<STOP>"
    BY <2>1, <2>3 DEF Telling
  <2>9. \A q \in Profilers : q # p => generic'[q] = generic[q] /\ outbox'[q] = outbox[q] /\ script'[q] = script[q]
    BY <2>1
  <2>10. \A k \in DOMAIN Tail(o) : Tail(o)[k] = "<STOP>" <=> k = Len(Tail(o))
    <3> TAKE k \in DOMAIN Tail(o)
    <3>1. k \in Int /\ Len(o) \in Int
      BY <2>4, <2>6
    <3>2. o[k + 1] = "<STOP>" <=> k + 1 = Len(o)
      BY <2>4, <2>5
    <3> QED BY <2>5, <3>1, <3>2
  <2>11. Telling(p)'
    <3>1. Len(o) # 1 => msg # "<STOP>" /\ Tail(o) # <<>>
      BY <2>4, <2>5
    <3>2. script'[p] = IF Len(o) = 1 THEN "exited" ELSE "tell"
      BY <1>1, <2>1
    <3> HIDE DEF msg, o
    <3> QED BY <2>4, <2>8, <2>10, <3>1, <3>2 DEF Telling
  <2>12. \A q \in Profilers : Telling(q)'
    <3> TAKE q \in Profilers
    <3>1. CASE q = p
      BY <2>11, <3>1
    <3>2. CASE q # p
      <4>1. Telling(q) /\ generic'[q] = generic[q] /\ outbox'[q] = outbox[q] /\ script'[q] = script[q]
        BY <2>9, <3>2
      <4> QED BY <4>1 DEF Telling
    <3> QED BY <3>1, <3>2
  <2> QED BY <2>1, <2>2, <2>7, <2>12 DEF Waited
<1>9. ASSUME NEW p \in Profilers, StopStream(p) PROVE GenericInv'
  <2> DEFINE o == (IF p = 1 \/ SawEvent(p) THEN <<"found">> ELSE <<>>) \o <<"<STOP>">>
  <2>1. script[p] \in {"process", "stop"} /\ UNCHANGED <<generic, fpc, fp, code>>
        /\ \/ script' = [script EXCEPT ![p] = "stop"] /\ UNCHANGED outbox
           \/ script' = [script EXCEPT ![p] = "tell"] /\ outbox' = [outbox EXCEPT ![p] = o]
    BY <1>9 DEF StopStream, frontendVars, perfVars
  <2>2. o \in Seq(Tellings) /\ o # <<>> /\ \A k \in DOMAIN o : o[k] = "<STOP>" <=> k = Len(o)
    <3>1. ASSUME NEW b \in {<<"found">>, <<>>}
          PROVE  /\ b \o <<"<STOP>">> \in Seq(Tellings) /\ Len(b \o <<"<STOP>">>) = Len(b) + 1
                 /\ \A k \in 1..(Len(b) + 1) : (b \o <<"<STOP>">>)[k] = "<STOP>" <=> k = Len(b) + 1
      <4>1. b \in Seq(Tellings) /\ Len(b) \in Nat /\ \A k \in 1..Len(b) : b[k] = "found"
        <5>1. CASE b = <<"found">>
          BY <5>1 DEF Tellings
        <5>2. CASE b = <<>>
          BY <5>2
        <5> QED BY <3>1, <5>1, <5>2
      <4>2. <<"<STOP>">> \in Seq(Tellings)
        BY DEF Tellings
      <4> HIDE DEF Tellings
      <4> QED BY <4>1, <4>2
    <3>2. (IF p = 1 \/ SawEvent(p) THEN <<"found">> ELSE <<>>) \in {<<"found">>, <<>>}
      OBVIOUS
    <3>3. PICK b \in {<<"found">>, <<>>} : o = b \o <<"<STOP>">>
      BY <3>2
    <3> HIDE DEF o
    <3>4. o \in Seq(Tellings) /\ Len(o) = Len(b) + 1
          /\ \A k \in 1..(Len(b) + 1) : o[k] = "<STOP>" <=> k = Len(b) + 1
      BY <3>1, <3>3
    <3>5. Len(b) \in Nat
      BY <3>3
    <3> QED BY <3>4, <3>5
  <2> HIDE DEF o
  <2>3. outbox' \in [Profilers -> Seq(Tellings)]
    BY <2>1, <2>2
  <2>4. \A q \in Profilers : Telling(q)'
    <3> TAKE q \in Profilers
    <3>1. Telling(q) /\ (script[p] \in {"process", "stop"} => Telling(p))
      OBVIOUS
    <3>2. CASE q = p
      BY <1>1, <2>1, <2>2, <3>1, <3>2 DEF Telling
    <3>3. CASE q # p
      <4>1. generic'[q] = generic[q] /\ outbox'[q] = outbox[q] /\ script'[q] = script[q]
        BY <1>1, <2>1, <3>3
      <4> QED BY <3>1, <4>1 DEF Telling
    <3> QED BY <3>2, <3>3
  <2>5. Success' = Success
    BY <2>1
  <2> QED BY <2>1, <2>3, <2>4, <2>5
<1>10. ASSUME NEW p \in Profilers,
              \/ Attach(p) \/ RecordEnds(p) \/ (\E f \in Faults : RecordFails(p, f))
              \/ ConnectStream(p) \/ ConnectFrontend(p) \/ ProcessEvent(p)
              \/ ScriptFails(p) \/ WatchRecord(p) \/ WatchScript(p)
       PROVE  GenericInv'
  <2>1. UNCHANGED <<generic, outbox, fpc, fp, code>>
    BY <1>10 DEF Attach, RecordEnds, RecordFails, ConnectStream, ConnectFrontend,
       ProcessEvent, ScriptFails, WatchRecord, WatchScript, frontendVars, scriptVars, perfVars
  <2>2. \/ UNCHANGED script
        \/ script' = [script EXCEPT ![p] = "failed"] \/ script' = [script EXCEPT ![p] = "reaped"]
        \/ /\ script[p] \in {"connect", "hello"}
           /\ script' = [script EXCEPT ![p] = script'[p]] /\ script'[p] # "tell"
    BY <1>1, <1>10 DEF Attach, RecordEnds, RecordFails, ConnectStream, ConnectFrontend,
       ProcessEvent, ScriptFails, WatchRecord, WatchScript, scriptVars
  <2>3. script[p] \in {"connect", "hello"} => generic[p] = <<>>
    BY DEF Telling
  <2> QED BY <1>1, <1>2, <2>1, <2>2, <2>3
<1>11. CASE \/ \E p \in Profilers, t \in Tids : Sample(p, t)
            \/ \E t \in Tids : StartThread(t)
            \/ CommandStarts \/ CommandEnds \/ (\E f \in Faults : CommandFails(f))
            \/ ServerReads \/ ServerRuns \/ (\E i \in Subclients : StreamRuns(i))
            \/ UNCHANGED sessionVars
  BY <1>2, <1>11 DEF Sample, StartThread, CommandStarts, CommandEnds, CommandFails, ServerReads, ServerRuns,
     StreamRuns, StreamAccepted, StreamRead, sessionVars, partyVars, frontendVars, scriptVars, perfVars
<1> QED BY <1>3, <1>4, <1>5, <1>6, <1>7, <1>8, <1>9, <1>10, <1>11
     DEF SessionNext, FrontendRuns, ProfilerRuns, ScriptRuns

-----------------------------------------------------------------------------
(* What the client has still to say, and what has been heard of it.         *)

LEMMA WithOneMore ==
  ASSUME NEW S, NEW s \in Seq(S), NEW x
  PROVE  \A k \in DOMAIN Append(s, x) :
           \/ k = Len(Append(s, x)) /\ Append(s, x)[k] = x
           \/ k \in DOMAIN s /\ Append(s, x)[k] = s[k]
OBVIOUS

(* The last two messages come when every stream is done; nothing follows.   *)
LEMMA WriteStep ==
  ASSUME [Next]_vars
  PROVE  /\ pc = "returned" => pc' = "returned"
         /\ \/ UNCHANGED toFrontend
            \/ toFrontend # <<>> /\ toFrontend' = Tail(toFrontend)
            \/ \E msg : /\ toFrontend' = Append(toFrontend, msg) /\ pc # "returned"
                        /\ msg = "finished" => pc = "finish" /\ pc' = "returned"
                        /\ msg = "profiling_finished" => pc = "save"
<1> USE DEF controlVars, lockVars, startVars, readVars, localVars, mergeVars
<1>1. CASE WriteInstructions \/ WriteStartProfile \/ WriteTstampAck \/ SaveResults
           \/ WriteFileInstructions \/ WriteFinished
  BY <1>1 DEF WriteInstructions, WriteStartProfile, WriteTstampAck, SaveResults,
     WriteFileInstructions, WriteFinished, Write
<1>2. CASE \/ \E i \in Subclients : SpawnSubclient(i) \/ MergeResult(i) \/ RethrowSubclientError(i)
           \/ LockAccepted \/ CheckAccepted \/ WaitAccepted
           \/ StoreTstamp \/ StoreProfileStart \/ DestroyLocals
  BY <1>2 DEF SpawnSubclient, LockAccepted, CheckAccepted, WaitAccepted,
     StoreTstamp, StoreProfileStart, MergeResult, RethrowSubclientError, DestroyLocals
<1>3. CASE ClientReads
  <2>1. \A reply \in FileReplies : reply \notin {"finished", "profiling_finished"}
    BY DEF FileReplies
  <2>2. CASE \E reply \in FileReplies : ReceiveFile(reply)
    BY <2>1, <2>2 DEF ReceiveFile, Write
  <2>3. CASE ReadFilename \/ \E cmd \in Commands, dirs \in BOOLEAN : ReadCommand(cmd, dirs)
    BY <2>3 DEF ReadCommand, ReadFilename, Write
  <2>4. CASE \/ \E msg \in TstampMsgs : ReadTstamp(msg)
             \/ \E cmd \in FileCommands : ReadFileCommand(cmd)
    BY <2>4 DEF ReadTstamp, ReadFileCommand, Write
  <2> QED BY <1>3, <2>2, <2>3, <2>4 DEF ClientReads
<1>4. ASSUME NEW i \in Subclients, SubclientRuns(i) \/ SubclientReads(i)
      PROVE  UNCHANGED toFrontend /\ (pc = "returned" => pc' = "returned")
  BY <1>4 DEF SubclientRuns, SubclientReads, IncrementAccepted, NotifyAll, HandleLine,
     AcceptConnection, ReadLine, ReadStop
<1>5. CASE Fails \/ SpuriousWakeup
  BY <1>5 DEF Fails, ClientThrows, ThrowingPcs, AcceptFails, ReadFails, SpuriousWakeup
<1>6. CASE FrontendReads
  BY <1>6 DEF FrontendReads
<1>7. CASE UNCHANGED vars
  BY <1>7 DEF vars
<1> QED BY <1>1, <1>2, <1>3, <1>4, <1>5, <1>6, <1>7 DEF Next, ClientRuns

AllDone == joined = SubclientCnt /\ \A i \in Subclients : subpc[i] = "done"

FinishInv ==
  /\ pc \in Collected => joined = SubclientCnt
  /\ \A k \in DOMAIN toFrontend :
       /\ toFrontend[k] \in {"profiling_finished", "finished"} => AllDone
       /\ toFrontend[k] = "finished" => k = Len(toFrontend) /\ pc = "returned"
  /\ fpc \in {"drain", "finished"} \/ Success => AllDone
  /\ Success => toFrontend = <<>> /\ pc = "returned"

LEMMA FinishInit == SessionInit => FinishInv
BY DEF SessionInit, Init, FinishInv, Success, Collected

(* The merge only counts up, and what is saved is merged.                   *)
LEMMA JoinedStep ==
  ASSUME SessionInv, [Next]_vars
  PROVE  /\ joined = SubclientCnt => joined' = SubclientCnt
         /\ (pc \in Collected => joined = SubclientCnt) => (pc \in Collected => joined = SubclientCnt)'
<1> USE DEF SessionInv, JoinInv, Collected, controlVars, lockVars, startVars, readVars, localVars, mergeVars
<1>1. ASSUME NEW i \in Subclients, MergeResult(i)
      PROVE  pc = "merge" /\ joined' = i /\ pc' = IF i = SubclientCnt THEN "save" ELSE "merge"
  BY <1>1 DEF MergeResult
<1>2. ASSUME UNCHANGED joined, pc' \in Collected => pc \in Collected
      PROVE  /\ joined = SubclientCnt => joined' = SubclientCnt
             /\ (pc \in Collected => joined = SubclientCnt) => (pc \in Collected => joined = SubclientCnt)'
  BY <1>2
<1>3. CASE ClientRuns /\ ~\E i \in Subclients : MergeResult(i)
  BY <1>2, <1>3 DEF ClientRuns, SpawnSubclient, WriteInstructions, LockAccepted, CheckAccepted,
     WaitAccepted, WriteStartProfile, StoreTstamp, StoreProfileStart, WriteTstampAck,
     RethrowSubclientError, SaveResults, WriteFileInstructions, WriteFinished, DestroyLocals
<1>4. CASE ClientReads
  BY <1>2, <1>4 DEF ClientReads, ReadCommand, ReadFilename, ReadTstamp, ReadFileCommand, ReceiveFile
<1>5. ASSUME NEW i \in Subclients, SubclientRuns(i) \/ SubclientReads(i)
      PROVE  UNCHANGED joined /\ (pc' \in Collected => pc \in Collected)
  BY <1>5 DEF SubclientRuns, SubclientReads, IncrementAccepted, NotifyAll, HandleLine,
     AcceptConnection, ReadLine, ReadStop
<1>6. CASE Fails \/ SpuriousWakeup \/ FrontendReads
  BY <1>2, <1>6 DEF Fails, ClientThrows, AcceptFails, ReadFails, SpuriousWakeup, FrontendReads
<1>7. CASE UNCHANGED vars
  BY <1>2, <1>7 DEF vars
<1>8. CASE \E i \in Subclients : MergeResult(i)
  <2>1. PICK i \in Subclients : MergeResult(i)
    BY <1>8
  <2>2. pc = "merge" /\ joined' = i /\ pc' = IF i = SubclientCnt THEN "save" ELSE "merge"
    BY <1>1, <2>1
  <2>3. joined < SubclientCnt /\ joined \in 0..SubclientCnt /\ SubclientCnt \in Nat
    BY <2>2, SubclientCntAssumption DEF TypeOK, MergeTypeOK
  <2> QED BY <2>2, <2>3
<1> QED BY <1>2, <1>3, <1>4, <1>5, <1>6, <1>7, <1>8 DEF Next

LEMMA FinishStep ==
  ASSUME SessionInv, FlowInv, FinishInv, [SessionNext]_sessionVars
  PROVE  FinishInv'
<1>1. /\ pc = "returned" => pc' = "returned"
      /\ \/ UNCHANGED toFrontend
         \/ toFrontend # <<>> /\ toFrontend' = Tail(toFrontend)
         \/ \E msg : /\ toFrontend' = Append(toFrontend, msg) /\ pc # "returned"
                     /\ msg = "finished" => pc = "finish" /\ pc' = "returned"
                     /\ msg = "profiling_finished" => pc = "save"
  BY SessionStepIsClientStep, WriteStep
<1>2. toFrontend \in Seq(Messages)
  BY DEF SessionInv, TypeOK, ControlTypeOK
<1> DEFINE Merged == pc \in Collected => joined = SubclientCnt
<1>0. Merged' /\ (joined = SubclientCnt => joined' = SubclientCnt)
  BY SessionStepIsClientStep, JoinedStep DEF FinishInv
<1> HIDE DEF Merged
<1>3. AllDone => AllDone'
  <2> SUFFICES ASSUME AllDone, NEW i \in Subclients PROVE subpc'[i] = "done"
    BY <1>0 DEF AllDone
  <2>1. subpc[i] = "done" /\ ~StreamRead(i)
    BY DEF AllDone, StreamRead, ReadStop, ReadLine
  <2> QED BY <2>1, DoneStep DEF SessionInv
<1>4. pc \in {"save", "finish"} => AllDone
  BY DEF SessionInv, JoinInv, Collected, AllDone, FinishInv
<1>5. \A k \in DOMAIN toFrontend' :
        /\ toFrontend'[k] \in {"profiling_finished", "finished"} => AllDone'
        /\ toFrontend'[k] = "finished" => k = Len(toFrontend') /\ pc' = "returned"
  <2>1. CASE UNCHANGED toFrontend
    BY <1>1, <1>3, <2>1 DEF FinishInv
  <2>2. CASE toFrontend # <<>> /\ toFrontend' = Tail(toFrontend)
    <3>1. /\ Len(toFrontend') = Len(toFrontend) - 1
          /\ \A k \in DOMAIN toFrontend' : toFrontend'[k] = toFrontend[k + 1] /\ k + 1 \in DOMAIN toFrontend
      BY <1>2, <2>2, AfterHead
    <3>2. \A k \in DOMAIN toFrontend' : k \in Int /\ Len(toFrontend) \in Int
      BY <1>2, <2>2
    <3> QED BY <1>1, <1>3, <3>1, <3>2 DEF FinishInv
  <2>3. ASSUME NEW msg, toFrontend' = Append(toFrontend, msg), pc # "returned",
               msg = "finished" => pc = "finish" /\ pc' = "returned",
               msg = "profiling_finished" => pc = "save"
        PROVE  \A k \in DOMAIN toFrontend' :
                 /\ toFrontend'[k] \in {"profiling_finished", "finished"} => AllDone'
                 /\ toFrontend'[k] = "finished" => k = Len(toFrontend') /\ pc' = "returned"
    <3>1. \A k \in DOMAIN toFrontend' :
            \/ k = Len(toFrontend') /\ toFrontend'[k] = msg
            \/ k \in DOMAIN toFrontend /\ toFrontend'[k] = toFrontend[k]
      BY <1>2, <2>3, WithOneMore
    <3> QED BY <1>3, <1>4, <2>3, <3>1 DEF FinishInv
  <2> QED BY <1>1, <2>1, <2>2, <2>3
<1>6. ASSUME UNCHANGED <<fpc, code>> PROVE FinishInv'
  <2>1. Success' = Success
    BY <1>6 DEF Success
  <2>2. Success => UNCHANGED toFrontend /\ pc' = "returned"
    BY <1>1 DEF FinishInv
  <2> QED BY <1>0, <1>3, <1>5, <1>6, <2>1, <2>2 DEF FinishInv, Merged
<1>7. ASSUME fpc' \notin {"drain", "finished"}, ~Success' PROVE FinishInv'
  BY <1>0, <1>5, <1>7 DEF FinishInv, Merged
<1>8. CASE StartWrapper \/ SendStart \/ GetInstructions \/ StartScript \/ StartRecord
           \/ AcceptGeneric \/ PassGate \/ GateTimeout \/ SendTstamp \/ NotifyWrapper
           \/ JoinWrapper \/ WaitProfiler
  BY <1>7, <1>8 DEF StartWrapper, SendStart, GetInstructions, StartScript, StartRecord,
     AcceptGeneric, PassGate, GateTimeout, SendTstamp, NotifyWrapper, JoinWrapper,
     WaitProfiler, Success
<1>9. CASE ReadResult
  <2>1. toFrontend # <<>> /\ Head(toFrontend) = "profiling_finished" /\ fpc' = "drain"
    BY <1>9 DEF ReadResult, Received
  <2>2. AllDone'
    BY <1>2, <1>3, <2>1 DEF FinishInv
  <2> QED BY <1>0, <1>5, <2>1, <2>2 DEF FinishInv, Success, Merged
<1>10. CASE DrainGeneric
  BY <1>0, <1>3, <1>5, <1>10 DEF DrainGeneric, FinishInv, Success, Merged
<1>11. CASE ReadFinished
  <2>1. toFrontend # <<>> /\ Head(toFrontend) = "finished" /\ toFrontend' = Tail(toFrontend)
        /\ fpc = "finished" /\ fpc' = "returned" /\ pc' = pc
    BY <1>11 DEF ReadFinished, Received, FrontendReads
  <2>2. Head(toFrontend) = toFrontend[1] /\ 1 \in DOMAIN toFrontend
        /\ (Tail(toFrontend) = <<>> <=> Len(toFrontend) = 1)
    BY <1>2, <2>1, AfterHead
  <2>3. Tail(toFrontend) = <<>> /\ pc = "returned"
    BY <2>1, <2>2 DEF FinishInv
  <2> QED BY <1>0, <1>3, <1>5, <2>1, <2>3 DEF FinishInv, Merged
<1>12. ASSUME NEW p \in Profilers, ProfilerRuns(p) \/ ScriptFails(p) PROVE UNCHANGED <<fpc, code>>
  BY <1>12 DEF ProfilerRuns, Attach, RecordEnds, WatchRecord, WatchScript, ScriptRuns,
     ConnectStream, ConnectFrontend, ProcessEvent, StopStream, TellFrontend, ScriptFails, frontendVars
<1>13. CASE \/ \E p \in Profilers, t \in Tids : Sample(p, t)
            \/ \E t \in Tids : StartThread(t)
            \/ CommandStarts \/ CommandEnds \/ (\E f \in Faults : CommandFails(f))
            \/ \E p \in Profilers, f \in Faults : RecordFails(p, f)
            \/ ServerReads \/ ServerRuns \/ (\E i \in Subclients : StreamRuns(i))
            \/ UNCHANGED sessionVars
  BY <1>6, <1>13 DEF Sample, StartThread, CommandStarts, CommandEnds, CommandFails, RecordFails, ServerReads,
     ServerRuns, StreamRuns, StreamAccepted, StreamRead, sessionVars, partyVars, frontendVars
<1> QED BY <1>6, <1>8, <1>9, <1>10, <1>11, <1>12, <1>13 DEF SessionNext, FrontendRuns

(* What holds of every session, with any fault.                             *)
EndInv ==
  /\ SessionInv /\ FlowInv /\ StreamsInv /\ FaultInv /\ ReportInv /\ CommandInv
  /\ GivenInv /\ PipeInv /\ StopInv /\ GenericInv /\ FinishInv

LEMMA EndInvariance == SessionSpec => []EndInv
<1>1. SessionInit => FlowInv /\ StreamsInv /\ FaultInv /\ ReportInv /\ CommandInv /\ GivenInv /\ PipeInv
                     /\ StopInv /\ GenericInv /\ FinishInv
  BY FlowInit, StreamsInit, FaultInit, ReportInit, CommandInit, GivenInit, PipeInit, StopInit, GenericInit,
     FinishInit
<1>2. EndInv /\ [SessionNext]_sessionVars =>
        (FlowInv /\ StreamsInv /\ FaultInv /\ ReportInv /\ CommandInv /\ GivenInv /\ PipeInv
         /\ StopInv /\ GenericInv /\ FinishInv)'
  <2> SUFFICES ASSUME EndInv, [SessionNext]_sessionVars
               PROVE  (FlowInv /\ StreamsInv /\ FaultInv /\ ReportInv /\ CommandInv /\ GivenInv /\ PipeInv
                       /\ StopInv /\ GenericInv /\ FinishInv)'
    OBVIOUS
  <2> USE DEF EndInv
  <2>1. FlowInv' /\ StreamsInv' /\ FaultInv' /\ ReportInv' /\ CommandInv'
    BY FlowStep, StreamsStep, FaultStep, ReportStep, CommandStep
  <2>2. GivenInv' /\ PipeInv' /\ GenericInv'
    BY GivenStep, PipeStep, GenericStep
  <2>3. TypeOK
    BY DEF SessionInv
  <2>4. StopInv' /\ FinishInv'
    BY <2>3, StopStep, FinishStep
  <2> QED BY <2>1, <2>2, <2>4
<1>3. SessionSpec => []SessionInv
  BY SessionIsClient, Invariance, PTL
<1> QED BY <1>1, <1>2, <1>3, PTL DEF SessionSpec, EndInv

(* NothingLeftBehind, for any number of profilers, streams, threads and     *)
(* samples and with any fault: every watcher has seen its two processes    *)
(* end well, and each pipe is empty because its reader has read an end     *)
(* mark that is sent once and last.                                        *)
THEOREM NothingLeftBehindTheorem == SessionSpec => []NothingLeftBehind
<1>1. EndInv => NothingLeftBehind
  <2> SUFFICES ASSUME EndInv, Success PROVE NothingLeftBehind
    BY DEF NothingLeftBehind, Success
  <2>1. \A p \in Profilers : watcher[p] = "ok" /\ recorder[p] = "reaped" /\ script[p] = "reaped"
    BY DEF EndInv, ReportInv, WaitInv, VerdictInv, Success
  <2>2. Unharmed
    BY <2>1 DEF EndInv, ReportInv, VerdictInv, WaitInv, Success, CommandFailed, Unharmed, FaultInv, AllFaults
  <2>3. wrapper = "reaped"
    BY <2>2 DEF EndInv, CommandInv, Unharmed, Success
  <2>4. \A p \in Profilers : generic[p] = <<>> /\ perf_pipe[p] = <<>>
    BY <2>1, <2>2 DEF EndInv, GenericInv, PipeInv, Unharmed
  <2>5. toFrontend = <<>> /\ \A i \in Subclients : stream[i] = <<>>
    BY DEF EndInv, FinishInv, AllDone, StopInv, EndOf
  <2> QED BY <2>1, <2>3, <2>4, <2>5 DEF NothingLeftBehind
<1> QED BY <1>1, EndInvariance, PTL

-----------------------------------------------------------------------------
(* Counting what a queue holds of a line.                                   *)

Count(s, l) == Cardinality({k \in DOMAIN s : s[k] = l})

LEMMA CountOfNone ==
  ASSUME NEW S, NEW s \in Seq(S), NEW l
  PROVE  /\ Count(s, l) \in Nat
         /\ Count(s, l) = 0 <=> \A k \in DOMAIN s : s[k] # l
<1>1. {k \in DOMAIN s : s[k] = l} \subseteq 1..Len(s) /\ Len(s) \in Nat
  OBVIOUS
<1>2. IsFiniteSet({k \in DOMAIN s : s[k] = l})
  BY <1>1, FS_Interval, FS_Subset
<1> QED BY <1>2, FS_CardinalityType, FS_EmptySet DEF Count

LEMMA CountOfEmpty == \A l : Count(<<>>, l) = 0
<1> SUFFICES ASSUME NEW l PROVE Count(<<>>, l) = 0
  OBVIOUS
<1>1. {k \in DOMAIN <<>> : <<>>[k] = l} = {}
  OBVIOUS
<1> QED BY <1>1, FS_EmptySet DEF Count

LEMMA CountAppended ==
  ASSUME NEW S, NEW s \in Seq(S), NEW x \in S, NEW l
  PROVE  Count(Append(s, x), l) = Count(s, l) + (IF x = l THEN 1 ELSE 0)
<1> DEFINE A == {k \in DOMAIN s : s[k] = l}
           B == {k \in DOMAIN Append(s, x) : Append(s, x)[k] = l}
           n == Len(s) + 1
<1>1. /\ Len(s) \in Nat /\ DOMAIN s = 1..Len(s) /\ DOMAIN Append(s, x) = 1..n
      /\ \A k \in 1..Len(s) : Append(s, x)[k] = s[k]
      /\ Append(s, x)[n] = x
  OBVIOUS
<1>2. IsFiniteSet(A) /\ n \notin A
  <2>1. A \subseteq 1..Len(s) /\ n \notin 1..Len(s)
    BY <1>1
  <2> HIDE DEF A, n
  <2>2. IsFiniteSet(1..Len(s))
    BY <1>1, FS_Interval
  <2> QED BY <2>1, <2>2, FS_Subset
<1>3. B = IF x = l THEN A \cup {n} ELSE A
  <2>1. \A k \in 1..n : k \in 1..Len(s) \/ k = n
    BY <1>1
  <2>2. \A k \in B : k \in A \/ (k = n /\ x = l)
    BY <1>1, <2>1
  <2>3. A \subseteq B /\ (x = l => n \in B)
    BY <1>1
  <2> HIDE DEF A, B, n
  <2> QED BY <2>2, <2>3
<1>4. Cardinality(A \cup {n}) = Cardinality(A) + 1
  BY <1>2, FS_AddElement
<1>5. Cardinality(A) \in Nat
  BY <1>2, FS_CardinalityType
<1>6. Count(s, l) = Cardinality(A) /\ Count(Append(s, x), l) = Cardinality(B)
  BY DEF Count
<1> HIDE DEF A, B, n
<1> QED BY <1>3, <1>4, <1>5, <1>6

LEMMA CountShortened ==
  ASSUME NEW S, NEW s \in Seq(S), s # <<>>, NEW l
  PROVE  Count(s, l) = Count(Tail(s), l) + (IF Head(s) = l THEN 1 ELSE 0)
<1> DEFINE A == {k \in DOMAIN Tail(s) : Tail(s)[k] = l}
           B == {k \in DOMAIN s : s[k] = l}
           C == {k \in B : k # 1}
           f == [k \in A |-> k + 1]
<1>1. /\ Len(s) \in Nat /\ DOMAIN s = 1..Len(s) /\ Len(s) > 0
      /\ DOMAIN Tail(s) = 1..(Len(s) - 1)
      /\ \A k \in 1..(Len(s) - 1) : Tail(s)[k] = s[k + 1]
      /\ Head(s) = s[1]
  OBVIOUS
<1>2. IsFiniteSet(A) /\ IsFiniteSet(C)
  <2>1. A \subseteq 1..Len(s) /\ C \subseteq 1..Len(s)
    BY <1>1
  <2> HIDE DEF A, C
  <2>2. IsFiniteSet(1..Len(s))
    BY <1>1, FS_Interval
  <2> QED BY <2>1, <2>2, FS_Subset
<1>3. f \in Bijection(A, C)
  <2>1. \A k \in A : k \in Int /\ k + 1 \in C
    BY <1>1
  <2>2. \A m \in C : m \in Int /\ m - 1 \in A /\ (m - 1) + 1 = m
    BY <1>1
  <2>3. f \in [A -> C] /\ \A k \in A : f[k] = k + 1
    BY <2>1
  <2>4. \A k, m \in A : f[k] = f[m] => k = m
    BY <2>1, <2>3
  <2>5. \A m \in C : \E k \in A : f[k] = m
    BY <2>2, <2>3
  <2> HIDE DEF A, C, f
  <2> QED BY <2>3, <2>4, <2>5 DEF Bijection, Injection, Surjection, IsInjective
<1>4. Cardinality(C) = Cardinality(A) /\ Cardinality(A) \in Nat
  <2>1. ExistsBijection(A, C)
    BY <1>3 DEF ExistsBijection
  <2> HIDE DEF A, C
  <2> QED BY <1>2, <2>1, FS_Bijection, FS_CardinalityType
<1>5. B = (IF Head(s) = l THEN C \cup {1} ELSE C) /\ 1 \notin C
  BY <1>1
<1>6. Cardinality(C \cup {1}) = Cardinality(C) + 1
  BY <1>2, <1>5, FS_AddElement
<1>7. Count(Tail(s), l) = Cardinality(A) /\ Count(s, l) = Cardinality(B)
  BY DEF Count
<1> HIDE DEF A, B, C, f
<1> QED BY <1>4, <1>5, <1>6, <1>7

-----------------------------------------------------------------------------
(* What becomes of the events of a session without a fault.                 *)

Quiet == fault = "none"
Seen  == {"running", "dead", "reaped"}

(* Every recorder records from before the command is released until the     *)
(* command is dead.                                                        *)
RecordersInv ==
  Quiet =>
    /\ \A p \in Profilers :
         /\ fpc \notin Turn \/ (fpc \in {"script", "record", "accept"} /\ p < fp)
              => recorder[p] # "absent" /\ script[p] # "absent"
         /\ fpc \notin Turn \cup {"gate", "warmup"} => recorder[p] # "attaching"
         /\ recorder[p] \notin {"absent", "attaching", "recording"} => wrapper \in {"dead", "reaped"}
    /\ fpc = "record" => script[fp] # "absent"
    /\ fpc = "accept" => script[fp] # "absent" /\ recorder[fp] # "absent"
    /\ wrapper \in {"released", "running"} => fpc = "join"
    /\ wrapper \in {"released"} \cup Seen => Armed

LEMMA RecordersInit == SessionInit => RecordersInv
BY DEF SessionInit, RecordersInv, Turn, Setup, Seen

LEMMA RecordersStep ==
  ASSUME SessionInv, ArmInv, FlowInv, ReportInv, CommandInv, RecordersInv,
         [SessionNext]_sessionVars
  PROVE  RecordersInv'
<1> SUFFICES ASSUME Quiet' PROVE RecordersInv'
  BY DEF RecordersInv
<1> USE DEF Turn, Setup, Seen
<1>1. /\ DOMAIN recorder = Profilers /\ DOMAIN script = Profilers /\ DOMAIN watcher = Profilers
      /\ fp \in Profilers /\ ProfilerCnt \in Profilers
      /\ \A p \in Profilers : p \in Int /\ p <= ProfilerCnt
  BY ProfilersAssumption DEF ReportInv, TurnInv, Profilers
<1>2. Armed => Armed'
  BY SessionStepIsClientStep, ArmedStep DEF SessionInv
<1>3. ASSUME UNCHANGED <<fpc, fp, recorder, script, wrapper, fault>> PROVE RecordersInv'
  BY <1>2, <1>3 DEF RecordersInv, Quiet
<1>4. CASE StartWrapper
  BY <1>4, <1>1 DEF StartWrapper, RecordersInv, Quiet, perfVars, scriptVars, CommandInv, Unharmed
<1>41. ASSUME GetInstructions PROVE fp = 1
  BY <1>41 DEF GetInstructions, ReportInv, TurnInv
<1>5. CASE SendStart \/ GetInstructions \/ PassGate
  <2>1. UNCHANGED <<fp, recorder, script, wrapper, fault>>
    BY <1>5 DEF SendStart, GetInstructions, PassGate, perfVars, scriptVars, commandVars
  <2>2. CASE SendStart \/ GetInstructions
    BY <2>1, <2>2, <1>1, <1>2, <1>41, ProfilersAssumption DEF SendStart, GetInstructions, RecordersInv, Quiet, Profilers
  <2>3. CASE PassGate
    BY <2>1, <2>3, <1>1, <1>2 DEF PassGate, RecordersInv, Quiet
  <2> QED BY <1>5, <2>2, <2>3
<1>6. CASE StartScript \/ StartRecord
  BY <1>6, <1>1, <1>2 DEF StartScript, StartRecord, RecordersInv, Quiet, perfVars, scriptVars, commandVars
<1>7. CASE AcceptGeneric
  BY <1>7, <1>1, <1>2 DEF AcceptGeneric, RecordersInv, Quiet, scriptVars, commandVars
<1>8. CASE SendTstamp
  BY <1>8, <1>1, <1>2 DEF SendTstamp, Warm, RecordersInv, Quiet, perfVars, scriptVars, commandVars
<1>9. CASE NotifyWrapper
  <2>1. toFrontend # <<>> /\ Head(toFrontend) = "tstamp_ack" /\ toFrontend \in Seq(Messages)
    BY <1>9 DEF NotifyWrapper, Received, SessionInv, TypeOK, ControlTypeOK
  <2>2. Armed
    BY <2>1 DEF ArmInv, AckInv
  <2> QED BY <1>1, <1>2, <1>9, <2>2 DEF NotifyWrapper, RecordersInv, Quiet, perfVars, scriptVars
<1>10. CASE GateTimeout \/ JoinWrapper
  BY <1>10, <1>1, <1>2 DEF GateTimeout, JoinWrapper, RecordersInv, Quiet, perfVars, scriptVars, CommandInv,
     Unharmed
<1>11. CASE WaitProfiler \/ ReadResult \/ DrainGeneric \/ ReadFinished
  BY <1>11, <1>1, <1>2 DEF WaitProfiler, ReadResult, DrainGeneric, ReadFinished, RecordersInv, Quiet,
     perfVars, scriptVars, commandVars
<1>12. ASSUME NEW p \in Profilers, Attach(p) \/ RecordEnds(p) \/ WatchRecord(p) PROVE RecordersInv'
  BY <1>12, <1>1, <1>2 DEF Attach, RecordEnds, WatchRecord, ExitCode, RecordersInv, CommandInv, Unharmed, Quiet,
     scriptVars, frontendVars, commandVars
<1>13. ASSUME NEW p \in Profilers, ScriptRuns(p) \/ WatchScript(p) PROVE RecordersInv'
  <2>1. /\ UNCHANGED <<fpc, fp, recorder, fault>> /\ (Quiet => UNCHANGED wrapper)
        /\ \A q \in Profilers : script'[q] = "absent" <=> script[q] = "absent"
    BY <1>13, <1>1 DEF ScriptRuns, ConnectStream, ConnectFrontend, ProcessEvent, StopStream, TellFrontend,
       WatchScript, ExitCode, CommandInv, Unharmed, Quiet, frontendVars, commandVars, perfVars, scriptVars
  <2> QED BY <2>1, <1>1, <1>2 DEF RecordersInv, Quiet
<1>14. CASE \/ \E p \in Profilers : ScriptFails(p) \/ \E f \in Faults : RecordFails(p, f)
            \/ \E f \in Faults : CommandFails(f)
  BY <1>14, SessionAssumption DEF ScriptFails, RecordFails, CommandFails, Quiet
<1>15. CASE \/ \E p \in Profilers, t \in Tids : Sample(p, t)
            \/ \E t \in Tids : StartThread(t)
            \/ CommandStarts \/ CommandEnds
  BY <1>15, <1>1, <1>2 DEF Sample, StartThread, CommandStarts, CommandEnds, RecordersInv, Quiet,
     frontendVars, scriptVars
<1>16. CASE ServerReads \/ ServerRuns \/ (\E i \in Subclients : StreamRuns(i)) \/ UNCHANGED sessionVars
  BY <1>16, <1>3 DEF ServerReads, ServerRuns, StreamRuns, StreamAccepted, StreamRead, sessionVars, partyVars,
     frontendVars, commandVars, scriptVars, perfVars
<1> QED BY <1>4, <1>5, <1>6, <1>7, <1>8, <1>9, <1>10, <1>11, <1>12, <1>13, <1>14, <1>15, <1>16
     DEF SessionNext, FrontendRuns, ProfilerRuns

(* The profiler of threads has the first stream, and nobody else has it.    *)
FirstInv ==
  /\ streams[1] \subseteq {1}
  /\ \A p \in Profilers : 1 \in streams[p] => p = 1
  /\ 1 \in methods => fpc = "script" /\ fp = 1
  /\ fpc = "script" /\ fp = 1 => methods = Subclients

LEMMA FirstInit == SessionInit => FirstInv
BY ProfilersAssumption DEF SessionInit, FirstInv, Profilers

LEMMA FirstHanded ==
  ASSUME methods = Subclients
  PROVE  Handed(1) \subseteq {1}
<1> SUFFICES ASSUME NEW i \in Handed(1), i # 1 PROVE FALSE
  OBVIOUS
<1> DEFINE Before == {j \in Subclients : j < i}
<1>1. ThreadCnt[1] = 1 /\ SubclientCnt \in Nat /\ i \in Subclients
  BY ProfilersAssumption, SubclientCntAssumption DEF Handed
<1>2. Cardinality(Before) < 1
  BY <1>1 DEF Handed
<1>3. IsFiniteSet(Before) /\ 1 \in Before
  <2>1. IsFiniteSet(Subclients) /\ Before \in SUBSET Subclients
    BY <1>1, FS_Interval DEF Subclients
  <2>2. 1 \in Before
    BY <1>1 DEF Subclients
  <2> QED BY <2>1, <2>2, FS_Subset
<1>4. Cardinality(Before) \in Nat /\ Cardinality(Before) # 0
  BY <1>3, FS_CardinalityType, FS_EmptySet
<1> HIDE DEF Before
<1> QED BY <1>2, <1>4

LEMMA FirstStep == StreamsInv /\ ReportInv /\ FirstInv /\ [SessionNext]_sessionVars => FirstInv'
<1> SUFFICES ASSUME StreamsInv, ReportInv, FirstInv, [SessionNext]_sessionVars PROVE FirstInv'
  OBVIOUS
<1> USE DEF FirstInv
<1>1. /\ streams \in [Profilers -> SUBSET Subclients] /\ fp \in Profilers /\ 1 \in Profilers
      /\ \A p \in Profilers : p \in Int /\ p >= 1
  BY ProfilersAssumption DEF StreamsInv, Profilers
<1>2. ASSUME UNCHANGED <<streams, methods>>, fpc = "script" \/ fpc' = "script" => UNCHANGED <<fp, fpc>>
      PROVE  FirstInv'
  BY <1>2
<1>3. CASE GetInstructions
  BY <1>1, <1>3 DEF GetInstructions, scriptVars, ReportInv, TurnInv, Setup, StreamsInv
<1>4. CASE StartScript
  <2> DEFINE handed == Handed(fp)
  <2>1. /\ fpc = "script" /\ streams' = [streams EXCEPT ![fp] = handed]
        /\ methods' = methods \ handed /\ fpc' = "record"
    BY <1>4 DEF StartScript
  <2>2. handed \subseteq methods /\ Cardinality(handed) = ThreadCnt[fp]
    BY <1>4 DEF Handed, StartScript
  <2>3. CASE fp = 1
    <3>1. handed \subseteq {1} /\ handed # {}
      <4>1. methods = Subclients /\ handed = Handed(1)
        BY <2>1, <2>3
      <4>2. Cardinality(handed) = 1
        BY <2>2, <2>3, ProfilersAssumption
      <4> HIDE DEF handed
      <4> QED BY <4>1, <4>2, FirstHanded, FS_EmptySet
    <3> HIDE DEF handed
    <3> QED BY <1>1, <2>1, <2>3, <3>1
  <2>4. CASE fp # 1
    <3> HIDE DEF handed
    <3> QED BY <1>1, <2>1, <2>2, <2>4
  <2> QED BY <2>3, <2>4
<1>5. CASE AcceptGeneric
  BY <1>1, <1>5 DEF AcceptGeneric, setupVars
<1>6. CASE FrontendRuns /\ ~GetInstructions /\ ~StartScript /\ ~AcceptGeneric
  BY <1>2, <1>6 DEF FrontendRuns, StartWrapper, SendStart, StartRecord, PassGate, GateTimeout,
     SendTstamp, NotifyWrapper, JoinWrapper, WaitProfiler, ReadResult, DrainGeneric, ReadFinished,
     setupVars
<1>7. ASSUME NEW p \in Profilers, ProfilerRuns(p) \/ ScriptFails(p) PROVE FirstInv'
  BY <1>2, <1>7 DEF ProfilerRuns, Attach, RecordEnds, WatchRecord, WatchScript, ScriptRuns,
     ConnectStream, ConnectFrontend, ProcessEvent, StopStream, TellFrontend, ScriptFails,
     frontendVars, setupVars
<1>8. CASE \/ \E p \in Profilers, t \in Tids : Sample(p, t)
           \/ \E t \in Tids : StartThread(t)
           \/ CommandStarts \/ CommandEnds \/ (\E f \in Faults : CommandFails(f))
           \/ \E p \in Profilers, f \in Faults : RecordFails(p, f)
           \/ ServerReads \/ ServerRuns \/ (\E i \in Subclients : StreamRuns(i))
           \/ UNCHANGED sessionVars
  BY <1>2, <1>8 DEF Sample, StartThread, CommandStarts, CommandEnds, CommandFails, RecordFails, ServerReads,
     ServerRuns, StreamRuns, StreamAccepted, StreamRead, sessionVars, partyVars, frontendVars, setupVars
<1> QED BY <1>3, <1>4, <1>5, <1>6, <1>7, <1>8 DEF SessionNext, FrontendRuns

(* The line profiler p tells of thread t.                                   *)
LineOf(p, t) == IF p = 1 THEN MetaOf(t) ELSE SampleOf(p, t)

(* What a stream carries was given to it.                                   *)
Owned(i, l) ==
  \E p \in Profilers, t \in threads : event_stream_dict[p][t] = i /\ l = LineOf(p, t)

WhereInv ==
  /\ threads \subseteq Tids /\ ran \in [Profilers -> [Tids -> Nat]]
  /\ wrapper # "absent" => MainTid \in threads
  /\ wrapper \notin Seen =>
       /\ threads \subseteq {MainTid}
       /\ \A p \in Profilers : perf_pipe[p] = <<>>
       /\ \A i \in Subclients : stream[i] = <<>> /\ subpc[i] # "line"
  /\ \A p \in Profilers : \A k \in DOMAIN perf_pipe[p] :
       \E t \in threads : perf_pipe[p][k] = LineOf(p, t)
  /\ \A i \in Subclients :
       /\ \A k \in DOMAIN stream[i] : stream[i][k] = StopLine \/ Owned(i, stream[i][k])
       /\ subpc[i] = "line" => Owned(i, line[i])

(* A subclient keeps what was given to it, of one event type, and knows     *)
(* that profiling has started when it does.                                *)
KeptInv ==
  \A i \in Subclients :
    /\ \A t \in tree[i] : event_stream_dict[1][t] = i /\ start_time_set[i]
    /\ extra_event_name[i] # NoEvent =>
         \E p \in Profilers \ {1}, t \in Tids :
           event_stream_dict[p][t] = i /\ extra_event_name[i] = EventOf[p]
    /\ \A t \in Tids : samples[i][t] > 0 =>
         /\ start_time_set[i] /\ t \in threads
         /\ \E p \in Profilers \ {1} :
              event_stream_dict[p][t] = i /\ extra_event_name[i] = EventOf[p]

(* What a step does to the events, whoever takes it.                        *)
Handling  == {i \in Subclients : subpc[i] = "line"}
keptVars  == <<start_time_set, extra_event_name, samples, tree>>
eventVars == <<ran, perf_pipe, stream, event_stream_dict, line, Handling, keptVars>>

NothingMoves ==
  /\ UNCHANGED <<eventVars, threads>>
  /\ wrapper' \in Seen <=> wrapper \in Seen
  /\ wrapper' = "absent" <=> wrapper = "absent"

WrapperBorn ==
  /\ threads' = {MainTid}
  /\ wrapper = "absent" /\ wrapper' \notin Seen
  /\ UNCHANGED eventVars

MetaTaken(t) ==
  /\ t \in Tids
  /\ wrapper \in Seen \/ (wrapper # "absent" /\ t = MainTid)
  /\ wrapper' \in Seen
  /\ threads' = threads \cup {t}
  /\ perf_pipe' = [perf_pipe EXCEPT ![1] = Append(@, MetaOf(t))]
  /\ UNCHANGED <<ran, stream, event_stream_dict, line, Handling, keptVars>>

SampleTaken(p, t) ==
  /\ p \in Profilers \ {1} /\ t \in threads /\ wrapper \in Seen
  /\ ran' = [ran EXCEPT ![p][t] = @ + 1]
  /\ perf_pipe' = [perf_pipe EXCEPT ![p] = Append(@, SampleOf(p, t))]
  /\ UNCHANGED <<wrapper, threads, stream, event_stream_dict, line, Handling, keptVars>>

EventGiven(p, t, i) ==
  /\ p \in Profilers /\ t \in threads /\ i \in streams[p]
  /\ perf_pipe[p] # <<>> /\ Head(perf_pipe[p]) = LineOf(p, t)
  /\ event_stream_dict[p][t] \in {0, i}
  /\ perf_pipe' = [perf_pipe EXCEPT ![p] = Tail(@)]
  /\ stream' = [stream EXCEPT ![i] = Append(@, LineOf(p, t))]
  /\ event_stream_dict' = [event_stream_dict EXCEPT ![p][t] = i]
  /\ UNCHANGED <<wrapper, threads, ran, line, Handling, keptVars>>

StopGiven(i) ==
  /\ i \in Subclients /\ wrapper \in Seen
  /\ stream' = [stream EXCEPT ![i] = Append(@, StopLine)]
  /\ UNCHANGED <<wrapper, threads, ran, perf_pipe, event_stream_dict, line, Handling, keptVars>>

LineRead(i) ==
  /\ i \in Subclients \ Handling /\ stream[i] # <<>> /\ Head(stream[i]) # StopLine
  /\ stream' = [stream EXCEPT ![i] = Tail(@)]
  /\ line' = [line EXCEPT ![i] = Head(stream[i])]
  /\ Handling' = Handling \cup {i}
  /\ UNCHANGED <<wrapper, threads, ran, perf_pipe, event_stream_dict, keptVars>>

StopRead(i) ==
  /\ i \in Subclients \ Handling /\ stream[i] # <<>> /\ Head(stream[i]) = StopLine
  /\ stream' = [stream EXCEPT ![i] = Tail(@)]
  /\ UNCHANGED <<wrapper, threads, ran, perf_pipe, event_stream_dict, line, Handling, keptVars>>

LineKept(i, p, t) ==
  /\ i \in Handling /\ p \in Profilers /\ t \in threads
  /\ event_stream_dict[p][t] = i /\ line[i] = LineOf(p, t)
  /\ Handling' = Handling \ {i}
  /\ start_time_set' = [start_time_set EXCEPT ![i] = TRUE]
  /\ IF p = 1
       THEN /\ tree' = [tree EXCEPT ![i] = @ \cup {t}]
            /\ UNCHANGED <<extra_event_name, samples>>
       ELSE /\ extra_event_name[i] \in {NoEvent, EventOf[p]}
            /\ extra_event_name' = [extra_event_name EXCEPT ![i] = EventOf[p]]
            /\ samples' = [samples EXCEPT ![i][t] = @ + 1]
            /\ UNCHANGED tree
  /\ UNCHANGED <<wrapper, threads, ran, perf_pipe, stream, event_stream_dict, line>>

EventsMove ==
  \/ NothingMoves \/ WrapperBorn
  \/ \E t \in Tids : MetaTaken(t)
  \/ \E p \in Profilers, t \in Tids : SampleTaken(p, t)
  \/ \E p \in Profilers, t \in Tids, i \in Subclients : EventGiven(p, t, i)
  \/ \E i \in Subclients : StopGiven(i) \/ LineRead(i) \/ StopRead(i)
  \/ \E p \in Profilers, t \in Tids, i \in Subclients : LineKept(i, p, t)

(* The command and its recorders.                                           *)
LEMMA RecordedMoves ==
  ASSUME EndInv, RecordersInv, WhereInv, Quiet,
         \/ CommandStarts \/ CommandEnds
         \/ \E t \in Tids : StartThread(t)
         \/ \E p \in Profilers, t \in Tids : Sample(p, t)
  PROVE  EventsMove
<1>1. \A p \in Profilers : wrapper \in {"released", "running"} => recorder[p] = "recording"
  BY DEF RecordersInv, Turn, Setup
<1>2. 1 \in Profilers /\ MainTid \in Tids /\ threads \subseteq Tids
  BY ProfilersAssumption, SessionAssumption DEF Profilers, WhereInv
<1>3. CASE CommandStarts \/ CommandEnds \/ \E t \in Tids : StartThread(t)
  <2>1. PICK t \in Tids :
          /\ wrapper \in {"released", "running"} /\ wrapper' \in {"running", "dead"}
          /\ wrapper = "released" => t = MainTid
          /\ threads' = threads \cup {t} /\ Recorded(1, MetaOf(t))
          /\ UNCHANGED <<vars, frontendVars, ran, setupVars, scriptVars, recorder, generic, watcher, fault>>
    <3>1. wrapper \in {"released", "running"} => threads = threads \cup {MainTid}
      BY DEF WhereInv
    <3> QED BY <1>2, <1>3, <3>1 DEF CommandStarts, CommandEnds, StartThread
  <2>2. Handling' = Handling
    BY <2>1 DEF Handling, vars
  <2>3. MetaTaken(t)
    BY <1>1, <1>2, <2>1, <2>2 DEF MetaTaken, Recorded, Seen, keptVars, vars, readVars, localVars, scriptVars
  <2> QED BY <2>3 DEF EventsMove
<1>4. ASSUME NEW p \in Profilers, NEW t \in Tids, Sample(p, t) PROVE EventsMove
  <2>1. Handling' = Handling
    BY <1>4 DEF Sample, Handling, vars
  <2>2. SampleTaken(p, t)
    BY <1>1, <1>4, <2>1 DEF Sample, SampleTaken, Recorded, Seen, keptVars, vars, readVars, localVars, scriptVars
  <2> QED BY <2>2 DEF EventsMove
<1> QED BY <1>3, <1>4

(* perf-script. *)
LEMMA ScriptMoves ==
  ASSUME EndInv, RecordersInv, WhereInv, Quiet, NEW p \in Profilers, ProcessEvent(p) \/ StopStream(p)
  PROVE  EventsMove
<1>1. \A q \in Profilers : streams[q] \subseteq Subclients /\ streams[q] \subseteq Nat
  BY DEF EndInv, StreamsInv, Subclients
<1>2. CASE ProcessEvent(p)
  <2>1. PICK t \in threads : perf_pipe[p][1] = LineOf(p, t)
    <3>1. 1 \in DOMAIN perf_pipe[p]
      BY <1>2, AfterHead DEF ProcessEvent, EndInv, FlowInv
    <3> QED BY <3>1 DEF WhereInv
  <2>2. Head(perf_pipe[p]) = LineOf(p, t) /\ LineOf(p, t).tid = t /\ t \in Tids
    BY <1>2, <2>1, AfterHead DEF ProcessEvent, EndInv, FlowInv, LineOf, MetaOf, SampleOf, WhereInv
  <2> DEFINE i == StreamFor(p, t)
  <2>3. i \in streams[p] /\ event_stream_dict[p][t] \in {0, i}
    BY <1>2, <2>2, StreamForGiven DEF ProcessEvent, EndInv, StreamFor
  <2>4. /\ perf_pipe[p] # <<>> /\ perf_pipe' = [perf_pipe EXCEPT ![p] = Tail(@)]
        /\ stream' = [stream EXCEPT ![i] = Append(@, LineOf(p, t))]
        /\ event_stream_dict' = [event_stream_dict EXCEPT ![p][t] = i]
        /\ UNCHANGED <<vars, wrapper, threads, ran>>
    BY <1>2, <2>2 DEF ProcessEvent, commandVars
  <2> HIDE DEF i
  <2>5. Handling' = Handling
    BY <2>4 DEF Handling, vars
  <2>6. EventGiven(p, t, i)
    BY <2>2, <2>3, <2>4, <2>5 DEF EventGiven, keptVars, vars, readVars, localVars
  <2> QED BY <1>1, <2>2, <2>3, <2>6 DEF EventsMove
<1>3. CASE StopStream(p)
  <2> DEFINE i == First(streams[p] \ stopped)
  <2>1. /\ script[p] \in {"process", "stop"}
        /\ script[p] = "process" => recorder[p] \notin {"absent", "attaching", "recording"}
        /\ stream' = [stream EXCEPT ![i] = Append(@, StopLine)]
        /\ UNCHANGED <<vars, wrapper, threads, ran, perf_pipe, event_stream_dict>>
    BY <1>3 DEF StopStream, commandVars, perfVars
  <2>2. i \in Subclients
    <3>1. streams[p] # {}
      BY <2>1, StreamForGiven DEF EndInv
    <3>2. streams[p] \ stopped # {} /\ streams[p] \ stopped \subseteq Nat
      BY <1>1, <2>1, <3>1 DEF EndInv, StopInv
    <3> QED BY <1>1, <3>2, FirstIsLeast
  <2>3. wrapper \in Seen
    BY <2>1 DEF EndInv, PipeInv, Unharmed, Quiet, RecordersInv, Seen
  <2> HIDE DEF i
  <2>4. Handling' = Handling
    BY <2>1 DEF Handling, vars
  <2>5. StopGiven(i)
    BY <2>1, <2>2, <2>3, <2>4 DEF StopGiven, keptVars, vars, readVars, localVars
  <2> QED BY <2>2, <2>5 DEF EventsMove
<1> QED BY <1>2, <1>3

(* The subclients. *)
LEMMA StreamMoves ==
  ASSUME EndInv, WhereInv, KeptInv, NEW i \in Subclients, StreamRead(i)
  PROVE  EventsMove
<1>1. /\ stream[i] # <<>> /\ stream' = [stream EXCEPT ![i] = Tail(@)]
      /\ UNCHANGED <<wrapper, threads, ran, perf_pipe, event_stream_dict>>
  BY DEF StreamRead, commandVars, perfVars
<1>2. subpc \in [Subclients -> SubPcs] /\ samples \in [Subclients -> [Tids -> Nat]]
      /\ tree \in [Subclients -> SUBSET Tids]
  BY DEF EndInv, SessionInv, TypeOK, SubclientTypeOK
<1>3. CASE Head(stream[i]) # StopLine
  <2>1. /\ subpc[i] = "read" /\ line' = [line EXCEPT ![i] = Head(stream[i])]
        /\ subpc' = [subpc EXCEPT ![i] = "line"] /\ UNCHANGED keptVars
    BY <1>3 DEF StreamRead, ReadLine, localVars, keptVars
  <2>2. Handling' = Handling \cup {i} /\ i \notin Handling
    BY <1>2, <2>1 DEF Handling
  <2> QED BY <1>1, <1>3, <2>1, <2>2 DEF EventsMove, LineRead
<1>4. CASE Head(stream[i]) = StopLine
  <2>1. /\ subpc[i] = "read" /\ subpc' = [subpc EXCEPT ![i] = "done"]
        /\ start_time_set[i] => UNCHANGED <<samples, tree>>
        /\ ~start_time_set[i] => /\ samples' = [samples EXCEPT ![i] = NoSamples]
                                 /\ tree' = [tree EXCEPT ![i] = {}]
        /\ UNCHANGED <<line, start_time_set, extra_event_name>>
    BY <1>4 DEF StreamRead, ReadStop, readVars
  <2>2. Handling' = Handling /\ i \notin Handling
    BY <1>2, <2>1 DEF Handling
  <2>3. ASSUME ~start_time_set[i] PROVE samples[i] = NoSamples /\ tree[i] = {}
    <3>1. \A t \in Tids : samples[i][t] = 0
      BY <1>2, <2>3 DEF KeptInv
    <3>2. samples[i] \in [Tids -> Nat]
      BY <1>2
    <3>3. samples[i] = NoSamples
      BY <3>1, <3>2 DEF NoSamples
    <3> QED BY <2>3, <3>3 DEF KeptInv
  <2>4. UNCHANGED <<samples, tree>>
    BY <1>2, <2>1, <2>3
  <2> QED BY <1>1, <1>4, <2>1, <2>2, <2>4 DEF EventsMove, StopRead, keptVars
<1> QED BY <1>3, <1>4

LEMMA LineMoves ==
  ASSUME EndInv, RecordersInv, WhereInv, KeptInv, Quiet, NEW i \in Subclients, HandleLine(i),
         UNCHANGED partyVars
  PROVE  EventsMove
<1>1. /\ subpc \in [Subclients -> SubPcs]
      /\ start_time_set \in [Subclients -> BOOLEAN]
  BY DEF EndInv, SessionInv, TypeOK, SubclientTypeOK
<1>2. /\ subpc[i] = "line" /\ subpc' = [subpc EXCEPT ![i] = "read"]
      /\ UNCHANGED <<line, wrapper, threads, ran, perf_pipe, stream, event_stream_dict>>
  BY DEF HandleLine, readVars, partyVars, commandVars, scriptVars, perfVars
<1>3. Handling' = Handling \ {i} /\ i \in Handling
  BY <1>1, <1>2 DEF Handling
<1>4. wrapper \in Seen
  BY <1>2 DEF WhereInv
<1>5. profile_start /\ start_time_set' = [start_time_set EXCEPT ![i] = TRUE]
  BY <1>4 DEF RecordersInv, Armed, HandleLine, LookupStart, EndInv, SessionInv, TypeOK, StartTypeOK
<1>6. PICK p \in Profilers, t \in threads : event_stream_dict[p][t] = i /\ line[i] = LineOf(p, t)
  BY <1>2 DEF WhereInv, Owned
<1>7. t \in Tids
  BY DEF WhereInv
<1>8. CASE p = 1
  <2>1. line[i] \in MetaLines /\ line[i].tid = t /\ line[i] \notin SampleLines
    BY <1>6, <1>7, <1>8 DEF LineOf, MetaOf, MetaLines, SampleLines
  <2>2. KeepMeta(i)
    BY <2>1 DEF HandleLine, KeepSample, DropLine, Expected
  <2>3. LineKept(i, p, t)
    BY <1>2, <1>3, <1>5, <1>6, <1>8, <2>1, <2>2 DEF LineKept, KeepMeta
  <2> QED BY <1>7, <2>3 DEF EventsMove
<1>9. CASE p # 1
  <2>1. /\ line[i] \in SampleLines /\ line[i].tid = t /\ line[i].event = EventOf[p]
        /\ line[i] \notin MetaLines
    BY <1>6, <1>7, <1>9, ProfilersAssumption DEF LineOf, SampleOf, MetaLines, SampleLines
  <2>2. extra_event_name[i] \in {NoEvent, EventOf[p]}
    <3>1. SUFFICES ASSUME extra_event_name[i] # NoEvent PROVE extra_event_name[i] = EventOf[p]
      OBVIOUS
    <3>2. PICK q \in Profilers \ {1}, u \in Tids :
            event_stream_dict[q][u] = i /\ extra_event_name[i] = EventOf[q]
      BY <3>1 DEF KeptInv
    <3>3. i \in streams[q] /\ i \in streams[p]
      <4>1. i # 0
        BY DEF Subclients
      <4> QED BY <1>6, <1>7, <3>2, <4>1 DEF EndInv, GivenInv
    <3> QED BY <3>2, <3>3 DEF EndInv, StreamsInv
  <2>3. Expected(i)
    BY <1>5, <2>1, <2>2 DEF Expected
  <2>4. KeepSample(i)
    BY <2>1, <2>3 DEF HandleLine, KeepMeta, DropLine
  <2>5. LineKept(i, p, t)
    BY <1>2, <1>3, <1>5, <1>6, <1>9, <2>1, <2>2, <2>4 DEF LineKept, KeepSample
  <2> QED BY <1>7, <2>5 DEF EventsMove
<1> QED BY <1>8, <1>9

(* Whatever the step, the events move in one of these ways.                 *)
LEMMA EventsStep ==
  ASSUME EndInv, RecordersInv, WhereInv, KeptInv, Quiet, Quiet', [SessionNext]_sessionVars
  PROVE  EventsMove
<1>1. /\ subpc \in [Subclients -> SubPcs] /\ CommandInv /\ Unharmed
  BY DEF EndInv, SessionInv, TypeOK, SubclientTypeOK, Quiet, Unharmed
<1>2. ASSUME UNCHANGED <<wrapper, threads, ran, perf_pipe, stream, event_stream_dict, line, keptVars>>,
             \A i \in Subclients : subpc'[i] = "line" <=> subpc[i] = "line"
      PROVE  EventsMove
  <2>1. Handling' = Handling
    BY <1>2 DEF Handling
  <2>2. NothingMoves
    BY <1>2, <2>1 DEF NothingMoves, eventVars
  <2> QED BY <2>2 DEF EventsMove
<1>3. ASSUME UNCHANGED <<threads, ran, perf_pipe, stream, event_stream_dict, line, keptVars, subpc>>,
             wrapper \notin {"absent", "running"}, wrapper' \in {"released", "dead", "reaped"},
             wrapper \in {"dead", "reaped"} <=> wrapper' \in {"dead", "reaped"}
      PROVE  EventsMove
  <2>1. Handling' = Handling
    BY <1>3 DEF Handling
  <2>2. NothingMoves
    BY <1>3, <2>1 DEF NothingMoves, eventVars, Seen
  <2> QED BY <2>2 DEF EventsMove
<1> USE DEF controlVars, lockVars, startVars, readVars, localVars, mergeVars, keptVars
<1>4. CASE StartWrapper
  <2>1. wrapper = "absent"
    BY <1>1, <1>4 DEF StartWrapper, CommandInv
  <2>2. Handling' = Handling
    BY <1>4 DEF StartWrapper, Handling, vars
  <2>3. WrapperBorn
    BY <1>4, <2>1, <2>2 DEF StartWrapper, WrapperBorn, Seen, eventVars, vars, scriptVars, perfVars
  <2> QED BY <2>3 DEF EventsMove
<1>5. CASE NotifyWrapper
  <2>1. wrapper = "waiting" /\ wrapper' = "released"
    BY <1>1, <1>5 DEF NotifyWrapper, CommandInv
  <2> QED BY <1>3, <1>5, <2>1 DEF NotifyWrapper, FrontendReads, scriptVars, perfVars
<1>6. CASE GateTimeout \/ JoinWrapper
  BY <1>3, <1>6 DEF GateTimeout, JoinWrapper, vars, scriptVars, perfVars
<1>7. CASE \/ SendStart \/ GetInstructions \/ StartScript \/ StartRecord \/ AcceptGeneric \/ PassGate
           \/ SendTstamp \/ WaitProfiler \/ ReadResult \/ DrainGeneric \/ ReadFinished
  BY <1>2, <1>7 DEF SendStart, GetInstructions, StartScript, StartRecord, AcceptGeneric, PassGate,
     SendTstamp, WaitProfiler, ReadResult, DrainGeneric, ReadFinished, FrontendReads, vars,
     commandVars, scriptVars, perfVars
<1>8. ASSUME NEW p \in Profilers,
             Attach(p) \/ RecordEnds(p) \/ ConnectStream(p) \/ ConnectFrontend(p) \/ TellFrontend(p)
      PROVE  EventsMove
  BY <1>2, <1>8 DEF Attach, RecordEnds, ConnectStream, ConnectFrontend, TellFrontend, vars,
     commandVars, scriptVars, perfVars
<1>9. ASSUME NEW p \in Profilers, WatchRecord(p) \/ WatchScript(p) PROVE EventsMove
  <2>1. UNCHANGED wrapper
    BY <1>1, <1>9 DEF WatchRecord, WatchScript, ExitCode, CommandInv
  <2> QED BY <1>2, <1>9, <2>1 DEF WatchRecord, WatchScript, vars, scriptVars
<1>10. CASE \/ \E p \in Profilers : ScriptFails(p) \/ \E f \in Faults : RecordFails(p, f)
            \/ \E f \in Faults : CommandFails(f)
  BY <1>10 DEF ScriptFails, RecordFails, CommandFails, Quiet
<1>11. CASE ServerReads
  BY <1>2, <1>11 DEF ServerReads, ReadCommand, ReadFilename, ReadTstamp, commandVars, scriptVars, perfVars
<1>12. CASE ServerRuns
  <2>1. UNCHANGED <<wrapper, threads, ran, perf_pipe, stream, event_stream_dict>>
    BY <1>12 DEF ServerRuns, partyVars, commandVars, scriptVars, perfVars
  <2>2. UNCHANGED <<line, keptVars>> /\ \A i \in Subclients : subpc'[i] = "line" <=> subpc[i] = "line"
    BY <1>1, <1>12 DEF ServerRuns, ClientRuns, SpawnSubclient, WriteInstructions, LockAccepted,
       CheckAccepted, WaitAccepted, WriteStartProfile, StoreTstamp, StoreProfileStart, WriteTstampAck,
       MergeResult, RethrowSubclientError, SaveResults, WriteFileInstructions, WriteFinished, DestroyLocals
  <2> QED BY <1>2, <2>1, <2>2
<1>13. ASSUME NEW i \in Subclients,
              (AcceptConnection(i) \/ IncrementAccepted(i) \/ NotifyAll(i)), UNCHANGED partyVars
       PROVE  EventsMove
  BY <1>1, <1>2, <1>13 DEF AcceptConnection, IncrementAccepted, NotifyAll, partyVars, commandVars,
     scriptVars, perfVars
<1>14. ASSUME NEW i \in Subclients, StreamRuns(i) PROVE EventsMove
  BY <1>13, <1>14, LineMoves, StreamMoves DEF StreamRuns, StreamAccepted, SubclientRuns
<1>15. CASE UNCHANGED sessionVars
  BY <1>2, <1>15 DEF sessionVars, vars, partyVars, commandVars, scriptVars, perfVars
<1>16. ASSUME NEW p \in Profilers, ProcessEvent(p) \/ StopStream(p) PROVE EventsMove
  BY <1>16, ScriptMoves
<1>17. CASE \/ CommandStarts \/ CommandEnds
            \/ \E t \in Tids : StartThread(t)
            \/ \E p \in Profilers, t \in Tids : Sample(p, t)
  BY <1>17, RecordedMoves
<1> QED BY <1>4, <1>5, <1>6, <1>7, <1>8, <1>9, <1>10, <1>11, <1>12, <1>14, <1>15, <1>16, <1>17
     DEF SessionNext, FrontendRuns, ProfilerRuns, ScriptRuns

(* A thread and the stream given to it stay what they are.                  *)
LEMMA OwnersStay ==
  ASSUME EndInv, WhereInv, EventsMove
  PROVE  /\ threads \subseteq threads' /\ (wrapper \in Seen => wrapper' \in Seen)
         /\ \A p \in Profilers, t \in Tids :
              event_stream_dict[p][t] # 0 => event_stream_dict'[p][t] = event_stream_dict[p][t]
         /\ \A i \in Subclients : \A l : Owned(i, l) => Owned(i, l)'
<1>1. event_stream_dict \in [Profilers -> [Tids -> Nat]] /\ threads \subseteq Tids
  BY DEF EndInv, GivenInv, WhereInv
<1>2. threads \subseteq threads' /\ (wrapper \in Seen => wrapper' \in Seen)
  BY DEF EventsMove, NothingMoves, WrapperBorn, MetaTaken, SampleTaken, EventGiven, StopGiven,
     LineRead, StopRead, LineKept, WhereInv, Seen
<1>3. ASSUME NEW p \in Profilers, NEW t \in Tids, event_stream_dict[p][t] # 0
      PROVE  event_stream_dict'[p][t] = event_stream_dict[p][t]
  <2>1. CASE UNCHANGED event_stream_dict
    BY <2>1
  <2>2. ASSUME NEW q \in Profilers, NEW u \in Tids, NEW i \in Subclients, EventGiven(q, u, i)
        PROVE  event_stream_dict'[p][t] = event_stream_dict[p][t]
    <3>1. event_stream_dict[q][u] \in {0, i} /\ event_stream_dict' = [event_stream_dict EXCEPT ![q][u] = i]
      BY <2>2 DEF EventGiven
    <3> QED BY <1>1, <1>3, <3>1
  <2> QED BY <2>1, <2>2 DEF EventsMove, NothingMoves, WrapperBorn, MetaTaken, SampleTaken, StopGiven,
     LineRead, StopRead, LineKept, eventVars
<1>4. ASSUME NEW i \in Subclients, NEW l, Owned(i, l) PROVE Owned(i, l)'
  <2>1. PICK p \in Profilers, t \in threads : event_stream_dict[p][t] = i /\ l = LineOf(p, t)
    BY <1>4 DEF Owned
  <2>2. i # 0
    BY DEF Subclients
  <2>3. event_stream_dict'[p][t] = i /\ t \in threads'
    BY <1>1, <1>2, <1>3, <2>1, <2>2
  <2> QED BY <2>1, <2>3 DEF Owned
<1> QED BY <1>2, <1>3, <1>4

LEMMA WhereStep ==
  ASSUME EndInv, WhereInv, EventsMove
  PROVE  WhereInv'
<1> DEFINE HeldBy(p) == \A k \in DOMAIN perf_pipe[p] : \E t \in threads : perf_pipe[p][k] = LineOf(p, t)
           Carried1(i) == \A k \in DOMAIN stream[i] : stream[i][k] = StopLine \/ Owned(i, stream[i][k])
           Held1(i) == subpc[i] = "line" => Owned(i, line[i])
<1>1. /\ perf_pipe \in [Profilers -> Seq(EventLines)]
      /\ stream \in [Subclients -> Seq(EventLines \cup {StopLine})]
      /\ ran \in [Profilers -> [Tids -> Nat]] /\ threads \subseteq Tids /\ MainTid \in Tids
      /\ DOMAIN line = Subclients /\ 1 \in Profilers
  BY SessionAssumption, ProfilersAssumption DEF EndInv, FlowInv, WhereInv, Profilers, SessionInv, TypeOK,
     SubclientTypeOK
<1>2. /\ threads \subseteq threads' /\ (wrapper \in Seen => wrapper' \in Seen)
      /\ \A i \in Subclients : \A l : Owned(i, l) => Owned(i, l)'
  BY OwnersStay
<1>3. \A p \in Profilers : HeldBy(p)
  BY DEF WhereInv
<1>4. \A i \in Subclients : Carried1(i) /\ Held1(i)
  BY DEF WhereInv
<1>5. \A i \in Subclients : i \in Handling <=> subpc[i] = "line"
  BY DEF Handling
<1>6. \A i \in Subclients : (i \in Handling)' <=> subpc'[i] = "line"
  BY DEF Handling
<1>7. ASSUME threads' \subseteq Tids, ran' \in [Profilers -> [Tids -> Nat]],
             (wrapper # "absent" => MainTid \in threads)',
             wrapper' \notin Seen =>
               /\ threads' \subseteq {MainTid} /\ wrapper \notin Seen
               /\ UNCHANGED <<perf_pipe, stream, Handling>>,
             \A p \in Profilers : HeldBy(p)',
             \A i \in Subclients : Carried1(i)' /\ Held1(i)'
      PROVE  WhereInv'
  BY <1>5, <1>6, <1>7 DEF WhereInv
<1>8. ASSUME NEW p \in Profilers, UNCHANGED perf_pipe PROVE HeldBy(p)'
  BY <1>2, <1>3, <1>8
<1>9. ASSUME NEW p \in Profilers, NEW t \in threads',
             perf_pipe' = [perf_pipe EXCEPT ![p] = Append(@, LineOf(p, t))]
      PROVE  \A q \in Profilers : HeldBy(q)'
  <2> SUFFICES ASSUME NEW q \in Profilers PROVE HeldBy(q)'
    OBVIOUS
  <2>1. CASE q # p
    BY <1>1, <1>2, <1>3, <1>9, <2>1
  <2>2. CASE q = p
    <3>1. perf_pipe'[p] = Append(perf_pipe[p], LineOf(p, t)) /\ perf_pipe[p] \in Seq(EventLines)
      BY <1>1, <1>9
    <3>2. \A k \in DOMAIN perf_pipe'[p] : perf_pipe'[p][k] = LineOf(p, t)
                                          \/ (k \in DOMAIN perf_pipe[p] /\ perf_pipe'[p][k] = perf_pipe[p][k])
      BY <3>1, WithOneMore
    <3> QED BY <1>2, <1>3, <1>9, <2>2, <3>2
  <2> QED BY <2>1, <2>2
<1>10. ASSUME NEW i \in Subclients, UNCHANGED stream PROVE Carried1(i)'
  BY <1>2, <1>4, <1>10
<1>11. ASSUME NEW i \in Subclients, NEW l, l = StopLine \/ Owned(i, l)',
              stream' = [stream EXCEPT ![i] = Append(@, l)]
       PROVE  \A j \in Subclients : Carried1(j)'
  <2> SUFFICES ASSUME NEW j \in Subclients PROVE Carried1(j)'
    OBVIOUS
  <2>1. CASE j # i
    BY <1>1, <1>2, <1>4, <1>11, <2>1
  <2>2. CASE j = i
    <3>1. stream'[i] = Append(stream[i], l) /\ stream[i] \in Seq(EventLines \cup {StopLine})
      BY <1>1, <1>11
    <3>2. \A k \in DOMAIN stream'[i] : stream'[i][k] = l
                                       \/ (k \in DOMAIN stream[i] /\ stream'[i][k] = stream[i][k])
      BY <3>1, WithOneMore
    <3> QED BY <1>2, <1>4, <1>11, <2>2, <3>2
  <2> QED BY <2>1, <2>2
<1>12. ASSUME NEW i \in Subclients, stream[i] # <<>>, stream' = [stream EXCEPT ![i] = Tail(@)]
       PROVE  /\ \A j \in Subclients : Carried1(j)'
              /\ \A l : l = Head(stream[i]) => l = StopLine \/ Owned(i, l)'
  <2>1. stream[i] \in Seq(EventLines \cup {StopLine}) /\ stream'[i] = Tail(stream[i])
    BY <1>1, <1>12
  <2>2. /\ Head(stream[i]) = stream[i][1] /\ 1 \in DOMAIN stream[i]
        /\ \A k \in DOMAIN stream'[i] : stream'[i][k] = stream[i][k + 1] /\ k + 1 \in DOMAIN stream[i]
    BY <1>12, <2>1, AfterHead
  <2>3. \A j \in Subclients : j # i => stream'[j] = stream[j]
    BY <1>1, <1>12
  <2>4. \A l : l = Head(stream[i]) => l = StopLine \/ Owned(i, l)'
    BY <1>2, <1>4, <2>2
  <2>5. \A j \in Subclients : Carried1(j)'
    <3> TAKE j \in Subclients
    <3>1. CASE j # i
      BY <1>2, <1>4, <2>3, <3>1
    <3>2. CASE j = i
      BY <1>2, <1>4, <2>2, <3>2
    <3> QED BY <3>1, <3>2
  <2> QED BY <2>4, <2>5
<1>13. ASSUME NEW i \in Subclients, UNCHANGED <<line, Handling>> PROVE Held1(i)'
  BY <1>2, <1>4, <1>5, <1>6, <1>13
<1> HIDE DEF HeldBy, Carried1, Held1
<1>14. CASE NothingMoves
  BY <1>1, <1>7, <1>8, <1>10, <1>13, <1>14 DEF NothingMoves, eventVars, WhereInv
<1>15. CASE WrapperBorn
  BY <1>1, <1>7, <1>8, <1>10, <1>13, <1>15 DEF WrapperBorn, eventVars, Seen
<1>16. ASSUME NEW t \in Tids, MetaTaken(t) PROVE WhereInv'
  <2>1. LineOf(1, t) = MetaOf(t)
    BY DEF LineOf
  <2>2. MainTid \in threads
    BY <1>16 DEF MetaTaken, WhereInv, Seen
  <2> QED BY <1>1, <1>7, <1>9, <1>10, <1>13, <1>16, <2>1, <2>2 DEF MetaTaken
<1>17. ASSUME NEW p \in Profilers, NEW t \in Tids, SampleTaken(p, t) PROVE WhereInv'
  <2>1. LineOf(p, t) = SampleOf(p, t)
    BY <1>17 DEF LineOf, SampleTaken
  <2>2. ran' \in [Profilers -> [Tids -> Nat]]
    BY <1>1, <1>17 DEF SampleTaken
  <2>3. MainTid \in threads
    BY <1>17 DEF SampleTaken, WhereInv, Seen
  <2> QED BY <1>1, <1>7, <1>9, <1>10, <1>13, <1>17, <2>1, <2>2, <2>3 DEF SampleTaken
<1>18. ASSUME NEW p \in Profilers, NEW t \in Tids, NEW i \in Subclients, EventGiven(p, t, i)
       PROVE  WhereInv'
  <2>1. /\ perf_pipe[p] # <<>> /\ perf_pipe' = [perf_pipe EXCEPT ![p] = Tail(@)]
        /\ stream' = [stream EXCEPT ![i] = Append(@, LineOf(p, t))]
        /\ UNCHANGED <<wrapper, threads, ran, line, Handling>> /\ t \in threads
    BY <1>18 DEF EventGiven
  <2>2. wrapper \in Seen /\ MainTid \in threads
    BY <2>1 DEF WhereInv, Seen
  <2>3. Owned(i, LineOf(p, t))'
    <3>1. event_stream_dict'[p][t] = i
      BY <1>18 DEF EventGiven, EndInv, GivenInv
    <3> QED BY <2>1, <3>1 DEF Owned
  <2>4. \A q \in Profilers : HeldBy(q)'
    <3> SUFFICES ASSUME NEW q \in Profilers PROVE HeldBy(q)'
      OBVIOUS
    <3>1. CASE q # p
      BY <1>1, <1>3, <2>1, <3>1 DEF HeldBy
    <3>2. CASE q = p
      <4>1. perf_pipe[p] \in Seq(EventLines) /\ perf_pipe'[p] = Tail(perf_pipe[p])
        BY <1>1, <2>1
      <4>2. \A k \in DOMAIN perf_pipe'[p] : perf_pipe'[p][k] = perf_pipe[p][k + 1] /\ k + 1 \in DOMAIN perf_pipe[p]
        BY <2>1, <4>1, AfterHead
      <4> QED BY <1>3, <2>1, <3>2, <4>2 DEF HeldBy
    <3> QED BY <3>1, <3>2
  <2>5. \A j \in Subclients : Carried1(j)'
    BY <1>11, <2>1, <2>3
  <2> QED BY <1>1, <1>7, <1>13, <2>1, <2>2, <2>4, <2>5
<1>19. ASSUME NEW i \in Subclients, StopGiven(i) PROVE WhereInv'
  BY <1>1, <1>7, <1>8, <1>11, <1>13, <1>19 DEF StopGiven, WhereInv
<1>20. ASSUME NEW i \in Subclients, LineRead(i) PROVE WhereInv'
  <2>1. wrapper \in Seen /\ MainTid \in threads
    BY <1>20 DEF LineRead, WhereInv, Seen
  <2>2. (\A l : l = Head(stream[i]) => Owned(i, l)') /\ \A j \in Subclients : Carried1(j)'
    BY <1>12, <1>20 DEF LineRead
  <2>3. \A j \in Subclients : Held1(j)'
    <3>1. \A j \in Subclients : j # i => line'[j] = line[j] /\ (subpc'[j] = "line" <=> subpc[j] = "line")
      BY <1>1, <1>5, <1>6, <1>20 DEF LineRead
    <3>2. line'[i] = Head(stream[i])
      BY <1>1, <1>20 DEF LineRead
    <3> QED BY <1>2, <1>4, <2>2, <3>1, <3>2 DEF Held1
  <2> QED BY <1>1, <1>7, <1>8, <1>20, <2>1, <2>2, <2>3 DEF LineRead
<1>21. ASSUME NEW i \in Subclients, StopRead(i) PROVE WhereInv'
  <2>1. wrapper \in Seen /\ MainTid \in threads
    BY <1>21 DEF StopRead, WhereInv, Seen
  <2>2. \A j \in Subclients : Carried1(j)'
    BY <1>12, <1>21 DEF StopRead
  <2> QED BY <1>1, <1>7, <1>8, <1>13, <1>21, <2>1, <2>2 DEF StopRead
<1>22. ASSUME NEW p \in Profilers, NEW t \in Tids, NEW i \in Subclients, LineKept(i, p, t)
       PROVE  WhereInv'
  <2>1. wrapper \in Seen /\ MainTid \in threads
    BY <1>5, <1>22 DEF LineKept, WhereInv, Seen
  <2>2. \A j \in Subclients : Held1(j)'
    <3>1. UNCHANGED line /\ \A j \in Subclients : subpc'[j] = "line" => subpc[j] = "line"
      BY <1>5, <1>6, <1>22 DEF LineKept
    <3> QED BY <1>2, <1>4, <3>1 DEF Held1
  <2> QED BY <1>1, <1>7, <1>8, <1>10, <1>22, <2>1, <2>2 DEF LineKept
<1> QED BY <1>14, <1>15, <1>16, <1>17, <1>18, <1>19, <1>20, <1>21, <1>22 DEF EventsMove

LEMMA KeptStep ==
  ASSUME EndInv, WhereInv, KeptInv, EventsMove
  PROVE  KeptInv'
<1> DEFINE Listed(i) == \A t \in tree[i] : event_stream_dict[1][t] = i /\ start_time_set[i]
           Named(i) == extra_event_name[i] # NoEvent =>
             \E p \in Profilers \ {1}, t \in Tids :
               event_stream_dict[p][t] = i /\ extra_event_name[i] = EventOf[p]
           Counted(i) == \A t \in Tids : samples[i][t] > 0 =>
             /\ start_time_set[i] /\ t \in threads
             /\ \E p \in Profilers \ {1} :
                  event_stream_dict[p][t] = i /\ extra_event_name[i] = EventOf[p]
<1>1. /\ start_time_set \in [Subclients -> BOOLEAN]
      /\ DOMAIN extra_event_name = Subclients
      /\ samples \in [Subclients -> [Tids -> Nat]]
      /\ tree \in [Subclients -> SUBSET Tids] /\ threads \subseteq Tids
      /\ 1 \in Profilers
  BY ProfilersAssumption DEF EndInv, SessionInv, TypeOK, SubclientTypeOK, WhereInv, Profilers
<1>2. /\ threads \subseteq threads'
      /\ \A p \in Profilers, t \in Tids :
           event_stream_dict[p][t] # 0 => event_stream_dict'[p][t] = event_stream_dict[p][t]
  BY OwnersStay
<1>3. \A i \in Subclients : i # 0
  BY DEF Subclients
<1>4. \A i \in Subclients : Listed(i) /\ Named(i) /\ Counted(i)
  BY DEF KeptInv
<1>5. ASSUME NEW i \in Subclients, start_time_set'[i] = start_time_set[i], tree'[i] = tree[i],
             extra_event_name'[i] = extra_event_name[i], samples'[i] = samples[i]
      PROVE  Listed(i)' /\ Named(i)' /\ Counted(i)'
  <2>1. Listed(i) /\ Named(i) /\ Counted(i)
    BY <1>4
  <2>2. Listed(i)'
    BY <1>1, <1>2, <1>3, <1>5, <2>1
  <2>3. Named(i)'
    BY <1>1, <1>2, <1>3, <1>5, <2>1
  <2>4. Counted(i)'
    BY <1>1, <1>2, <1>3, <1>5, <2>1
  <2> QED BY <2>2, <2>3, <2>4
<1>6. SUFFICES ASSUME NEW i \in Subclients PROVE Listed(i)' /\ Named(i)' /\ Counted(i)'
  BY DEF KeptInv
<1> HIDE DEF Listed, Named, Counted
<1>7. CASE UNCHANGED keptVars
  BY <1>5, <1>7 DEF keptVars
<1>8. ASSUME NEW p \in Profilers, NEW t \in Tids, NEW j \in Subclients, LineKept(j, p, t)
      PROVE  Listed(i)' /\ Named(i)' /\ Counted(i)'
  <2>1. CASE j # i
    <3>1. /\ start_time_set'[i] = start_time_set[i] /\ tree'[i] = tree[i]
          /\ extra_event_name'[i] = extra_event_name[i] /\ samples'[i] = samples[i]
      BY <1>1, <1>8, <2>1 DEF LineKept
    <3> QED BY <1>5, <3>1
  <2>2. CASE j = i /\ p = 1
    <3>1. /\ start_time_set'[i] = TRUE /\ tree'[i] = tree[i] \cup {t}
          /\ extra_event_name'[i] = extra_event_name[i] /\ samples'[i] = samples[i]
          /\ UNCHANGED <<event_stream_dict, threads>> /\ event_stream_dict[1][t] = i
      BY <1>1, <1>8, <2>2 DEF LineKept
    <3>2. Listed(i)'
      BY <1>4, <3>1 DEF Listed
    <3>3. Named(i)'
      BY <1>4, <3>1 DEF Named
    <3>4. Counted(i)'
      BY <1>4, <3>1 DEF Counted
    <3> QED BY <3>2, <3>3, <3>4
  <2>3. CASE j = i /\ p # 1
    <3>1. /\ start_time_set'[i] = TRUE /\ tree'[i] = tree[i]
          /\ extra_event_name'[i] = EventOf[p] /\ extra_event_name[i] \in {NoEvent, EventOf[p]}
          /\ \A u \in Tids : u # t => samples'[i][u] = samples[i][u]
          /\ UNCHANGED <<event_stream_dict, threads>> /\ event_stream_dict[p][t] = i
          /\ t \in threads
      BY <1>1, <1>8, <2>3 DEF LineKept
    <3>2. Listed(i)'
      BY <1>4, <3>1 DEF Listed
    <3>3. Named(i)'
      BY <2>3, <3>1 DEF Named
    <3>4. Counted(i)'
      <4> SUFFICES ASSUME NEW u \in Tids, samples'[i][u] > 0
                   PROVE  /\ start_time_set'[i] /\ u \in threads'
                          /\ \E q \in Profilers \ {1} :
                               event_stream_dict'[q][u] = i /\ extra_event_name'[i] = EventOf[q]
        BY DEF Counted
      <4>1. CASE u = t
        BY <2>3, <3>1, <4>1
      <4>2. CASE u # t
        <5>1. PICK q \in Profilers \ {1} :
                event_stream_dict[q][u] = i /\ extra_event_name[i] = EventOf[q] /\ u \in threads
          BY <1>4, <3>1, <4>2 DEF Counted
        <5>2. EventOf[q] # NoEvent
          BY ProfilersAssumption
        <5> QED BY <3>1, <5>1, <5>2
      <4> QED BY <4>1, <4>2
    <3> QED BY <3>2, <3>3, <3>4
  <2> QED BY <2>1, <2>2, <2>3
<1> QED BY <1>7, <1>8 DEF EventsMove, NothingMoves, WrapperBorn, MetaTaken, SampleTaken, EventGiven,
     StopGiven, LineRead, StopRead, eventVars

(* Every sample taken is in one of the places it passes: the pipe of its    *)
(* profiler, the stream of its thread, the hands of the subclient, or      *)
(* what the subclient keeps.                                               *)
AtHand(i, l) == IF i \in Handling /\ line[i] = l THEN 1 ELSE 0
Carried(i, p, t) ==
  IF i = 0 THEN 0
  ELSE Count(stream[i], SampleOf(p, t)) + AtHand(i, SampleOf(p, t)) + samples[i][t]

SampleInv ==
  \A p \in Profilers \ {1}, t \in Tids :
    ran[p][t] = Count(perf_pipe[p], SampleOf(p, t)) + Carried(event_stream_dict[p][t], p, t)

LEMMA SampleOfIsOne ==
  ASSUME NEW p, NEW t, NEW q, NEW u
  PROVE  /\ SampleOf(p, t) = SampleOf(q, u) <=> t = u /\ EventOf[p] = EventOf[q]
         /\ SampleOf(p, t) # StopLine /\ SampleOf(p, t) # MetaOf(u)
<1>1. /\ SampleOf(p, t).type = "sample" /\ SampleOf(p, t).tid = t /\ SampleOf(p, t).event = EventOf[p]
      /\ SampleOf(q, u).tid = u /\ SampleOf(q, u).event = EventOf[q]
      /\ MetaOf(u).type = "syscall_meta" /\ StopLine.type = "<STOP>"
  BY DEF SampleOf, MetaOf, StopLine
<1>2. t = u /\ EventOf[p] = EventOf[q] => SampleOf(p, t) = SampleOf(q, u)
  BY DEF SampleOf
<1> QED BY <1>1, <1>2

(* Where a thread's stream is another one, nothing of the thread is found.  *)
LEMMA NoTrace ==
  ASSUME EndInv, WhereInv, KeptInv, NEW q \in Profilers \ {1}, NEW u \in Tids,
         NEW i \in streams[q], event_stream_dict[q][u] # i
  PROVE  /\ Count(stream[i], SampleOf(q, u)) = 0 /\ AtHand(i, SampleOf(q, u)) = 0
         /\ samples[i][u] = 0
<1>1. /\ i \in Subclients /\ i # 0
      /\ \A p \in Profilers : i \in streams[p] => p = q
      /\ \A p \in Profilers, t \in Tids : event_stream_dict[p][t] \in streams[p] \cup {0}
  BY DEF EndInv, StreamsInv, GivenInv, Subclients
<1>2. ~Owned(i, SampleOf(q, u))
  <2> SUFFICES ASSUME Owned(i, SampleOf(q, u)) PROVE FALSE
    OBVIOUS
  <2>1. PICK p \in Profilers, t \in threads :
          event_stream_dict[p][t] = i /\ SampleOf(q, u) = LineOf(p, t)
    BY DEF Owned
  <2>2. p = q
    BY <1>1, <2>1 DEF WhereInv
  <2>3. SampleOf(q, u) = SampleOf(q, t)
    BY <2>1, <2>2 DEF LineOf
  <2> QED BY <2>1, <2>2, <2>3, SampleOfIsOne
<1>3. stream[i] \in Seq(EventLines \cup {StopLine}) /\ samples[i] \in [Tids -> Nat]
  BY <1>1 DEF EndInv, FlowInv, SessionInv, TypeOK, SubclientTypeOK
<1>4. \A k \in DOMAIN stream[i] : stream[i][k] # SampleOf(q, u)
  BY <1>1, <1>2, SampleOfIsOne DEF WhereInv
<1>5. AtHand(i, SampleOf(q, u)) = 0
  BY <1>1, <1>2 DEF AtHand, WhereInv, Handling
<1>6. ~(samples[i][u] > 0)
  BY <1>1 DEF KeptInv
<1> QED BY <1>3, <1>4, <1>5, <1>6, CountOfNone

LEMMA SampleStep ==
  ASSUME EndInv, WhereInv, KeptInv, SampleInv, EventsMove
  PROVE  SampleInv'
<1> SUFFICES ASSUME NEW q \in Profilers \ {1}, NEW u \in Tids
             PROVE  (ran[q][u] = Count(perf_pipe[q], SampleOf(q, u))
                                   + Carried(event_stream_dict[q][u], q, u))'
  BY DEF SampleInv
<1> DEFINE S == SampleOf(q, u)
           Held(i) == IF i = 0 THEN 0 ELSE Count(stream[i], S) + AtHand(i, S) + samples[i][u]
           Balance(i) == ran[q][u] = Count(perf_pipe[q], S) + Held(i)
<1>1. /\ perf_pipe \in [Profilers -> Seq(EventLines)]
      /\ stream \in [Subclients -> Seq(EventLines \cup {StopLine})]
      /\ ran \in [Profilers -> [Tids -> Nat]] /\ threads \subseteq Tids
      /\ event_stream_dict \in [Profilers -> [Tids -> Nat]]
      /\ samples \in [Subclients -> [Tids -> Nat]] /\ DOMAIN line = Subclients
  BY DEF EndInv, FlowInv, WhereInv, GivenInv, SessionInv, TypeOK, SubclientTypeOK
<1>0. PICK j : j = event_stream_dict[q][u]
  OBVIOUS
<1>2. /\ j \in Subclients \cup {0} /\ \A i \in Subclients : i # 0
      /\ \A p \in Profilers : \A i \in streams[p] : i = j => p = q
      /\ \A p \in Profilers, t \in Tids : event_stream_dict[p][t] \in streams[p] \cup {0}
      /\ \A p \in Profilers : streams[p] \subseteq Subclients
  <2>1. \A p \in Profilers, t \in Tids : event_stream_dict[p][t] \in streams[p] \cup {0}
    BY DEF EndInv, GivenInv
  <2>2. /\ \A p \in Profilers : streams[p] \subseteq Subclients
        /\ \A p \in Profilers : p # q => streams[p] \cap streams[q] = {}
    BY DEF EndInv, StreamsInv
  <2>3. \A i \in Subclients : i # 0
    BY DEF Subclients
  <2> QED BY <1>0, <2>1, <2>2, <2>3
<1>3. /\ \A p \in Profilers : Count(perf_pipe[p], S) \in Nat
      /\ \A i \in Subclients : Count(stream[i], S) \in Nat /\ AtHand(i, S) \in {0, 1} /\ samples[i][u] \in Nat
      /\ ran[q][u] \in Nat
  BY <1>1, CountOfNone DEF AtHand
<1>4. Balance(j)
  BY <1>0 DEF SampleInv, Carried
<1>5. SUFFICES ASSUME NEW m, m = event_stream_dict'[q][u] PROVE Balance(m)'
  BY DEF Carried
<1>6. /\ S # StopLine
      /\ \A t : S # MetaOf(t)
      /\ \A t : S = SampleOf(q, t) <=> t = u
  BY SampleOfIsOne
<1> HIDE DEF S
<1>7. ASSUME UNCHANGED event_stream_dict, ran'[q][u] = ran[q][u], perf_pipe'[q] = perf_pipe[q],
             j # 0 => Count(stream'[j], S) + AtHand(j, S)' + samples'[j][u]
                      = Count(stream[j], S) + AtHand(j, S) + samples[j][u]
      PROVE  Balance(m)'
  BY <1>0, <1>4, <1>5, <1>7
<1>8. ASSUME NEW i \in Subclients, (i \in Handling)' <=> i \in Handling, line'[i] = line[i]
      PROVE  AtHand(i, S)' = AtHand(i, S)
  BY <1>8 DEF AtHand
<1>9. CASE NothingMoves \/ WrapperBorn \/ \E t \in Tids : MetaTaken(t)
  <2>1. UNCHANGED <<event_stream_dict, ran, stream, samples, line, Handling>> /\ perf_pipe'[q] = perf_pipe[q]
    BY <1>1, <1>9 DEF NothingMoves, WrapperBorn, MetaTaken, eventVars, keptVars
  <2> QED BY <1>2, <1>7, <1>8, <2>1
<1>10. ASSUME NEW p \in Profilers, NEW t \in Tids, SampleTaken(p, t)
       PROVE  Balance(m)'
  <2>1. /\ UNCHANGED <<event_stream_dict, stream, samples, line, Handling>>
        /\ ran' = [ran EXCEPT ![p][t] = @ + 1]
        /\ perf_pipe' = [perf_pipe EXCEPT ![p] = Append(@, SampleOf(p, t))] /\ t \in threads
    BY <1>10 DEF SampleTaken, keptVars
  <2>2. j # 0 => AtHand(j, S)' = AtHand(j, S)
    BY <1>2, <1>8, <2>1
  <2>3. CASE p # q
    <3>1. ran'[q][u] = ran[q][u] /\ perf_pipe'[q] = perf_pipe[q]
      BY <1>1, <2>1, <2>3
    <3> QED BY <1>7, <2>1, <2>2, <3>1
  <2>4. CASE p = q
    <3>1. ran'[q][u] = ran[q][u] + (IF t = u THEN 1 ELSE 0)
      BY <1>1, <1>3, <2>1, <2>4
    <3>2. SampleOf(q, t) \in EventLines
      BY ProfilersAssumption DEF SampleOf, EventLines, SampleLines
    <3>3. perf_pipe'[q] = Append(perf_pipe[q], SampleOf(q, t)) /\ perf_pipe[q] \in Seq(EventLines)
      BY <1>1, <2>1, <2>4
    <3>4. Count(perf_pipe'[q], S) = Count(perf_pipe[q], S) + (IF t = u THEN 1 ELSE 0)
      BY <1>6, <3>2, <3>3, CountAppended
    <3>5. m = j
      BY <1>0, <1>5, <2>1
    <3>6. Held(m)' = Held(j) /\ Held(j) \in Nat
      BY <1>2, <1>3, <2>1, <2>2, <3>5
    <3>7. Count(perf_pipe[q], S) \in Nat
      BY <1>3
    <3> HIDE DEF Held
    <3> QED BY <1>3, <1>4, <3>1, <3>4, <3>6, <3>7
  <2> QED BY <2>3, <2>4
<1>11. ASSUME NEW p \in Profilers, NEW t \in Tids, NEW i \in Subclients, EventGiven(p, t, i)
       PROVE  Balance(m)'
  <2>1. /\ i \in streams[p] /\ event_stream_dict[p][t] \in {0, i}
        /\ perf_pipe[p] # <<>> /\ Head(perf_pipe[p]) = LineOf(p, t)
        /\ perf_pipe' = [perf_pipe EXCEPT ![p] = Tail(@)]
        /\ stream' = [stream EXCEPT ![i] = Append(@, LineOf(p, t))]
        /\ event_stream_dict' = [event_stream_dict EXCEPT ![p][t] = i]
        /\ UNCHANGED <<ran, line, Handling, samples>>
    BY <1>11 DEF EventGiven, keptVars
  <2>2. \A k \in Subclients : AtHand(k, S)' = AtHand(k, S)
    BY <1>8, <2>1
  <2>3. CASE p # q
    <3>1. j # i
      BY <1>2, <2>1, <2>3
    <3>2. /\ perf_pipe'[q] = perf_pipe[q] /\ event_stream_dict'[q][u] = j
          /\ j # 0 => stream'[j] = stream[j]
      BY <1>0, <1>1, <1>2, <2>1, <2>3, <3>1
    <3> QED BY <1>2, <1>4, <1>5, <2>1, <2>2, <3>2
  <2>4. CASE p = q
    <3> DEFINE l == SampleOf(q, t)
    <3>1. LineOf(p, t) = l
      BY <2>4 DEF LineOf
    <3>2. l \in EventLines /\ (l = S <=> t = u)
      BY <1>6, ProfilersAssumption DEF SampleOf, EventLines, SampleLines
    <3> HIDE DEF l
    <3>3. /\ perf_pipe[q] \in Seq(EventLines) /\ perf_pipe[q] # <<>> /\ Head(perf_pipe[q]) = l
          /\ perf_pipe'[q] = Tail(perf_pipe[q])
          /\ stream[i] \in Seq(EventLines \cup {StopLine}) /\ stream'[i] = Append(stream[i], l)
          /\ \A k \in Subclients : k # i => stream'[k] = stream[k]
      BY <1>1, <2>1, <2>4, <3>1
    <3>4. Count(perf_pipe[q], S) = Count(perf_pipe'[q], S) + (IF t = u THEN 1 ELSE 0)
      BY <3>2, <3>3, CountShortened
    <3>5. Count(stream'[i], S) = Count(stream[i], S) + (IF t = u THEN 1 ELSE 0)
      BY <3>2, <3>3, CountAppended
    <3>6. Count(perf_pipe'[q], S) \in Nat
      <4>1. perf_pipe'[q] \in Seq(EventLines)
        BY <3>3
      <4> QED BY <4>1, CountOfNone
    <3>7. CASE t = u
      <4>1. m = i /\ j \in {0, i}
        BY <1>0, <1>1, <1>5, <2>1, <2>4, <3>7
      <4>2. j = 0 => Count(stream[i], S) = 0 /\ AtHand(i, S) = 0 /\ samples[i][u] = 0
        <5>1. j = 0 => j # i
          BY <1>2
        <5> QED BY <1>0, <2>1, <2>4, <5>1, NoTrace DEF S
      <4>3. Held(m)' = Held(j) + 1 /\ Held(j) \in Nat
        <5>1. Count(stream'[i], S) = Count(stream[i], S) + 1 /\ AtHand(i, S)' = AtHand(i, S)
          BY <2>2, <3>5, <3>7
        <5>2. Count(stream[i], S) \in Nat /\ AtHand(i, S) \in {0, 1} /\ samples[i][u] \in Nat
          BY <1>3
        <5>3. CASE j = 0
          BY <1>2, <2>1, <4>1, <4>2, <5>1, <5>3
        <5>4. CASE j = i
          BY <1>2, <2>1, <4>1, <5>1, <5>2, <5>4
        <5> QED BY <4>1, <5>3, <5>4
      <4>4. Count(perf_pipe[q], S) = Count(perf_pipe'[q], S) + 1
        BY <3>4, <3>7
      <4> HIDE DEF Held
      <4> QED BY <1>4, <2>1, <3>6, <4>3, <4>4
    <3>8. CASE t # u
      <4>1. m = j
        BY <1>0, <1>1, <1>5, <2>1, <2>4, <3>8
      <4>2. j # 0 => Count(stream'[j], S) = Count(stream[j], S)
        <5>1. Count(stream'[i], S) = Count(stream[i], S)
          <6>1. Count(stream[i], S) \in Nat
            BY <1>3
          <6> QED BY <3>5, <3>8, <6>1
        <5> QED BY <1>2, <3>3, <5>1
      <4>3. Count(perf_pipe[q], S) = Count(perf_pipe'[q], S)
        BY <3>4, <3>6, <3>8
      <4> QED BY <1>2, <1>4, <2>1, <2>2, <4>1, <4>2, <4>3
    <3> QED BY <3>7, <3>8
  <2> QED BY <2>3, <2>4
<1>12. ASSUME NEW i \in Subclients, StopGiven(i)
       PROVE  Balance(m)'
  <2>1. /\ stream' = [stream EXCEPT ![i] = Append(@, StopLine)]
        /\ UNCHANGED <<event_stream_dict, ran, perf_pipe, line, Handling, samples>>
    BY <1>12 DEF StopGiven, keptVars
  <2>2. \A k \in Subclients : AtHand(k, S)' = AtHand(k, S)
    BY <1>8, <2>1
  <2>3. Count(stream'[i], S) = Count(stream[i], S)
    <3>1. stream'[i] = Append(stream[i], StopLine) /\ stream[i] \in Seq(EventLines \cup {StopLine})
      BY <1>1, <2>1
    <3>2. Count(stream'[i], S) = Count(stream[i], S) + 0
      BY <1>6, <3>1, CountAppended
    <3> QED BY <1>3, <3>2
  <2>4. j # 0 => Count(stream'[j], S) = Count(stream[j], S)
    BY <1>1, <1>2, <2>1, <2>3
  <2> QED BY <1>2, <1>7, <2>1, <2>2, <2>4
<1>13. ASSUME NEW i \in Subclients, LineRead(i) \/ StopRead(i)
       PROVE  Balance(m)'
  <2>1. /\ i \notin Handling /\ stream[i] # <<>> /\ stream' = [stream EXCEPT ![i] = Tail(@)]
        /\ \/ Head(stream[i]) = StopLine /\ UNCHANGED <<line, Handling>>
           \/ /\ Head(stream[i]) # StopLine /\ Handling' = Handling \cup {i}
              /\ line' = [line EXCEPT ![i] = Head(stream[i])]
        /\ UNCHANGED <<event_stream_dict, ran, perf_pipe, samples>>
    BY <1>13 DEF LineRead, StopRead, keptVars
  <2>2. stream[i] \in Seq(EventLines \cup {StopLine}) /\ stream'[i] = Tail(stream[i])
    BY <1>1, <2>1
  <2>3. Count(stream[i], S) = Count(stream'[i], S) + (IF Head(stream[i]) = S THEN 1 ELSE 0)
    BY <2>1, <2>2, CountShortened
  <2>4. Count(stream'[i], S) \in Nat
    <3>1. stream'[i] \in Seq(EventLines \cup {StopLine})
      BY <2>1, <2>2
    <3> QED BY <3>1, CountOfNone
  <2>5. AtHand(i, S) = 0 /\ AtHand(i, S)' = IF Head(stream[i]) = S THEN 1 ELSE 0
    BY <1>1, <1>6, <2>1 DEF AtHand
  <2>6. \A k \in Subclients : k # i => stream'[k] = stream[k] /\ AtHand(k, S)' = AtHand(k, S)
    BY <1>1, <2>1 DEF AtHand
  <2>7. j # 0 => Count(stream'[j], S) + AtHand(j, S)' + samples'[j][u]
                 = Count(stream[j], S) + AtHand(j, S) + samples[j][u]
    BY <1>2, <1>3, <2>1, <2>3, <2>4, <2>5, <2>6
  <2> QED BY <1>7, <2>1, <2>7
<1>14. ASSUME NEW p \in Profilers, NEW t \in Tids, NEW i \in Subclients, LineKept(i, p, t)
       PROVE  Balance(m)'
  <2>1. /\ i \in Handling /\ event_stream_dict[p][t] = i /\ line[i] = LineOf(p, t)
        /\ Handling' = Handling \ {i} /\ t \in Tids
        /\ p # 1 => samples' = [samples EXCEPT ![i][t] = @ + 1]
        /\ p = 1 => UNCHANGED samples
        /\ UNCHANGED <<event_stream_dict, ran, perf_pipe, stream, line>>
    BY <1>14 DEF LineKept
  <2>2. CASE j # i
    <3>1. j # 0 => AtHand(j, S)' = AtHand(j, S) /\ samples'[j][u] = samples[j][u]
      BY <1>1, <1>2, <2>1, <2>2 DEF AtHand
    <3> QED BY <1>7, <2>1, <3>1
  <2>3. CASE j = i
    <3>1. p = q
      BY <1>2, <2>1, <2>3
    <3>2. line[i] = S <=> t = u
      BY <1>6, <2>1, <3>1 DEF LineOf
    <3>3. AtHand(i, S) = (IF t = u THEN 1 ELSE 0) /\ AtHand(i, S)' = 0
      BY <2>1, <3>2 DEF AtHand
    <3>4. samples'[i][u] = samples[i][u] + (IF t = u THEN 1 ELSE 0)
      BY <1>1, <1>3, <2>1, <3>1
    <3>5. Count(stream'[j], S) + AtHand(j, S)' + samples'[j][u]
          = Count(stream[j], S) + AtHand(j, S) + samples[j][u]
      BY <1>3, <2>1, <2>3, <3>3, <3>4
    <3> QED BY <1>7, <2>1, <3>5
  <2> QED BY <2>2, <2>3
<1> QED BY <1>9, <1>10, <1>11, <1>12, <1>13, <1>14 DEF EventsMove

(* Every thread of the command is told of in the pipe of the first          *)
(* profiler, in the stream given to it, by the subclient's line at hand or *)
(* by what the subclient keeps.                                            *)
Holds(s, l) == \E k \in DOMAIN s : s[k] = l
Lists(i, t) == Holds(stream[i], MetaOf(t)) \/ (i \in Handling /\ line[i] = MetaOf(t)) \/ t \in tree[i]

ThreadInv ==
  wrapper \in Seen =>
    \A t \in threads :
      \/ Holds(perf_pipe[1], MetaOf(t))
      \/ event_stream_dict[1][t] # 0 /\ Lists(event_stream_dict[1][t], t)

LEMMA HoldsAppended ==
  ASSUME NEW S, NEW s \in Seq(S), NEW x, NEW l
  PROVE  Holds(s, l) \/ x = l => Holds(Append(s, x), l)
<1>1. /\ Len(s) \in Nat /\ DOMAIN s = 1..Len(s) /\ DOMAIN Append(s, x) = 1..(Len(s) + 1)
      /\ \A k \in 1..Len(s) : Append(s, x)[k] = s[k]
      /\ Append(s, x)[Len(s) + 1] = x
  OBVIOUS
<1>2. Len(s) + 1 \in 1..(Len(s) + 1) /\ 1..Len(s) \subseteq 1..(Len(s) + 1)
  BY <1>1
<1> QED BY <1>1, <1>2 DEF Holds

LEMMA HoldsShortened ==
  ASSUME NEW S, NEW s \in Seq(S), s # <<>>, NEW l, Holds(s, l)
  PROVE  Holds(Tail(s), l) \/ Head(s) = l
<1>1. /\ Len(s) \in Nat /\ DOMAIN s = 1..Len(s) /\ DOMAIN Tail(s) = 1..(Len(s) - 1)
      /\ \A k \in 1..(Len(s) - 1) : Tail(s)[k] = s[k + 1]
      /\ Head(s) = s[1]
  OBVIOUS
<1>2. PICK k \in 1..Len(s) : s[k] = l
  BY <1>1 DEF Holds
<1>3. CASE k = 1
  BY <1>1, <1>2, <1>3
<1>4. CASE k # 1
  <2>1. k - 1 \in 1..(Len(s) - 1) /\ (k - 1) + 1 = k
    BY <1>1, <1>4
  <2>2. Tail(s)[k - 1] = l
    BY <1>1, <1>2, <2>1
  <2> QED BY <1>1, <2>1, <2>2 DEF Holds
<1> QED BY <1>3, <1>4

LEMMA ThreadStep ==
  ASSUME EndInv, WhereInv, KeptInv, ThreadInv, EventsMove
  PROVE  ThreadInv'
<1>1. /\ perf_pipe \in [Profilers -> Seq(EventLines)]
      /\ stream \in [Subclients -> Seq(EventLines \cup {StopLine})]
      /\ event_stream_dict \in [Profilers -> [Tids -> Nat]] /\ threads \subseteq Tids
      /\ tree \in [Subclients -> SUBSET Tids] /\ DOMAIN line = Subclients
      /\ 1 \in Profilers /\ MainTid \in Tids
  BY ProfilersAssumption, SessionAssumption DEF EndInv, FlowInv, WhereInv, GivenInv, SessionInv, TypeOK,
     SubclientTypeOK, Profilers
<1>2. SUFFICES ASSUME NEW t \in threads', wrapper' \in Seen
               PROVE  \/ Holds(perf_pipe'[1], MetaOf(t))
                      \/ \E j \in Subclients : event_stream_dict'[1][t] = j /\ Lists(j, t)'
  <2>1. \A j \in Subclients : j # 0
    BY DEF Subclients
  <2> QED BY <2>1 DEF ThreadInv
<1>4. MetaOf(t) # StopLine /\ \A p \in Profilers, u \in Tids : LineOf(p, u) = MetaOf(t) => p = 1 /\ u = t
  <2>1. /\ \A u : MetaOf(u).tid = u /\ MetaOf(u).type = "syscall_meta"
        /\ \A p \in Profilers, u \in Tids : SampleOf(p, u).type = "sample"
        /\ StopLine.type = "<STOP>"
    BY DEF MetaOf, SampleOf, StopLine
  <2>2. MetaOf(t) # StopLine
    BY <2>1
  <2>3. ASSUME NEW p \in Profilers, NEW u \in Tids, LineOf(p, u) = MetaOf(t) PROVE p = 1 /\ u = t
    BY <2>1, <2>3 DEF LineOf
  <2> QED BY <2>2, <2>3
<1> DEFINE l == MetaOf(t)
           Goal == \/ Holds(perf_pipe'[1], l)
                   \/ \E j \in Subclients : event_stream_dict'[1][t] = j /\ Lists(j, t)'
<1>5. ASSUME t \in threads, wrapper \in Seen
      PROVE  \/ Holds(perf_pipe[1], l)
             \/ \E j \in Subclients : event_stream_dict[1][t] = j /\ Lists(j, t)
  <2>1. event_stream_dict[1][t] \in Subclients \cup {0}
    BY <1>1, <1>5 DEF EndInv, GivenInv, StreamsInv
  <2> QED BY <1>5, <2>1 DEF ThreadInv
<1>6. ASSUME NEW j \in Subclients,
             Holds(stream[j], l) => Holds(stream'[j], l),
             (j \in Handling)' <=> j \in Handling, line'[j] = line[j], tree[j] \subseteq tree'[j]
      PROVE  Lists(j, t) => Lists(j, t)'
  BY <1>6 DEF Lists
<1> HIDE DEF l
<1>7. CASE NothingMoves
  <2>1. /\ UNCHANGED <<perf_pipe, stream, event_stream_dict, line, Handling, tree>>
        /\ t \in threads /\ wrapper \in Seen
    BY <1>2, <1>7 DEF NothingMoves, eventVars, keptVars
  <2> QED BY <1>5, <1>6, <2>1 DEF l
<1>8. CASE WrapperBorn
  BY <1>2, <1>8 DEF WrapperBorn
<1>9. ASSUME NEW u \in Tids, MetaTaken(u) PROVE Goal
  <2>1. /\ perf_pipe'[1] = Append(perf_pipe[1], MetaOf(u)) /\ perf_pipe[1] \in Seq(EventLines)
        /\ UNCHANGED <<stream, event_stream_dict, line, Handling, tree>>
        /\ threads' = threads \cup {u} /\ (wrapper \in Seen \/ u = MainTid)
    BY <1>1, <1>9 DEF MetaTaken, keptVars
  <2>2. CASE u = t
    BY <2>1, <2>2, HoldsAppended DEF l
  <2>3. CASE u # t
    <3>1. t \in threads /\ wrapper \in Seen
      BY <1>2, <2>1, <2>3 DEF WhereInv
    <3>2. Holds(perf_pipe[1], l) => Holds(perf_pipe'[1], l)
      BY <2>1, HoldsAppended
    <3> QED BY <1>5, <1>6, <2>1, <3>1, <3>2
  <2> QED BY <2>2, <2>3
<1>10. ASSUME NEW p \in Profilers, NEW u \in Tids, SampleTaken(p, u) PROVE Goal
  <2>1. /\ perf_pipe'[1] = perf_pipe[1]
        /\ UNCHANGED <<stream, event_stream_dict, line, Handling, tree>>
        /\ t \in threads /\ wrapper \in Seen
    BY <1>1, <1>2, <1>10 DEF SampleTaken, keptVars
  <2> QED BY <1>5, <1>6, <2>1
<1>11. ASSUME NEW p \in Profilers, NEW u \in Tids, NEW i \in Subclients, EventGiven(p, u, i) PROVE Goal
  <2>1. /\ perf_pipe[p] # <<>> /\ Head(perf_pipe[p]) = LineOf(p, u)
        /\ perf_pipe' = [perf_pipe EXCEPT ![p] = Tail(@)]
        /\ stream' = [stream EXCEPT ![i] = Append(@, LineOf(p, u))]
        /\ event_stream_dict[p][u] \in {0, i}
        /\ event_stream_dict' = [event_stream_dict EXCEPT ![p][u] = i]
        /\ UNCHANGED <<line, Handling, tree, threads, wrapper>>
    BY <1>11 DEF EventGiven, keptVars
  <2>2. /\ stream[i] \in Seq(EventLines \cup {StopLine}) /\ stream'[i] = Append(stream[i], LineOf(p, u))
        /\ \A j \in Subclients : j # i => stream'[j] = stream[j]
    BY <1>1, <2>1
  <2>3. \A j \in Subclients : Holds(stream[j], l) => Holds(stream'[j], l)
    BY <2>2, HoldsAppended
  <2>4. \A j \in Subclients : Lists(j, t) => Lists(j, t)'
    BY <1>6, <2>1, <2>3
  <2>5. t \in threads /\ t \in Tids /\ wrapper \in Seen
    BY <1>1, <1>2, <2>1
  <2>6. CASE \E j \in Subclients : event_stream_dict[1][t] = j /\ Lists(j, t)
    <3>1. PICK j \in Subclients : event_stream_dict[1][t] = j /\ Lists(j, t)
      BY <2>6
    <3>2. j # 0
      BY DEF Subclients
    <3>3. event_stream_dict'[1][t] = j
      BY <1>1, <2>1, <2>5, <3>1, <3>2
    <3> QED BY <2>4, <3>1, <3>3
  <2>7. CASE Holds(perf_pipe[1], l)
    <3>1. CASE p # 1
      BY <1>1, <2>1, <2>7, <3>1
    <3>2. CASE p = 1
      <4>1. perf_pipe[1] \in Seq(EventLines) /\ perf_pipe[1] # <<>> /\ perf_pipe'[1] = Tail(perf_pipe[1])
        BY <1>1, <2>1, <3>2
      <4>2. Holds(perf_pipe'[1], l) \/ LineOf(p, u) = l
        BY <2>1, <2>7, <3>2, <4>1, HoldsShortened
      <4>3. ASSUME LineOf(p, u) = l PROVE event_stream_dict'[1][t] = i /\ Holds(stream'[i], l)
        <5>1. u = t
          BY <1>4, <4>3 DEF l
        <5>2. event_stream_dict'[1][t] = i
          BY <1>1, <2>1, <3>2, <5>1
        <5> QED BY <2>2, <4>3, <5>2, HoldsAppended
      <4> QED BY <4>2, <4>3 DEF Lists, l
    <3> QED BY <3>1, <3>2
  <2> QED BY <1>5, <2>5, <2>6, <2>7
<1>12. ASSUME NEW i \in Subclients, StopGiven(i) PROVE Goal
  <2>1. /\ stream' = [stream EXCEPT ![i] = Append(@, StopLine)]
        /\ UNCHANGED <<perf_pipe, event_stream_dict, line, Handling, tree>>
        /\ t \in threads /\ wrapper \in Seen
    BY <1>2, <1>12 DEF StopGiven, keptVars
  <2>2. /\ stream[i] \in Seq(EventLines \cup {StopLine}) /\ stream'[i] = Append(stream[i], StopLine)
        /\ \A j \in Subclients : j # i => stream'[j] = stream[j]
    BY <1>1, <2>1
  <2>3. \A j \in Subclients : Holds(stream[j], l) => Holds(stream'[j], l)
    BY <2>2, HoldsAppended
  <2> QED BY <1>5, <1>6, <2>1, <2>3
<1>13. ASSUME NEW i \in Subclients, LineRead(i) \/ StopRead(i) PROVE Goal
  <2>1. /\ i \notin Handling /\ stream[i] # <<>> /\ stream' = [stream EXCEPT ![i] = Tail(@)]
        /\ \/ Head(stream[i]) = StopLine /\ UNCHANGED <<line, Handling>>
           \/ /\ Head(stream[i]) # StopLine /\ Handling' = Handling \cup {i}
              /\ line' = [line EXCEPT ![i] = Head(stream[i])]
        /\ UNCHANGED <<perf_pipe, event_stream_dict, tree>>
        /\ t \in threads /\ wrapper \in Seen
    BY <1>2, <1>13 DEF LineRead, StopRead, keptVars
  <2>2. stream[i] \in Seq(EventLines \cup {StopLine}) /\ stream'[i] = Tail(stream[i])
    BY <1>1, <2>1
  <2>3. Holds(stream[i], l) => Holds(stream'[i], l) \/ Head(stream[i]) = l
    BY <2>1, <2>2, HoldsShortened
  <2>4. Head(stream[i]) = l => i \in Handling' /\ line'[i] = l
    BY <1>1, <1>4, <2>1 DEF l
  <2>5. Lists(i, t) => Lists(i, t)'
    BY <2>1, <2>3, <2>4 DEF Lists, l
  <2>6. ASSUME NEW j \in Subclients, j # i PROVE Lists(j, t) => Lists(j, t)'
    <3>1. stream'[j] = stream[j] /\ ((j \in Handling)' <=> j \in Handling) /\ line'[j] = line[j]
      BY <1>1, <2>1, <2>6
    <3> QED BY <1>6, <2>1, <3>1
  <2> QED BY <1>5, <2>1, <2>5, <2>6
<1>14. ASSUME NEW p \in Profilers, NEW u \in Tids, NEW i \in Subclients, LineKept(i, p, u) PROVE Goal
  <2>1. /\ i \in Handling /\ line[i] = LineOf(p, u)
        /\ Handling' = Handling \ {i}
        /\ p = 1 => tree' = [tree EXCEPT ![i] = @ \cup {u}]
        /\ p # 1 => UNCHANGED tree
        /\ UNCHANGED <<perf_pipe, event_stream_dict, stream, line>>
        /\ t \in threads /\ wrapper \in Seen
    BY <1>2, <1>14 DEF LineKept
  <2>2. Lists(i, t) => Lists(i, t)'
    <3>1. line[i] = l => t \in tree'[i]
      BY <1>1, <1>4, <2>1 DEF l
    <3>2. tree[i] \subseteq tree'[i]
      BY <1>1, <2>1
    <3> QED BY <2>1, <3>1, <3>2 DEF Lists, l
  <2>3. ASSUME NEW j \in Subclients, j # i PROVE Lists(j, t) => Lists(j, t)'
    <3>1. tree'[j] = tree[j] /\ ((j \in Handling)' <=> j \in Handling)
      BY <1>1, <2>1, <2>3
    <3> QED BY <1>6, <2>1, <3>1
  <2> QED BY <1>5, <2>1, <2>2, <2>3
<1> QED BY <1>7, <1>8, <1>9, <1>10, <1>11, <1>12, <1>13, <1>14 DEF EventsMove, l

(* The merge keeps the samples of every stream, as long as no two profilers *)
(* sample the same event, and lists the threads once: they are those of    *)
(* the first stream, which is merged first and complete by then.           *)
MergeInv ==
  /\ joined = 0 => thread_tree = NoSamples /\ tids = {}
  /\ joined > 0 =>
       /\ tree[1] \subseteq tids
       /\ \A t \in Tids : thread_tree[t] = IF t \in tree[1] THEN 1 ELSE 0
  /\ \A i \in 1..joined :
       /\ subpc[i] = "done"
       /\ \A t \in Tids : samples[i][t] > 0 => final_output[t][extra_event_name[i]] = samples[i][t]
  /\ \A t \in Tids, e \in Events : final_output[t][e] > 0 =>
       \E i \in 1..joined : samples[i][t] > 0 /\ e = extra_event_name[i]

OneProfilerPerEvent == \A p, q \in Profilers : EventOf[p] = EventOf[q] => p = q

LEMMA MergeOnly ==
  ASSUME [SessionNext]_sessionVars
  PROVE  UNCHANGED mergeVars \/ \E i \in Subclients : MergeResult(i) /\ UNCHANGED partyVars
<1>1. CASE FrontendRuns
  BY <1>1 DEF FrontendRuns, StartWrapper, SendStart, GetInstructions, StartScript,
     StartRecord, AcceptGeneric, PassGate, GateTimeout, SendTstamp, NotifyWrapper,
     JoinWrapper, WaitProfiler, ReadResult, DrainGeneric, ReadFinished, FrontendReads, vars
<1>2. ASSUME NEW p \in Profilers, ProfilerRuns(p) \/ ScriptFails(p) PROVE UNCHANGED mergeVars
  BY <1>2 DEF ProfilerRuns, Attach, RecordEnds, WatchRecord, WatchScript, ScriptRuns,
     ConnectStream, ConnectFrontend, ProcessEvent, StopStream, TellFrontend, ScriptFails, vars
<1>3. CASE \/ \E p \in Profilers, t \in Tids : Sample(p, t)
           \/ \E t \in Tids : StartThread(t)
           \/ CommandStarts \/ CommandEnds \/ (\E f \in Faults : CommandFails(f))
           \/ \E p \in Profilers, f \in Faults : RecordFails(p, f)
           \/ UNCHANGED sessionVars
  BY <1>3 DEF Sample, StartThread, CommandStarts, CommandEnds, CommandFails, RecordFails, sessionVars, vars
<1>4. CASE ServerReads
  BY <1>4 DEF ServerReads, ReadCommand, ReadFilename, ReadTstamp
<1>5. CASE ServerRuns
  BY <1>5 DEF ServerRuns, ClientRuns, SpawnSubclient, WriteInstructions, LockAccepted,
     CheckAccepted, WaitAccepted, WriteStartProfile, StoreTstamp, StoreProfileStart,
     WriteTstampAck, RethrowSubclientError, SaveResults,
     WriteFileInstructions, WriteFinished, DestroyLocals
<1>6. ASSUME NEW i \in Subclients, StreamRuns(i) PROVE UNCHANGED mergeVars
  BY <1>6 DEF StreamRuns, StreamAccepted, StreamRead, SubclientRuns, AcceptConnection,
     ReadLine, ReadStop, IncrementAccepted, NotifyAll, HandleLine
<1> QED BY <1>1, <1>2, <1>3, <1>4, <1>5, <1>6 DEF SessionNext

(* When the first stream has been read to its end, the command is dead and  *)
(* every thread of it is in the tree.                                      *)
LEMMA ThreadsListed ==
  ASSUME EndInv, RecordersInv, FirstInv, ThreadInv, WhereInv, Quiet, subpc[1] = "done"
  PROVE  threads \subseteq tree[1]
<1>1. 1 \in Profilers /\ 1 \in Subclients
  BY ProfilersAssumption, SubclientCntAssumption DEF Profilers, Subclients
<1>2. 1 \in stopped /\ stream[1] = <<>> /\ 1 \notin Handling
  BY <1>1 DEF EndInv, StopInv, EndOf, Handling
<1>3. script[1] \notin {"absent", "connect", "hello", "process"}
  <2>1. ASSUME script[1] = "absent" PROVE FALSE
    <3>1. fpc \in Setup \/ (fpc = "script" /\ fp = 1)
      <4>1. fp \in Profilers /\ \A p \in Profilers : p \in Int /\ 1 <= p
        BY <1>1 DEF EndInv, StreamsInv, Profilers
      <4> QED BY <1>1, <2>1, <4>1 DEF RecordersInv, Turn
    <3> QED BY <1>1, <1>2, <3>1 DEF EndInv, StopInv, FirstInv
  <2>2. ASSUME script[1] \in {"connect", "hello", "process"} PROVE FALSE
    <3>1. streams[1] # {}
      BY <1>1, <2>2, StreamForGiven DEF EndInv
    <3>2. 1 \in streams[1]
      BY <3>1 DEF FirstInv
    <3> QED BY <1>1, <1>2, <2>2, <3>2 DEF EndInv, StopInv
  <2> QED BY <2>1, <2>2
<1>4. perf_pipe[1] = <<>> /\ wrapper \in Seen
  BY <1>1, <1>3 DEF EndInv, PipeInv, Unharmed, Quiet, RecordersInv, Seen
<1>5. \A l : ~Holds(<<>>, l)
  BY DEF Holds
<1> SUFFICES ASSUME NEW t \in threads PROVE t \in tree[1]
  OBVIOUS
<1>6. event_stream_dict[1][t] # 0 /\ Lists(event_stream_dict[1][t], t)
  BY <1>4, <1>5 DEF ThreadInv
<1>7. event_stream_dict[1][t] = 1
  BY <1>1, <1>6 DEF EndInv, GivenInv, FirstInv, WhereInv
<1> QED BY <1>2, <1>5, <1>6, <1>7 DEF Lists

LEMMA MergeStep ==
  ASSUME OneProfilerPerEvent, EndInv, RecordersInv, FirstInv, WhereInv, KeptInv, ThreadInv, MergeInv, Quiet,
         EventsMove, [SessionNext]_sessionVars
  PROVE  MergeInv'
<1>1. /\ joined \in 0..SubclientCnt /\ SubclientCnt \in Nat \ {0} /\ 1 \in Subclients
      /\ samples \in [Subclients -> [Tids -> Nat]]
      /\ tree \in [Subclients -> SUBSET Tids] /\ tids \subseteq Tids
      /\ extra_event_name \in [Subclients -> Events \cup {NoEvent}]
      /\ final_output \in [Tids -> [Events -> Nat]]
      /\ \A i \in 1..joined : i \in Subclients /\ i \in Int
  BY SubclientCntAssumption DEF EndInv, SessionInv, TypeOK, MergeTypeOK, SubclientTypeOK, Subclients
<1>2. ASSUME NEW i \in Subclients, subpc[i] = "done"
      PROVE  /\ subpc'[i] = "done"
             /\ extra_event_name'[i] = extra_event_name[i] /\ samples'[i] = samples[i] /\ tree'[i] = tree[i]
  <2>1. i \notin Handling /\ ~StreamRead(i)
    BY <1>2 DEF Handling, StreamRead, ReadStop, ReadLine
  <2>2. subpc'[i] = "done"
    BY <1>2, <2>1, DoneStep DEF EndInv, SessionInv
  <2>3. ASSUME NEW p \in Profilers, NEW t \in Tids, NEW j \in Subclients, LineKept(j, p, t)
        PROVE  extra_event_name'[i] = extra_event_name[i] /\ samples'[i] = samples[i] /\ tree'[i] = tree[i]
    BY <1>1, <2>1, <2>3 DEF LineKept
  <2> QED BY <2>2, <2>3 DEF EventsMove, NothingMoves, WrapperBorn, MetaTaken, SampleTaken, EventGiven,
       StopGiven, LineRead, StopRead, eventVars, keptVars
<1>3. CASE UNCHANGED mergeVars
  <2>1. UNCHANGED <<joined, tids, thread_tree, final_output>>
    BY <1>3 DEF mergeVars
  <2>2. \A i \in 1..joined :
          /\ subpc'[i] = "done"
          /\ extra_event_name'[i] = extra_event_name[i] /\ samples'[i] = samples[i] /\ tree'[i] = tree[i]
    BY <1>1, <1>2 DEF MergeInv
  <2>3. joined > 0 => 1 \in 1..joined
    BY <1>1
  <2>4. (joined = 0 => thread_tree = NoSamples /\ tids = {})'
    BY <2>1 DEF MergeInv
  <2>5. (joined > 0 => /\ tree[1] \subseteq tids
                       /\ \A t \in Tids : thread_tree[t] = IF t \in tree[1] THEN 1 ELSE 0)'
    BY <2>1, <2>2, <2>3 DEF MergeInv
  <2>6. (\A i \in 1..joined :
           /\ subpc[i] = "done"
           /\ \A t \in Tids : samples[i][t] > 0 => final_output[t][extra_event_name[i]] = samples[i][t])'
    BY <2>1, <2>2 DEF MergeInv
  <2>7. (\A t \in Tids, e \in Events : final_output[t][e] > 0 =>
           \E i \in 1..joined : samples[i][t] > 0 /\ e = extra_event_name[i])'
    BY <2>1, <2>2 DEF MergeInv
  <2> QED BY <2>4, <2>5, <2>6, <2>7 DEF MergeInv
<1>4. ASSUME NEW i \in Subclients, MergeResult(i) PROVE MergeInv'
  <2> DEFINE sampled == {t \in Tids : samples[i][t] > 0}
             known   == tids \cup tree[i]
  <2>1. /\ i = joined + 1 /\ joined' = i /\ subpc[i] = "done" /\ tids' = known
        /\ thread_tree' = [t \in Tids |-> thread_tree[t] + (IF t \in tree[i] THEN 1 ELSE 0)
                                            + (IF t \in Unlisted(sampled, known) THEN 1 ELSE 0)]
        /\ final_output' = [t \in Tids |-> [e \in Events |->
             IF t \in sampled /\ e = extra_event_name[i] THEN samples[i][t] ELSE final_output[t][e]]]
        /\ UNCHANGED <<subpc, samples, tree, extra_event_name>>
    BY <1>4 DEF MergeResult, localVars
  <2> HIDE DEF sampled, known
  <2>2. 1..joined' = (1..joined) \cup {i} /\ i \in Nat /\ i > 0 /\ i \notin 1..joined
    <3>1. joined \in Nat /\ i = joined + 1 /\ joined' = i
      BY <1>1, <2>1
    <3>2. i \in Nat /\ i > 0 /\ i \notin 1..joined
      BY <3>1
    <3>3. \A k : k \in 1..joined' <=> (k \in 1..joined \/ k = i)
      BY <3>1
    <3> QED BY <3>2, <3>3
  <2> USE DEF sampled, known
  <2>3. \A j \in 1..joined' : j \in Subclients /\ subpc[j] = "done"
    BY <1>1, <2>1, <2>2 DEF MergeInv
  <2>4. subpc[1] = "done"
    BY <2>1, <2>2, <2>3
  <2>5. threads \subseteq tree[1]
    BY <2>4, ThreadsListed
  <2>6. sampled \subseteq tree[1] /\ (i = 1 => sampled = {}) /\ (i # 1 => tree[i] = {})
    <3>1. \A p \in Profilers, t \in Tids : event_stream_dict[p][t] = i => i \in streams[p]
      <4>1. i # 0
        BY <2>2
      <4> QED BY <4>1 DEF EndInv, GivenInv
    <3>2. sampled \subseteq tree[1]
      BY <2>5 DEF KeptInv
    <3>3. i = 1 => sampled = {}
      BY <3>1 DEF KeptInv, FirstInv
    <3>4. i # 1 => tree[i] = {}
      <4>1. 1 \in Profilers
        BY ProfilersAssumption DEF Profilers
      <4> QED BY <1>1, <3>1, <4>1 DEF KeptInv, FirstInv
    <3> QED BY <3>2, <3>3, <3>4
  <2> HIDE DEF sampled
  <2>7. tree[1] \subseteq known
    <3>1. CASE i = 1
      BY <3>1
    <3>2. CASE i # 1
      BY <1>1, <2>1, <3>2 DEF MergeInv
    <3> QED BY <3>1, <3>2
  <2>8. \A t \in Tids : thread_tree'[t] = thread_tree[t] + (IF t \in tree[i] THEN 1 ELSE 0)
    <3>1. Unlisted(sampled, known) = {}
      BY <2>6, <2>7 DEF Unlisted
    <3>2. thread_tree \in [Tids -> Nat]
      BY DEF EndInv, SessionInv, TypeOK, MergeTypeOK
    <3> HIDE DEF known
    <3>3. \A t \in Tids : thread_tree[t] \in Nat /\ t \notin Unlisted(sampled, known)
      BY <3>1, <3>2
    <3> QED BY <2>1, <3>3
  <2>9. \A t \in Tids : thread_tree'[t] = IF t \in tree[1] THEN 1 ELSE 0
    <3>1. CASE i = 1
      <4>1. joined = 0
        BY <1>1, <2>1, <3>1
      <4> QED BY <2>8, <3>1, <4>1 DEF MergeInv, NoSamples
    <3>2. CASE i # 1
      <4>1. joined > 0
        BY <1>1, <2>1, <3>2
      <4>2. \A t \in Tids : thread_tree[t] = (IF t \in tree[1] THEN 1 ELSE 0) /\ t \notin tree[i]
        BY <2>6, <3>2, <4>1 DEF MergeInv
      <4> QED BY <2>8, <4>2
    <3> QED BY <3>1, <3>2
  <2>10. \A t \in sampled : extra_event_name[i] \in Events
    <3>1. \A p \in Profilers \ {1} : EventOf[p] \in Events
      BY ProfilersAssumption
    <3> QED BY <3>1 DEF sampled, KeptInv
  <2>11. ASSUME NEW j \in 1..joined', NEW t \in Tids, samples[j][t] > 0
         PROVE  final_output'[t][extra_event_name[j]] = samples[j][t]
    <3>1. extra_event_name[j] \in Events /\ j \in Subclients
      <4>1. \A p \in Profilers \ {1} : EventOf[p] \in Events
        BY ProfilersAssumption
      <4> QED BY <2>3, <2>11, <4>1 DEF KeptInv
    <3>2. CASE j = i
      BY <2>1, <2>11, <3>1, <3>2 DEF sampled
    <3>3. CASE j # i
      <4>1. final_output[t][extra_event_name[j]] = samples[j][t]
        BY <2>2, <2>11, <3>3 DEF MergeInv
      <4>2. ~(t \in sampled /\ extra_event_name[j] = extra_event_name[i])
        <5>1. SUFFICES ASSUME t \in sampled, extra_event_name[j] = extra_event_name[i] PROVE FALSE
          OBVIOUS
        <5>2. PICK p \in Profilers : event_stream_dict[p][t] = j /\ extra_event_name[j] = EventOf[p]
          BY <2>11, <3>1 DEF KeptInv
        <5>3. PICK q \in Profilers : event_stream_dict[q][t] = i /\ extra_event_name[i] = EventOf[q]
          BY <5>1 DEF sampled, KeptInv
        <5>4. p = q
          BY <5>1, <5>2, <5>3 DEF OneProfilerPerEvent
        <5> QED BY <3>3, <5>2, <5>3, <5>4
      <4> QED BY <2>1, <3>1, <4>1, <4>2
    <3> QED BY <3>2, <3>3
  <2>12. ASSUME NEW t \in Tids, NEW e \in Events, final_output'[t][e] > 0
         PROVE  \E j \in 1..joined' : samples[j][t] > 0 /\ e = extra_event_name[j]
    <3>1. CASE t \in sampled /\ e = extra_event_name[i]
      BY <2>2, <3>1 DEF sampled
    <3>2. CASE ~(t \in sampled /\ e = extra_event_name[i])
      <4>1. final_output'[t][e] = final_output[t][e]
        BY <2>1, <3>2
      <4> QED BY <2>2, <2>12, <4>1 DEF MergeInv
    <3> QED BY <3>1, <3>2
  <2>13. \A j \in 1..joined' :
           /\ subpc'[j] = "done"
           /\ \A t \in Tids : samples'[j][t] > 0 => final_output'[t][extra_event_name'[j]] = samples'[j][t]
    BY <2>1, <2>3, <2>11
  <2>14. \A t \in Tids, e \in Events : final_output'[t][e] > 0 =>
           \E j \in 1..joined' : samples'[j][t] > 0 /\ e = extra_event_name'[j]
    BY <2>1, <2>12
  <2>15. joined' > 0 /\ tree'[1] \subseteq tids' /\ \A t \in Tids : thread_tree'[t] = IF t \in tree'[1] THEN 1 ELSE 0
    BY <2>1, <2>2, <2>7, <2>9
  <2> QED BY <2>13, <2>14, <2>15 DEF MergeInv
<1> QED BY <1>3, <1>4, MergeOnly

-----------------------------------------------------------------------------
(* A session that reports success is complete.                              *)

(* What holds of the events until something fails.                          *)
EventsInv == Quiet => WhereInv /\ KeptInv /\ SampleInv /\ ThreadInv /\ MergeInv

LEMMA EventsInit == SessionInit => EventsInv
<1> SUFFICES ASSUME SessionInit PROVE EventsInv
  OBVIOUS
<1> USE DEF SessionInit, Init
<1>1. WhereInv
  BY DEF WhereInv, NoSamples, Seen
<1>2. KeptInv
  BY DEF KeptInv, NoSamples
<1>3. SampleInv
  <2>1. ASSUME NEW p \in Profilers, NEW t \in Tids
        PROVE  ran[p][t] = 0 /\ perf_pipe[p] = <<>> /\ event_stream_dict[p][t] = 0
    BY DEF NoSamples
  <2>2. ASSUME NEW p \in Profilers, NEW t \in Tids
        PROVE  Carried(event_stream_dict[p][t], p, t) = 0 /\ Count(perf_pipe[p], SampleOf(p, t)) = 0
    BY <2>1, CountOfEmpty DEF Carried
  <2> QED BY <2>1, <2>2 DEF SampleInv
<1>4. ThreadInv
  BY DEF ThreadInv, Seen
<1>5. MergeInv
  BY DEF MergeInv, NoSamples
<1> QED BY <1>1, <1>2, <1>3, <1>4, <1>5 DEF EventsInv

LEMMA EventsInvStep ==
  ASSUME OneProfilerPerEvent, EndInv, RecordersInv, FirstInv, EventsInv, [SessionNext]_sessionVars
  PROVE  EventsInv'
<1> SUFFICES ASSUME Quiet' PROVE (WhereInv /\ KeptInv /\ SampleInv /\ ThreadInv /\ MergeInv)'
  BY DEF EventsInv
<1>1. Quiet
  BY FaultStays DEF Quiet, AllFaults
<1>2. WhereInv /\ KeptInv /\ SampleInv /\ ThreadInv /\ MergeInv
  BY <1>1 DEF EventsInv
<1>3. EventsMove
  BY <1>1, <1>2, EventsStep
<1> QED BY <1>1, <1>2, <1>3, WhereStep, KeptStep, SampleStep, ThreadStep, MergeStep

(* The merge of all the streams holds what each thread's stream kept.       *)
LEMMA CompleteAtEnd ==
  ASSUME OneProfilerPerEvent, EndInv, RecordersInv, FirstInv, EventsInv, Quiet, Success
  PROVE  SuccessIsComplete
<1>1. WhereInv /\ KeptInv /\ SampleInv /\ ThreadInv /\ MergeInv
  BY DEF EventsInv
<1>2. joined = SubclientCnt /\ SubclientCnt \in Nat \ {0}
      /\ \A i \in Subclients : subpc[i] = "done" /\ i \notin Handling /\ i # 0
  BY SubclientCntAssumption DEF EndInv, FinishInv, Collected, AllDone, Handling, Subclients
<1>3. \A p \in Profilers : perf_pipe[p] = <<>>
  <2>1. \A p \in Profilers : script[p] = "reaped"
    BY DEF EndInv, ReportInv, WaitInv, VerdictInv, Success
  <2> QED BY <2>1 DEF EndInv, PipeInv, Unharmed, Quiet
<1>4. \A i \in Subclients : stream[i] = <<>>
  BY <1>2 DEF EndInv, StopInv, EndOf
<1>5. /\ final_output \in [Tids -> [Events -> Nat]] /\ samples \in [Subclients -> [Tids -> Nat]]
      /\ \A p \in Profilers, t \in Tids :
           event_stream_dict[p][t] \in streams[p] \cup {0} /\ streams[p] \subseteq Subclients
      /\ \A p, q \in Profilers : p # q => streams[p] \cap streams[q] = {}
  BY DEF EndInv, SessionInv, TypeOK, MergeTypeOK, SubclientTypeOK, GivenInv, StreamsInv
<1>6. ASSUME NEW p \in Profilers \ {1}, NEW t \in Tids
      PROVE  Sampled(p, t) = ran[p][t]
  <2> DEFINE i == event_stream_dict[p][t]
  <2>1. EventOf[p] \in Events /\ i \in Subclients \cup {0} /\ final_output[t][EventOf[p]] \in Nat
    BY <1>5, ProfilersAssumption
  <2>2. ran[p][t] = 0 + Carried(i, p, t)
    BY <1>1, <1>3, CountOfEmpty DEF SampleInv
  <2>3. CASE i = 0
    <3>1. ran[p][t] = 0
      BY <2>2, <2>3 DEF Carried
    <3>2. ~(final_output[t][EventOf[p]] > 0)
      <4> SUFFICES ASSUME final_output[t][EventOf[p]] > 0 PROVE FALSE
        OBVIOUS
      <4>1. PICK j \in 1..joined : samples[j][t] > 0 /\ EventOf[p] = extra_event_name[j]
        BY <1>1, <2>1 DEF MergeInv
      <4>2. j \in Subclients
        BY <1>2, <4>1 DEF Subclients
      <4>3. PICK q \in Profilers \ {1} : event_stream_dict[q][t] = j /\ extra_event_name[j] = EventOf[q]
        BY <1>1, <4>1, <4>2 DEF KeptInv
      <4>4. p = q
        BY <4>1, <4>3 DEF OneProfilerPerEvent
      <4> QED BY <1>2, <2>3, <4>2, <4>3, <4>4
    <3> QED BY <2>1, <3>1, <3>2 DEF Sampled
  <2>4. CASE i # 0
    <3>1. i \in Subclients /\ i \in 1..joined /\ samples[i][t] \in Nat
      BY <1>2, <1>5, <2>1, <2>4 DEF Subclients
    <3>2. AtHand(i, SampleOf(p, t)) = 0 /\ Count(stream[i], SampleOf(p, t)) = 0
      BY <1>2, <1>4, <3>1, CountOfEmpty DEF AtHand
    <3>3. ran[p][t] = samples[i][t]
      BY <2>2, <2>4, <3>1, <3>2 DEF Carried
    <3>4. CASE samples[i][t] > 0
      <4>1. final_output[t][extra_event_name[i]] = samples[i][t]
        BY <1>1, <3>1, <3>4 DEF MergeInv
      <4>2. PICK q \in Profilers \ {1} : event_stream_dict[q][t] = i /\ extra_event_name[i] = EventOf[q]
        BY <1>1, <3>1, <3>4 DEF KeptInv
      <4>3. p = q
        BY <1>5, <2>4, <4>2
      <4> QED BY <3>3, <4>1, <4>2, <4>3 DEF Sampled
    <3>5. CASE ~(samples[i][t] > 0)
      <4>1. ~(final_output[t][EventOf[p]] > 0)
        <5> SUFFICES ASSUME final_output[t][EventOf[p]] > 0 PROVE FALSE
          OBVIOUS
        <5>1. PICK j \in 1..joined : samples[j][t] > 0 /\ EventOf[p] = extra_event_name[j]
          BY <1>1, <2>1 DEF MergeInv
        <5>2. j \in Subclients
          BY <1>2, <5>1 DEF Subclients
        <5>3. PICK q \in Profilers \ {1} : event_stream_dict[q][t] = j /\ extra_event_name[j] = EventOf[q]
          BY <1>1, <5>1, <5>2 DEF KeptInv
        <5>4. p = q
          BY <5>1, <5>3 DEF OneProfilerPerEvent
        <5> QED BY <3>5, <5>1, <5>3, <5>4
      <4> QED BY <2>1, <3>1, <3>3, <3>5, <4>1 DEF Sampled
    <3> QED BY <3>4, <3>5
  <2> QED BY <2>3, <2>4
<1>7. ASSUME NEW t \in threads PROVE thread_tree[t] = 1
  <2>1. 1 \in Subclients /\ joined > 0 /\ t \in Tids
    BY <1>1, <1>2 DEF Subclients, WhereInv
  <2>2. t \in tree[1]
    BY <1>1, <1>2, <2>1, ThreadsListed
  <2> QED BY <1>1, <2>1, <2>2 DEF MergeInv
<1> QED BY <1>6, <1>7 DEF SuccessIsComplete

(* SuccessIsComplete, for any number of profilers, streams, threads and     *)
(* samples, with any fault but a perf-record that a signal ends (the       *)
(* watcher takes that for a good end), and for profilers that sample       *)
(* different events: every sample is, until it is saved, in exactly one of *)
(* the places it passes, and every thread is told of in the first stream,  *)
(* which the merge takes first.                                            *)
THEOREM SuccessIsCompleteTheorem ==
  ASSUME OneProfilerPerEvent
  PROVE  SessionSpec => [](fault # "record_signalled" => SuccessIsComplete)
<1> DEFINE WholeInv == ArmInv /\ RecordersInv /\ FirstInv /\ EventsInv
<1>1. SessionInit => WholeInv
  <2>1. SessionInit => ArmInv
    BY DEF SessionInit, Init, ArmInv, AckInv, Connected
  <2> QED BY <2>1, RecordersInit, FirstInit, EventsInit
<1>2. EndInv /\ WholeInv /\ [SessionNext]_sessionVars => WholeInv'
  <2> SUFFICES ASSUME EndInv, WholeInv, [SessionNext]_sessionVars PROVE WholeInv'
    OBVIOUS
  <2>1. SessionInv /\ FlowInv /\ StreamsInv /\ ReportInv /\ CommandInv
    BY DEF EndInv
  <2>2. ArmInv' /\ RecordersInv' /\ FirstInv'
    BY <2>1, ArmStep, RecordersStep, FirstStep
  <2>3. EventsInv'
    BY EventsInvStep
  <2> QED BY <2>2, <2>3
<1>3. EndInv /\ WholeInv => (fault # "record_signalled" => SuccessIsComplete)
  <2> SUFFICES ASSUME EndInv, WholeInv, fault # "record_signalled", Success PROVE SuccessIsComplete
    BY DEF SuccessIsComplete, Success
  <2>1. fault \notin {"record_exits", "script_exits"} /\ ~CommandFailed
    BY DEF EndInv, ReportInv, WaitInv, VerdictInv, Success
  <2>2. Quiet
    BY <2>1 DEF EndInv, FaultInv, AllFaults, CommandFailed, Quiet
  <2> QED BY <2>2, CompleteAtEnd
<1> QED BY <1>1, <1>2, <1>3, EndInvariance, PTL DEF SessionSpec
=============================================================================
