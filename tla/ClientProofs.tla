---------------------------- MODULE ClientProofs ----------------------------
(***************************************************************************)
(* Theorems about module Client, for any number of subclients, any lines,  *)
(* threads, event types and timestamps, and both kinds of build.  Each     *)
(* safety property follows from SessionInv, which is inductive; the proof  *)
(* takes its parts one lemma at a time and, in each lemma, the actions one *)
(* step at a time.                                                         *)
(***************************************************************************)
EXTENDS Client, FiniteSetTheorems, TLAPS

(* Connection::write keeps the control connection well-formed and within   *)
(* its capacity.                                                           *)
LEMMA WriteType ==
  ASSUME ControlTypeOK, NEW msg \in Messages, Write(msg)
  PROVE  toFrontend' \in Seq(Messages) /\ Len(toFrontend') <= CtlCap
  BY BoundsAssumption DEF ControlTypeOK, Write

(* The constructors and the locals of process() are well-typed. *)
LEMMA TypeInit == Init => TypeOK
<1> SUFFICES ASSUME Init PROVE TypeOK
  OBVIOUS
<1> USE SubclientCntAssumption, BoundsAssumption DEF Init, NoSamples
<1>1. ControlTypeOK
  <2>1. <<>> \in Seq(Messages) /\ Len(<<>>) = 0
    OBVIOUS
  <2>2. 0 <= CtlCap
    OBVIOUS
  <2>3. toFrontend \in Seq(Messages) /\ Len(toFrontend) <= CtlCap
    BY <2>1, <2>2
  <2> QED
    BY <2>3 DEF ControlTypeOK, ClientPcs
<1>2. LockTypeOK /\ StartTypeOK
  BY DEF LockTypeOK, StartTypeOK, TstampMsgs
<1>3. SubclientTypeOK
  BY DEF SubclientTypeOK, SubPcs, TstampMsgs, Lines
<1>4. MergeTypeOK
  BY DEF MergeTypeOK
<1> QED
  BY <1>1, <1>2, <1>3, <1>4 DEF TypeOK

(* Every step keeps every variable in its type. *)
LEMMA TypeStep == TypeOK /\ [Next]_vars => TypeOK'
<1> SUFFICES ASSUME TypeOK, [Next]_vars PROVE TypeOK'
  OBVIOUS
<1> USE DEF TypeOK, ControlTypeOK, LockTypeOK, StartTypeOK, SubclientTypeOK,
        MergeTypeOK, ClientPcs, SubPcs,
        controlVars, lockVars, startVars, readVars, localVars, mergeVars
<1>1. ASSUME NEW i \in Subclients, SpawnSubclient(i) PROVE TypeOK'
  BY <1>1 DEF SpawnSubclient
<1>2. CASE WriteInstructions
  BY <1>2, WriteType DEF WriteInstructions, Messages
<1>3. CASE LockAccepted
  BY <1>3 DEF LockAccepted
<1>4. CASE CheckAccepted
  BY <1>4 DEF CheckAccepted
<1>5. CASE WaitAccepted
  BY <1>5 DEF WaitAccepted
<1>6. CASE WriteStartProfile
  BY <1>6, WriteType DEF WriteStartProfile, Messages
<1>7. CASE StoreTstamp
  BY <1>7 DEF StoreTstamp, TstampMsgs
<1>8. CASE StoreProfileStart
  BY <1>8 DEF StoreProfileStart
<1>9. CASE WriteTstampAck
  BY <1>9, WriteType DEF WriteTstampAck, Messages
<1>10. ASSUME NEW i \in Subclients, MergeResult(i) PROVE TypeOK'
  <2>1. ControlTypeOK' /\ LockTypeOK' /\ StartTypeOK' /\ SubclientTypeOK'
    BY <1>10 DEF MergeResult
  <2>2. joined' \in 0..SubclientCnt /\ tids' \in SUBSET Tids
    BY <1>10, SubclientCntAssumption DEF MergeResult, Subclients
  <2>3. thread_tree' \in [Tids -> Nat]
    BY <1>10 DEF MergeResult
  <2>4. final_output' \in [Tids -> [Events -> Nat]]
    BY <1>10 DEF MergeResult
  <2> QED
    BY <2>1, <2>2, <2>3, <2>4
<1>11. ASSUME NEW i \in Subclients, RethrowSubclientError(i)
      PROVE TypeOK'
  BY <1>11 DEF RethrowSubclientError
<1>12. CASE SaveResults
  BY <1>12, WriteType DEF SaveResults, Messages
<1>13. CASE WriteFileInstructions
  BY <1>13, WriteType DEF WriteFileInstructions, Messages
<1>14. CASE WriteFinished
  BY <1>14, WriteType DEF WriteFinished, Messages
<1>15. CASE DestroyLocals
  BY <1>15 DEF DestroyLocals
<1>16. ASSUME NEW cmd \in Commands, NEW dirs \in BOOLEAN, ReadCommand(cmd, dirs)
      PROVE TypeOK'
  BY <1>16, WriteType DEF ReadCommand, Messages
<1>17. CASE ReadFilename
  BY <1>17 DEF ReadFilename
<1>18. ASSUME NEW msg \in TstampMsgs, ReadTstamp(msg) PROVE TypeOK'
  BY <1>18, WriteType DEF ReadTstamp, Messages, TstampMsgs
<1>19. ASSUME NEW cmd \in FileCommands, ReadFileCommand(cmd)
      PROVE TypeOK'
  BY <1>19, WriteType DEF ReadFileCommand, Messages
<1>20. ASSUME NEW reply \in FileReplies, ReceiveFile(reply) PROVE TypeOK'
  BY <1>20, WriteType DEF ReceiveFile, Messages, FileReplies
<1>21. ASSUME NEW i \in Subclients, IncrementAccepted(i) PROVE TypeOK'
  BY <1>21 DEF IncrementAccepted
<1>22. ASSUME NEW i \in Subclients, NotifyAll(i) PROVE TypeOK'
  BY <1>22 DEF NotifyAll
<1>23. ASSUME NEW i \in Subclients, HandleLine(i) PROVE TypeOK'
  <2>1. ControlTypeOK' /\ LockTypeOK' /\ StartTypeOK' /\ MergeTypeOK'
    BY <1>23 DEF HandleLine
  <2>2. /\ subpc' \in [Subclients -> SubPcs]
        /\ line' \in [Subclients -> Lines]
        /\ lines' \in [Subclients -> 0..MaxLines]
    BY <1>23 DEF HandleLine
  <2>3. /\ start_time_set' \in [Subclients -> BOOLEAN]
        /\ start_time' \in [Subclients -> TstampMsgs]
    BY <1>23 DEF HandleLine, LookupStart
  <2>4. /\ extra_event_name' \in [Subclients -> Events \cup {NoEvent}]
        /\ samples' \in [Subclients -> [Tids -> Nat]]
        /\ tree' \in [Subclients -> SUBSET Tids]
    <3>1. CASE KeepMeta(i)
      BY <3>1 DEF KeepMeta, MetaLines
    <3>2. CASE KeepSample(i)
      <4>1. line[i].tid \in Tids /\ line[i].event \in Events
        BY <3>2 DEF KeepSample, Expected, SampleLines
      <4>2. samples[i][line[i].tid] + 1 \in Nat
        BY <4>1
      <4> QED
        BY <3>2, <4>1, <4>2 DEF KeepSample
    <3>3. CASE DropLine(i)
      BY <3>3 DEF DropLine
    <3> QED
      BY <1>23, <3>1, <3>2, <3>3 DEF HandleLine
  <2> QED
    BY <2>1, <2>2, <2>3, <2>4
<1>24. ASSUME NEW i \in Subclients, AcceptConnection(i) PROVE TypeOK'
  BY <1>24 DEF AcceptConnection
<1>25. ASSUME NEW i \in Subclients, NEW l \in Lines, ReadLine(i, l)
      PROVE TypeOK'
  BY <1>25, BoundsAssumption DEF ReadLine
<1>26. ASSUME NEW i \in Subclients, ReadStop(i) PROVE TypeOK'
  <2>1. ControlTypeOK' /\ LockTypeOK' /\ StartTypeOK' /\ MergeTypeOK'
    BY <1>26 DEF ReadStop
  <2>2. samples' \in [Subclients -> [Tids -> Nat]]
    <3>1. NoSamples \in [Tids -> Nat]
      BY DEF NoSamples
    <3> QED
      BY <1>26, <3>1 DEF ReadStop
  <2>3. tree' \in [Subclients -> SUBSET Tids]
    BY <1>26 DEF ReadStop
  <2> QED
    BY <1>26, <2>1, <2>2, <2>3 DEF ReadStop
<1>27. CASE ClientThrows
  BY <1>27 DEF ClientThrows
<1>28. ASSUME NEW i \in Subclients, AcceptFails(i) PROVE TypeOK'
  BY <1>28 DEF AcceptFails
<1>29. ASSUME NEW i \in Subclients, ReadFails(i) PROVE TypeOK'
  BY <1>29 DEF ReadFails
<1>30. CASE SpuriousWakeup
  BY <1>30 DEF SpuriousWakeup
<1>31. CASE FrontendReads
  BY <1>31, BoundsAssumption DEF FrontendReads
<1>32. CASE UNCHANGED vars
  BY <1>32 DEF vars
<1> QED
  BY <1>1, <1>2, <1>3, <1>4, <1>5, <1>6, <1>7, <1>8, <1>9, <1>10, <1>11,
     <1>12, <1>13, <1>14, <1>15, <1>16, <1>17, <1>18, <1>19, <1>20,
     <1>21, <1>22, <1>23, <1>24, <1>25, <1>26, <1>27, <1>28, <1>29,
     <1>30, <1>31, <1>32 DEF Next, ClientRuns, ClientReads,
     SubclientRuns, SubclientReads, Fails

(* Type correctness: the model's variables keep their types. *)
THEOREM TypeCorrect == Spec => []TypeOK
  BY TypeInit, TypeStep, PTL DEF Spec

(* The counter is the number of subclients that have notified the client. *)
LEMMA CountStep == TypeOK /\ CountInv /\ [Next]_vars => CountInv'
<1> SUFFICES ASSUME TypeOK, CountInv, [Next]_vars PROVE CountInv'
  OBVIOUS
<1> USE DEF CountInv, TypeOK, LockTypeOK, SubclientTypeOK,
        controlVars, lockVars, startVars, readVars, localVars, mergeVars
<1>a. IsFiniteSet(Arrived)
  <2>1. IsFiniteSet(Subclients) /\ Arrived \subseteq Subclients
    BY SubclientCntAssumption, FS_Interval DEF Subclients, Arrived
  <2> QED
    BY <2>1, FS_Subset
<1>b. ASSUME accepted' = accepted,
             \A j \in Subclients : subpc'[j] \in Notified <=> subpc[j] \in Notified
      PROVE  CountInv'
  BY <1>b DEF Arrived
<1> USE DEF Notified, Connected
<1>1. ASSUME NEW i \in Subclients, SpawnSubclient(i) PROVE CountInv'
  BY <1>1, <1>b DEF SpawnSubclient
<1>2. CASE WriteInstructions
  BY <1>2, <1>b DEF WriteInstructions
<1>3. CASE LockAccepted
  BY <1>3, <1>b DEF LockAccepted
<1>4. CASE CheckAccepted
  BY <1>4, <1>b DEF CheckAccepted
<1>5. CASE WaitAccepted
  BY <1>5, <1>b DEF WaitAccepted
<1>6. CASE WriteStartProfile
  BY <1>6, <1>b DEF WriteStartProfile
<1>7. CASE StoreTstamp
  BY <1>7, <1>b DEF StoreTstamp
<1>8. CASE StoreProfileStart
  BY <1>8, <1>b DEF StoreProfileStart
<1>9. CASE WriteTstampAck
  BY <1>9, <1>b DEF WriteTstampAck
<1>10. ASSUME NEW i \in Subclients, MergeResult(i) PROVE CountInv'
  BY <1>10, <1>b DEF MergeResult
<1>11. ASSUME NEW i \in Subclients, RethrowSubclientError(i)
      PROVE CountInv'
  BY <1>11, <1>b DEF RethrowSubclientError
<1>12. CASE SaveResults
  BY <1>12, <1>b DEF SaveResults
<1>13. CASE WriteFileInstructions
  BY <1>13, <1>b DEF WriteFileInstructions
<1>14. CASE WriteFinished
  BY <1>14, <1>b DEF WriteFinished
<1>15. CASE DestroyLocals
  BY <1>15, <1>b DEF DestroyLocals
<1>16. ASSUME NEW cmd \in Commands, NEW dirs \in BOOLEAN, ReadCommand(cmd, dirs)
      PROVE CountInv'
  BY <1>16, <1>b DEF ReadCommand
<1>17. CASE ReadFilename
  BY <1>17, <1>b DEF ReadFilename
<1>18. ASSUME NEW msg \in TstampMsgs, ReadTstamp(msg) PROVE CountInv'
  BY <1>18, <1>b DEF ReadTstamp
<1>19. ASSUME NEW cmd \in FileCommands, ReadFileCommand(cmd)
      PROVE CountInv'
  BY <1>19, <1>b DEF ReadFileCommand
<1>20. ASSUME NEW reply \in FileReplies, ReceiveFile(reply)
      PROVE CountInv'
  BY <1>20, <1>b DEF ReceiveFile
<1>21. ASSUME NEW i \in Subclients, IncrementAccepted(i) PROVE CountInv'
  <2>1. i \notin Arrived /\ Arrived' = Arrived \cup {i}
    BY <1>21 DEF IncrementAccepted, Arrived
  <2>2. Cardinality(Arrived \cup {i}) = Cardinality(Arrived) + 1
    BY <1>a, <2>1, FS_AddElement
  <2> QED
    BY <1>21, <2>1, <2>2 DEF IncrementAccepted
<1>22. ASSUME NEW i \in Subclients, NotifyAll(i) PROVE CountInv'
  BY <1>22, <1>b DEF NotifyAll
<1>23. ASSUME NEW i \in Subclients, HandleLine(i) PROVE CountInv'
  BY <1>23, <1>b DEF HandleLine
<1>24. ASSUME NEW i \in Subclients, AcceptConnection(i) PROVE CountInv'
  BY <1>24, <1>b DEF AcceptConnection
<1>25. ASSUME NEW i \in Subclients, NEW l \in Lines, ReadLine(i, l)
      PROVE CountInv'
  BY <1>25, <1>b DEF ReadLine
<1>26. ASSUME NEW i \in Subclients, ReadStop(i) PROVE CountInv'
  BY <1>26, <1>b DEF ReadStop
<1>27. CASE ClientThrows
  BY <1>27, <1>b DEF ClientThrows
<1>28. ASSUME NEW i \in Subclients, AcceptFails(i) PROVE CountInv'
  BY <1>28, <1>b DEF AcceptFails
<1>29. ASSUME NEW i \in Subclients, ReadFails(i) PROVE CountInv'
  BY <1>29, <1>b DEF ReadFails
<1>30. CASE SpuriousWakeup
  BY <1>30, <1>b DEF SpuriousWakeup
<1>31. CASE FrontendReads
  BY <1>31, <1>b DEF FrontendReads
<1>32. CASE UNCHANGED vars
  BY <1>32, <1>b DEF vars
<1> QED
  BY <1>1, <1>2, <1>3, <1>4, <1>5, <1>6, <1>7, <1>8, <1>9, <1>10, <1>11,
     <1>12, <1>13, <1>14, <1>15, <1>16, <1>17, <1>18, <1>19, <1>20,
     <1>21, <1>22, <1>23, <1>24, <1>25, <1>26, <1>27, <1>28, <1>29,
     <1>30, <1>31, <1>32 DEF Next, ClientRuns, ClientReads,
     SubclientRuns, SubclientReads, Fails

(* When the loop of process() ends, every subclient has notified it. *)
LEMMA AllAcceptedMeansAllNotified ==
  ASSUME TypeOK, CountInv, AllAccepted
  PROVE  \A i \in Subclients : subpc[i] \in Notified
<1>1. IsFiniteSet(Subclients) /\ Cardinality(Subclients) = SubclientCnt
  BY SubclientCntAssumption, FS_Interval DEF Subclients
<1>2. Arrived \subseteq Subclients
  BY DEF Arrived
<1>3. Cardinality(Arrived) >= Cardinality(Subclients)
  BY <1>1 DEF CountInv, AllAccepted
<1>4. Cardinality(Arrived) \in Nat /\ Cardinality(Arrived) <= Cardinality(Subclients)
  BY <1>1, <1>2, FS_Subset, FS_CardinalityType
<1>5. Arrived = Subclients
  BY <1>1, <1>2, <1>3, <1>4, FS_Subset, FS_CardinalityType
<1> QED
  BY <1>5 DEF Arrived

(* Who holds the mutex, and what is true past the gate. *)
LEMMA LockStep == SessionInv /\ [Next]_vars => (MutexInv /\ GateInv)'
<1> SUFFICES ASSUME SessionInv, [Next]_vars PROVE (MutexInv /\ GateInv)'
  OBVIOUS
<1> USE DEF SessionInv, TypeOK, ControlTypeOK, LockTypeOK,
        SubclientTypeOK, MutexInv, GateInv, BeforeSpawn, BeforeStart,
        Collected, AfterStart, PastGate, HoldsMutex, Notified,
        Connected, controlVars, lockVars, startVars, readVars,
        localVars, mergeVars
<1>1. ASSUME NEW i \in Subclients, SpawnSubclient(i)
      PROVE (MutexInv /\ GateInv)'
  BY <1>1 DEF SpawnSubclient
<1>2. CASE WriteInstructions
  BY <1>2 DEF WriteInstructions
<1>3. CASE LockAccepted
  BY <1>3 DEF LockAccepted
<1>4. CASE CheckAccepted
  BY <1>4, AllAcceptedMeansAllNotified DEF CheckAccepted
<1>5. CASE WaitAccepted
  BY <1>5 DEF WaitAccepted
<1>6. CASE WriteStartProfile
  BY <1>6 DEF WriteStartProfile
<1>7. CASE StoreTstamp
  BY <1>7 DEF StoreTstamp
<1>8. CASE StoreProfileStart
  BY <1>8 DEF StoreProfileStart
<1>9. CASE WriteTstampAck
  BY <1>9 DEF WriteTstampAck
<1>10. ASSUME NEW i \in Subclients, MergeResult(i)
      PROVE (MutexInv /\ GateInv)'
  BY <1>10 DEF MergeResult
<1>11. ASSUME NEW i \in Subclients, RethrowSubclientError(i)
      PROVE (MutexInv /\ GateInv)'
  BY <1>11 DEF RethrowSubclientError
<1>12. CASE SaveResults
  BY <1>12 DEF SaveResults
<1>13. CASE WriteFileInstructions
  BY <1>13 DEF WriteFileInstructions
<1>14. CASE WriteFinished
  BY <1>14 DEF WriteFinished
<1>15. CASE DestroyLocals
  BY <1>15 DEF DestroyLocals
<1>16. ASSUME NEW cmd \in Commands, NEW dirs \in BOOLEAN, ReadCommand(cmd, dirs)
      PROVE (MutexInv /\ GateInv)'
  BY <1>16 DEF ReadCommand
<1>17. CASE ReadFilename
  BY <1>17 DEF ReadFilename
<1>18. ASSUME NEW msg \in TstampMsgs, ReadTstamp(msg)
      PROVE (MutexInv /\ GateInv)'
  BY <1>18 DEF ReadTstamp
<1>19. ASSUME NEW cmd \in FileCommands, ReadFileCommand(cmd)
      PROVE (MutexInv /\ GateInv)'
  BY <1>19 DEF ReadFileCommand
<1>20. ASSUME NEW reply \in FileReplies, ReceiveFile(reply)
      PROVE (MutexInv /\ GateInv)'
  BY <1>20 DEF ReceiveFile
<1>21. ASSUME NEW i \in Subclients, IncrementAccepted(i)
      PROVE (MutexInv /\ GateInv)'
  BY <1>21 DEF IncrementAccepted
<1>22. ASSUME NEW i \in Subclients, NotifyAll(i)
      PROVE (MutexInv /\ GateInv)'
  BY <1>22 DEF NotifyAll
<1>23. ASSUME NEW i \in Subclients, HandleLine(i)
      PROVE (MutexInv /\ GateInv)'
  BY <1>23 DEF HandleLine
<1>24. ASSUME NEW i \in Subclients, AcceptConnection(i)
      PROVE (MutexInv /\ GateInv)'
  BY <1>24 DEF AcceptConnection
<1>25. ASSUME NEW i \in Subclients, NEW l \in Lines, ReadLine(i, l)
      PROVE (MutexInv /\ GateInv)'
  BY <1>25 DEF ReadLine
<1>26. ASSUME NEW i \in Subclients, ReadStop(i)
      PROVE (MutexInv /\ GateInv)'
  BY <1>26 DEF ReadStop
<1>27. CASE ClientThrows
  BY <1>27 DEF ClientThrows, ThrowingPcs
<1>28. ASSUME NEW i \in Subclients, AcceptFails(i)
      PROVE (MutexInv /\ GateInv)'
  BY <1>28 DEF AcceptFails
<1>29. ASSUME NEW i \in Subclients, ReadFails(i)
      PROVE (MutexInv /\ GateInv)'
  BY <1>29 DEF ReadFails
<1>30. CASE SpuriousWakeup
  BY <1>30 DEF SpuriousWakeup
<1>31. CASE FrontendReads
  BY <1>31 DEF FrontendReads
<1>32. CASE UNCHANGED vars
  BY <1>32 DEF vars
<1> QED
  BY <1>1, <1>2, <1>3, <1>4, <1>5, <1>6, <1>7, <1>8, <1>9, <1>10, <1>11,
     <1>12, <1>13, <1>14, <1>15, <1>16, <1>17, <1>18, <1>19, <1>20,
     <1>21, <1>22, <1>23, <1>24, <1>25, <1>26, <1>27, <1>28, <1>29,
     <1>30, <1>31, <1>32 DEF Next, ClientRuns, ClientReads,
     SubclientRuns, SubclientReads, Fails

(* When the subclients' threads run. *)
LEMMA LifetimeStep == SessionInv /\ [Next]_vars => (BirthInv /\ JoinInv /\ NoOrphanSubclient)'
<1> SUFFICES ASSUME SessionInv, [Next]_vars PROVE (BirthInv /\ JoinInv /\ NoOrphanSubclient)'
  OBVIOUS
<1> USE DEF SessionInv, TypeOK, ControlTypeOK, SubclientTypeOK,
        MergeTypeOK, BirthInv, JoinInv, NoOrphanSubclient, Subclients,
        Ended, BeforeSpawn, BeforeStart, Collected, controlVars,
        lockVars, startVars, readVars, localVars, mergeVars
<1>1. ASSUME NEW i \in Subclients, SpawnSubclient(i)
      PROVE (BirthInv /\ JoinInv /\ NoOrphanSubclient)'
  BY <1>1, SubclientCntAssumption DEF SpawnSubclient
<1>2. CASE WriteInstructions
  BY <1>2 DEF WriteInstructions
<1>3. CASE LockAccepted
  BY <1>3 DEF LockAccepted
<1>4. CASE CheckAccepted
  BY <1>4 DEF CheckAccepted
<1>5. CASE WaitAccepted
  BY <1>5 DEF WaitAccepted
<1>6. CASE WriteStartProfile
  BY <1>6 DEF WriteStartProfile
<1>7. CASE StoreTstamp
  BY <1>7 DEF StoreTstamp
<1>8. CASE StoreProfileStart
  BY <1>8 DEF StoreProfileStart
<1>9. CASE WriteTstampAck
  BY <1>9, SubclientCntAssumption DEF WriteTstampAck
<1>10. ASSUME NEW i \in Subclients, MergeResult(i)
      PROVE (BirthInv /\ JoinInv /\ NoOrphanSubclient)'
  BY <1>10, SubclientCntAssumption DEF MergeResult
<1>11. ASSUME NEW i \in Subclients, RethrowSubclientError(i)
      PROVE (BirthInv /\ JoinInv /\ NoOrphanSubclient)'
  BY <1>11 DEF RethrowSubclientError
<1>12. CASE SaveResults
  BY <1>12 DEF SaveResults
<1>13. CASE WriteFileInstructions
  BY <1>13 DEF WriteFileInstructions
<1>14. CASE WriteFinished
  BY <1>14 DEF WriteFinished
<1>15. CASE DestroyLocals
  BY <1>15 DEF DestroyLocals, AllEnded
<1>16. ASSUME NEW cmd \in Commands, NEW dirs \in BOOLEAN, ReadCommand(cmd, dirs)
      PROVE (BirthInv /\ JoinInv /\ NoOrphanSubclient)'
  BY <1>16 DEF ReadCommand
<1>17. CASE ReadFilename
  BY <1>17 DEF ReadFilename
<1>18. ASSUME NEW msg \in TstampMsgs, ReadTstamp(msg)
      PROVE (BirthInv /\ JoinInv /\ NoOrphanSubclient)'
  BY <1>18 DEF ReadTstamp
<1>19. ASSUME NEW cmd \in FileCommands, ReadFileCommand(cmd)
      PROVE (BirthInv /\ JoinInv /\ NoOrphanSubclient)'
  BY <1>19 DEF ReadFileCommand
<1>20. ASSUME NEW reply \in FileReplies, ReceiveFile(reply)
      PROVE (BirthInv /\ JoinInv /\ NoOrphanSubclient)'
  BY <1>20 DEF ReceiveFile
<1>21. ASSUME NEW i \in Subclients, IncrementAccepted(i)
      PROVE (BirthInv /\ JoinInv /\ NoOrphanSubclient)'
  BY <1>21 DEF IncrementAccepted
<1>22. ASSUME NEW i \in Subclients, NotifyAll(i)
      PROVE (BirthInv /\ JoinInv /\ NoOrphanSubclient)'
  BY <1>22 DEF NotifyAll
<1>23. ASSUME NEW i \in Subclients, HandleLine(i)
      PROVE (BirthInv /\ JoinInv /\ NoOrphanSubclient)'
  BY <1>23 DEF HandleLine
<1>24. ASSUME NEW i \in Subclients, AcceptConnection(i)
      PROVE (BirthInv /\ JoinInv /\ NoOrphanSubclient)'
  BY <1>24 DEF AcceptConnection
<1>25. ASSUME NEW i \in Subclients, NEW l \in Lines, ReadLine(i, l)
      PROVE (BirthInv /\ JoinInv /\ NoOrphanSubclient)'
  <2>1. /\ UNCHANGED <<pc, joined>>
        /\ subpc[i] = "read"
        /\ \A j \in Subclients : j # i => subpc'[j] = subpc[j]
    BY <1>25 DEF ReadLine
  <2>2. BirthInv' /\ NoOrphanSubclient'
    BY <2>1
  <2>3. \A j \in 1..joined : j \in Subclients
    BY SubclientCntAssumption
  <2>4. JoinInv'
    BY <2>1, <2>3
  <2> QED
    BY <2>2, <2>4
<1>26. ASSUME NEW i \in Subclients, ReadStop(i)
      PROVE (BirthInv /\ JoinInv /\ NoOrphanSubclient)'
  BY <1>26 DEF ReadStop
<1>27. CASE ClientThrows
  BY <1>27 DEF ClientThrows, ThrowingPcs
<1>28. ASSUME NEW i \in Subclients, AcceptFails(i)
      PROVE (BirthInv /\ JoinInv /\ NoOrphanSubclient)'
  BY <1>28 DEF AcceptFails
<1>29. ASSUME NEW i \in Subclients, ReadFails(i)
      PROVE (BirthInv /\ JoinInv /\ NoOrphanSubclient)'
  BY <1>29 DEF ReadFails
<1>30. CASE SpuriousWakeup
  BY <1>30 DEF SpuriousWakeup
<1>31. CASE FrontendReads
  BY <1>31 DEF FrontendReads
<1>32. CASE UNCHANGED vars
  BY <1>32 DEF vars
<1> QED
  BY <1>1, <1>2, <1>3, <1>4, <1>5, <1>6, <1>7, <1>8, <1>9, <1>10, <1>11,
     <1>12, <1>13, <1>14, <1>15, <1>16, <1>17, <1>18, <1>19, <1>20,
     <1>21, <1>22, <1>23, <1>24, <1>25, <1>26, <1>27, <1>28, <1>29,
     <1>30, <1>31, <1>32 DEF Next, ClientRuns, ClientReads,
     SubclientRuns, SubclientReads, Fails

(* The flag and the timestamp of the start of profiling. *)
LEMMA PublicationStep == SessionInv /\ [Next]_vars => (PublishInv /\ OrderInv)'
<1> SUFFICES ASSUME SessionInv, [Next]_vars PROVE (PublishInv /\ OrderInv)'
  OBVIOUS
<1> USE DEF SessionInv, TypeOK, ControlTypeOK, StartTypeOK,
        SubclientTypeOK, PublishInv, OrderInv, PublishedStart,
        TstampMsgs, BeforeSpawn, BeforeStart, Collected, AfterStart,
        controlVars, lockVars, startVars, readVars, localVars, mergeVars
<1>1. ASSUME NEW i \in Subclients, SpawnSubclient(i)
      PROVE (PublishInv /\ OrderInv)'
  BY <1>1 DEF SpawnSubclient
<1>2. CASE WriteInstructions
  BY <1>2 DEF WriteInstructions
<1>3. CASE LockAccepted
  BY <1>3 DEF LockAccepted
<1>4. CASE CheckAccepted
  BY <1>4 DEF CheckAccepted
<1>5. CASE WaitAccepted
  BY <1>5 DEF WaitAccepted
<1>6. CASE WriteStartProfile
  BY <1>6 DEF WriteStartProfile
<1>7. CASE StoreTstamp
  BY <1>7, TstampsAssumption DEF StoreTstamp
<1>8. CASE StoreProfileStart
  BY <1>8 DEF StoreProfileStart, MayStoreFlag
<1>9. CASE WriteTstampAck
  BY <1>9 DEF WriteTstampAck, AfterStores
<1>10. ASSUME NEW i \in Subclients, MergeResult(i)
      PROVE (PublishInv /\ OrderInv)'
  BY <1>10 DEF MergeResult
<1>11. ASSUME NEW i \in Subclients, RethrowSubclientError(i)
      PROVE (PublishInv /\ OrderInv)'
  BY <1>11 DEF RethrowSubclientError
<1>12. CASE SaveResults
  BY <1>12 DEF SaveResults
<1>13. CASE WriteFileInstructions
  BY <1>13 DEF WriteFileInstructions
<1>14. CASE WriteFinished
  BY <1>14 DEF WriteFinished
<1>15. CASE DestroyLocals
  BY <1>15 DEF DestroyLocals
<1>16. ASSUME NEW cmd \in Commands, NEW dirs \in BOOLEAN, ReadCommand(cmd, dirs)
      PROVE (PublishInv /\ OrderInv)'
  BY <1>16 DEF ReadCommand
<1>17. CASE ReadFilename
  BY <1>17 DEF ReadFilename
<1>18. ASSUME NEW msg \in TstampMsgs, ReadTstamp(msg)
      PROVE (PublishInv /\ OrderInv)'
  BY <1>18, TstampsAssumption DEF ReadTstamp
<1>19. ASSUME NEW cmd \in FileCommands, ReadFileCommand(cmd)
      PROVE (PublishInv /\ OrderInv)'
  BY <1>19 DEF ReadFileCommand
<1>20. ASSUME NEW reply \in FileReplies, ReceiveFile(reply)
      PROVE (PublishInv /\ OrderInv)'
  BY <1>20 DEF ReceiveFile
<1>21. ASSUME NEW i \in Subclients, IncrementAccepted(i)
      PROVE (PublishInv /\ OrderInv)'
  BY <1>21 DEF IncrementAccepted
<1>22. ASSUME NEW i \in Subclients, NotifyAll(i)
      PROVE (PublishInv /\ OrderInv)'
  BY <1>22 DEF NotifyAll
<1>23. ASSUME NEW i \in Subclients, HandleLine(i)
      PROVE (PublishInv /\ OrderInv)'
  BY <1>23 DEF HandleLine, LookupStart
<1>24. ASSUME NEW i \in Subclients, AcceptConnection(i)
      PROVE (PublishInv /\ OrderInv)'
  BY <1>24 DEF AcceptConnection
<1>25. ASSUME NEW i \in Subclients, NEW l \in Lines, ReadLine(i, l)
      PROVE (PublishInv /\ OrderInv)'
  BY <1>25 DEF ReadLine
<1>26. ASSUME NEW i \in Subclients, ReadStop(i)
      PROVE (PublishInv /\ OrderInv)'
  BY <1>26 DEF ReadStop
<1>27. CASE ClientThrows
  BY <1>27 DEF ClientThrows, ThrowingPcs
<1>28. ASSUME NEW i \in Subclients, AcceptFails(i)
      PROVE (PublishInv /\ OrderInv)'
  BY <1>28 DEF AcceptFails
<1>29. ASSUME NEW i \in Subclients, ReadFails(i)
      PROVE (PublishInv /\ OrderInv)'
  BY <1>29 DEF ReadFails
<1>30. CASE SpuriousWakeup
  BY <1>30 DEF SpuriousWakeup
<1>31. CASE FrontendReads
  BY <1>31 DEF FrontendReads
<1>32. CASE UNCHANGED vars
  BY <1>32 DEF vars
<1> QED
  BY <1>1, <1>2, <1>3, <1>4, <1>5, <1>6, <1>7, <1>8, <1>9, <1>10, <1>11,
     <1>12, <1>13, <1>14, <1>15, <1>16, <1>17, <1>18, <1>19, <1>20,
     <1>21, <1>22, <1>23, <1>24, <1>25, <1>26, <1>27, <1>28, <1>29,
     <1>30, <1>31, <1>32 DEF Next, ClientRuns, ClientReads,
     SubclientRuns, SubclientReads, Fails

(* What a subclient leaves stays as it is. *)
LEMMA ResultStays ==
  ASSUME TypeOK, [Next]_vars, NEW j \in Subclients, subpc[j] = "done"
  PROVE  subpc'[j] = "done" /\ samples'[j] = samples[j] /\ tree'[j] = tree[j]
<1> USE DEF TypeOK, SubclientTypeOK, controlVars, lockVars, startVars, readVars,
        localVars, mergeVars
<1>1. ASSUME NEW i \in Subclients, SpawnSubclient(i) \/ MergeResult(i) \/ RethrowSubclientError(i)
      PROVE  subpc'[j] = "done" /\ UNCHANGED <<samples, tree>>
  BY <1>1 DEF SpawnSubclient, MergeResult, RethrowSubclientError
<1>2. ASSUME NEW i \in Subclients,
             \/ IncrementAccepted(i) \/ NotifyAll(i) \/ AcceptConnection(i)
             \/ (\E l \in Lines : ReadLine(i, l)) \/ AcceptFails(i) \/ ReadFails(i)
      PROVE  subpc'[j] = "done" /\ UNCHANGED <<samples, tree>>
  BY <1>2 DEF IncrementAccepted, NotifyAll, AcceptConnection, ReadLine, AcceptFails, ReadFails
<1>3. ASSUME NEW i \in Subclients, HandleLine(i)
      PROVE  subpc'[j] = "done" /\ samples'[j] = samples[j] /\ tree'[j] = tree[j]
  <2>1. i # j /\ subpc'[j] = subpc[j]
    BY <1>3 DEF HandleLine
  <2> QED BY <1>3, <2>1 DEF HandleLine, KeepMeta, KeepSample, DropLine
<1>4. ASSUME NEW i \in Subclients, ReadStop(i)
      PROVE  subpc'[j] = "done" /\ samples'[j] = samples[j] /\ tree'[j] = tree[j]
  BY <1>4 DEF ReadStop
<1>5. CASE \/ WriteInstructions \/ LockAccepted \/ CheckAccepted \/ WaitAccepted
           \/ WriteStartProfile \/ StoreTstamp \/ StoreProfileStart \/ WriteTstampAck
           \/ SaveResults \/ WriteFileInstructions \/ WriteFinished \/ DestroyLocals
  BY <1>5 DEF WriteInstructions, LockAccepted, CheckAccepted, WaitAccepted,
     WriteStartProfile, StoreTstamp, StoreProfileStart, WriteTstampAck,
     SaveResults, WriteFileInstructions, WriteFinished, DestroyLocals
<1>6. CASE ClientReads
  BY <1>6 DEF ClientReads, ReadCommand, ReadFilename, ReadTstamp, ReadFileCommand, ReceiveFile
<1>7. CASE ClientThrows \/ SpuriousWakeup \/ FrontendReads \/ UNCHANGED vars
  BY <1>7 DEF ClientThrows, SpuriousWakeup, FrontendReads, vars
<1> QED
  BY <1>1, <1>2, <1>3, <1>4, <1>5, <1>6, <1>7
     DEF Next, ClientRuns, SubclientRuns, SubclientReads, Fails

(* The streams that told of a thread, or sampled it, are finitely many.    *)
LEMMA CountsAreNumbers ==
  ASSUME TypeOK, NEW t
  PROVE  /\ IsFiniteSet(Told(t)) /\ Cardinality(Told(t)) \in Nat
         /\ IsFiniteSet(Unnamed(t)) /\ Cardinality(Unnamed(t)) \in Nat
<1>1. joined \in Nat
  BY SubclientCntAssumption DEF TypeOK, MergeTypeOK
<1>2. IsFiniteSet(1..joined)
  BY <1>1, FS_Interval
<1>3. Told(t) \subseteq 1..joined /\ Unnamed(t) \subseteq 1..joined
  BY DEF Told, Unnamed
<1>4. IsFiniteSet(Told(t)) /\ IsFiniteSet(Unnamed(t))
  BY <1>2, <1>3, FS_Subset
<1> QED BY <1>4, FS_CardinalityType

(* The thread tree the client builds. *)
LEMMA TreeStep == SessionInv /\ [Next]_vars => ListInv'
<1> SUFFICES ASSUME SessionInv, [Next]_vars PROVE ListInv'
  OBVIOUS
<1>0. /\ joined \in Nat /\ 1..joined \subseteq Subclients
      /\ \A j \in 1..joined :
           subpc'[j] = "done" /\ samples'[j] = samples[j] /\ tree'[j] = tree[j]
  <2>1. joined \in Nat /\ 1..joined \subseteq Subclients
    BY SubclientCntAssumption DEF SessionInv, TypeOK, MergeTypeOK, Subclients
  <2> QED BY <2>1, ResultStays DEF SessionInv, ListInv
<1>1. ASSUME NEW i \in Subclients, MergeResult(i) PROVE ListInv'
  <2>1. /\ thread_tree \in [Tids -> Nat] /\ tids \in SUBSET Tids
        /\ samples[i] \in [Tids -> Nat] /\ tree[i] \in SUBSET Tids
    BY DEF SessionInv, TypeOK, SubclientTypeOK, MergeTypeOK
  <2>2. /\ i = joined + 1 /\ joined' = i /\ tids' = tids \cup tree[i]
        /\ UNCHANGED <<samples, tree, subpc>> /\ subpc[i] = "done"
    BY <1>1 DEF MergeResult, localVars
  <2>3. 1..i = 1..joined \cup {i} /\ i \notin 1..joined
    BY <1>0, <2>2
  <2>4. ASSUME NEW t \in Tids
        PROVE  /\ thread_tree'[t] = thread_tree[t] + (IF t \in tree[i] THEN 1 ELSE 0)
                    + (IF samples[i][t] > 0 /\ t \notin tids /\ t \notin tree[i] THEN 1 ELSE 0)
               /\ \A e \in Events : final_output'[t][e] > 0 =>
                    samples[i][t] > 0 \/ final_output[t][e] > 0
    BY <1>1, <2>1 DEF MergeResult, Unlisted
  <2>5. \A t \in Tids : t \in tids <=> \E j \in 1..joined : t \in tree[j]
    BY DEF SessionInv, ListInv
  <2>6. ASSUME NEW t \in tids' PROVE thread_tree'[t] > 0
    <3>1. t \in Tids /\ thread_tree[t] \in Nat /\ (t \in tids => thread_tree[t] > 0)
      BY <2>1, <2>2, <2>6 DEF SessionInv, ListInv
    <3> QED BY <2>2, <2>4, <2>6, <3>1
  <2>7. ASSUME NEW t \in Tids, NEW e \in Events, final_output'[t][e] > 0
        PROVE  thread_tree'[t] > 0
    <3>1. thread_tree[t] \in Nat /\ (final_output[t][e] > 0 => thread_tree[t] > 0)
      BY <2>1 DEF SessionInv, ListInv, SampledThreadListed
    <3>2. CASE t \in tids'
      BY <2>6, <3>2
    <3>3. CASE t \notin tids'
      BY <2>2, <2>4, <2>7, <3>1, <3>3
    <3> QED BY <3>2, <3>3
  <2>8. ASSUME NEW t \in Tids
        PROVE  thread_tree'[t] = Cardinality(Told(t)') + Cardinality(Unnamed(t)')
    <3>1. /\ thread_tree[t] = Cardinality(Told(t)) + Cardinality(Unnamed(t))
          /\ thread_tree[t] \in Nat
      BY <2>1 DEF SessionInv, ListInv, SampledThreadListed
    <3>2. /\ IsFiniteSet(Told(t)) /\ Cardinality(Told(t)) \in Nat
          /\ IsFiniteSet(Unnamed(t)) /\ Cardinality(Unnamed(t)) \in Nat
      BY CountsAreNumbers DEF SessionInv
    <3>3. i \notin Told(t) /\ i \notin Unnamed(t)
      BY <2>3 DEF Told, Unnamed
    <3>4. /\ Cardinality(Told(t) \cup {i}) = Cardinality(Told(t)) + 1
          /\ Cardinality(Unnamed(t) \cup {i}) = Cardinality(Unnamed(t)) + 1
      BY <3>2, <3>3, FS_AddElement
    <3>5. Told(t)' = IF t \in tree[i] THEN Told(t) \cup {i} ELSE Told(t)
      BY <2>2, <2>3 DEF Told
    <3>6. (\A j \in 1..i : t \notin tree[j]) <=> t \notin tids /\ t \notin tree[i]
      BY <2>3, <2>5
    <3>7. Unnamed(t)' = IF samples[i][t] > 0 /\ t \notin tids /\ t \notin tree[i]
                        THEN Unnamed(t) \cup {i} ELSE Unnamed(t)
      BY <2>2, <2>3, <3>6 DEF Unnamed
    <3>8. CASE t \in tree[i]
      BY <2>4, <3>1, <3>2, <3>4, <3>5, <3>7, <3>8
    <3>9. CASE t \notin tree[i]
      BY <2>4, <3>1, <3>2, <3>4, <3>5, <3>7, <3>9
    <3> QED BY <3>8, <3>9
  <2>9. \A j \in 1..joined' : subpc'[j] = "done"
    BY <1>0, <2>2, <2>3
  <2>10. \A t \in Tids : t \in tids' <=> \E j \in 1..joined' : t \in tree'[j]
    BY <2>2, <2>3, <2>5
  <2> QED BY <2>6, <2>7, <2>8, <2>9, <2>10 DEF ListInv, SampledThreadListed
<1>2. CASE UNCHANGED mergeVars
  <2>1. UNCHANGED <<joined, tids, thread_tree, final_output>>
    BY <1>2 DEF mergeVars
  <2>2. ASSUME NEW t \in Tids PROVE Told(t)' = Told(t) /\ Unnamed(t)' = Unnamed(t)
    <3>1. ASSUME NEW k \in 1..joined PROVE \A j \in 1..k : j \in 1..joined
      BY <1>0
    <3> QED BY <1>0, <2>1, <3>1 DEF Told, Unnamed
  <2>3. \A t \in Tids : t \in tids' <=> \E j \in 1..joined' : t \in tree'[j]
    BY <1>0, <2>1 DEF SessionInv, ListInv
  <2>4. \A j \in 1..joined' : subpc'[j] = "done"
    BY <1>0, <2>1
  <2> QED BY <2>1, <2>2, <2>3, <2>4 DEF SessionInv, ListInv, SampledThreadListed
<1>3. (\E i \in Subclients : MergeResult(i)) \/ UNCHANGED mergeVars
  BY DEF Next, vars, ClientRuns, ClientReads, SubclientRuns, SubclientReads,
     Fails, SpawnSubclient, WriteInstructions, LockAccepted, CheckAccepted,
     WaitAccepted, WriteStartProfile, StoreTstamp, StoreProfileStart,
     WriteTstampAck, RethrowSubclientError, SaveResults,
     WriteFileInstructions, WriteFinished, DestroyLocals, ReadCommand,
     ReadFilename, ReadTstamp, ReadFileCommand, ReceiveFile,
     IncrementAccepted, NotifyAll, HandleLine, AcceptConnection, ReadLine,
     ReadStop, ClientThrows, AcceptFails, ReadFails, SpuriousWakeup,
     FrontendReads
<1> QED
  BY <1>1, <1>2, <1>3

(* SessionInv is an inductive invariant. *)
LEMMA InvInit == Init => SessionInv
<1> SUFFICES ASSUME Init PROVE SessionInv
  OBVIOUS
<1>1. TypeOK
  BY TypeInit
<1>2. CountInv
  <2>1. Arrived = {}
    BY DEF Init, Arrived, Notified, Connected
  <2> QED
    BY <2>1, FS_EmptySet DEF Init, CountInv
<1>3. MutexInv /\ GateInv /\ BirthInv /\ JoinInv /\ NoOrphanSubclient
  BY DEF Init, MutexInv, GateInv, BirthInv, JoinInv, NoOrphanSubclient,
     BeforeSpawn, BeforeStart, Collected, AfterStart, PastGate, HoldsMutex
<1>4. PublishInv /\ OrderInv
  BY DEF Init, PublishInv, OrderInv, PublishedStart, BeforeSpawn, BeforeStart,
     Collected, AfterStart
<1>5. ListInv
  <2>1. \A t : Told(t) = {} /\ Unnamed(t) = {}
    BY DEF Init, Told, Unnamed
  <2>2. \A t \in Tids : thread_tree[t] = 0 /\ \A e \in Events : final_output[t][e] = 0
    BY DEF Init, NoSamples
  <2>3. Cardinality({}) = 0
    BY FS_EmptySet
  <2>4. SampledThreadListed
    BY <2>1, <2>2, <2>3 DEF SampledThreadListed
  <2> QED BY <2>4 DEF Init, ListInv
<1> QED
  BY <1>1, <1>2, <1>3, <1>4, <1>5 DEF SessionInv

(* Every step of the client or of a subclient preserves SessionInv. *)
LEMMA InvStep == SessionInv /\ [Next]_vars => SessionInv'
  BY TypeStep, CountStep, LockStep, LifetimeStep, PublicationStep, TreeStep
  DEF SessionInv

(* SessionInv holds in every reachable state of a session. *)
THEOREM Invariance == Spec => []SessionInv
  BY InvInit, InvStep, PTL DEF Spec

-----------------------------------------------------------------------------
(* The properties of the runs. *)

(* No subclient is ever shut out of the mutex the client keeps. *)
THEOREM NotifierNeverShutOutTheorem == Spec => []NotifierNeverShutOut
<1>1. SessionInv => NotifierNeverShutOut
  BY DEF SessionInv, MutexInv, GateInv, HoldsMutex, PastGate,
     NotifierNeverShutOut, Notified, Connected
<1> QED
  BY <1>1, Invariance, PTL

(* No subclient outlives process(). *)
THEOREM NoOrphanSubclientTheorem == Spec => []NoOrphanSubclient
<1>1. SessionInv => NoOrphanSubclient
  BY DEF SessionInv
<1> QED
  BY <1>1, Invariance, PTL

(* Where stores become visible in program order, the timestamp a subclient *)
(* uses is always the frontend's. *)
THEOREM PublishedStartTheorem == ASSUME StoresInOrder PROVE Spec => []PublishedStart
<1>1. SessionInv => PublishedStart
  BY DEF SessionInv, OrderInv
<1> QED
  BY <1>1, Invariance, PTL

(* Whatever the order of the stores, a line handled after the              *)
(* acknowledgement is handled with the frontend's timestamp. *)
THEOREM TimedAfterAckTheorem == Spec => TimedAfterAck
<1>1. ASSUME SessionInv, NEW i \in Subclients, HandleLine(i),
             pc \in {"merge", "save", "finish"}
      PROVE  start_time_set'[i] /\ start_time'[i] = tstamp_msg
  BY <1>1 DEF SessionInv, TypeOK, SubclientTypeOK, PublishInv, HandleLine,
     LookupStart, AfterStart, Collected
<1>2. SessionInv /\ [Next]_vars =>
        [\A i \in Subclients :
           pc \in {"merge", "save", "finish"} /\ HandleLine(i) =>
             start_time_set'[i] /\ start_time'[i] = tstamp_msg]_vars
  BY <1>1
<1> QED
  BY <1>2, Invariance, PTL DEF Spec, TimedAfterAck

(* Every sampled thread is in the thread tree. *)
THEOREM SampledThreadListedTheorem == Spec => []SampledThreadListed
<1>1. SessionInv => SampledThreadListed
  BY DEF SessionInv, ListInv
<1> QED
  BY <1>1, Invariance, PTL

-----------------------------------------------------------------------------
(* The client implements the rendezvous: each step is a step of it or      *)
(* leaves arrived and open alone. *)
LEMMA GateInitially == Init => Gate!GateInit
  BY DEF Init, Gate!GateInit, Arrived, Notified, Connected

(* A step of the session arrives at the gate, opens it, or stutters. *)
LEMMA GateStep == SessionInv /\ [Next]_vars => [Gate!GateNext]_(Gate!gateVars)
<1> SUFFICES ASSUME SessionInv, [Next]_vars PROVE [Gate!GateNext]_(Gate!gateVars)
  OBVIOUS
<1>1. ASSUME NEW i \in Subclients, IncrementAccepted(i)
      PROVE  Gate!Arrive(i)
  BY <1>1 DEF IncrementAccepted, Gate!Arrive, Arrived, Notified, Connected,
     controlVars, SessionInv, TypeOK, SubclientTypeOK
<1>2. CASE WriteStartProfile
  <2>1. Arrived = Subclients /\ Arrived' = Arrived
    BY <1>2 DEF WriteStartProfile, SessionInv, GateInv, PastGate, Arrived
  <2> QED
    BY <1>2, <2>1 DEF WriteStartProfile, Gate!GateNext, Gate!Open, Gate!gateVars,
       SessionInv, TypeOK, ControlTypeOK
<1>3. CASE Arrived' = Arrived /\ announced' = announced
  BY <1>3 DEF Gate!gateVars
<1> USE DEF SessionInv, TypeOK, SubclientTypeOK, Arrived, Notified, Connected,
        controlVars
<1>4. CASE ClientRuns /\ ~WriteStartProfile
  BY <1>3, <1>4 DEF ClientRuns, SpawnSubclient, WriteInstructions,
     LockAccepted, CheckAccepted, WaitAccepted, StoreTstamp,
     StoreProfileStart, WriteTstampAck, MergeResult, RethrowSubclientError,
     SaveResults, WriteFileInstructions, WriteFinished, DestroyLocals
<1>5. CASE ClientReads
  BY <1>3, <1>5 DEF ClientReads, ReadCommand, ReadFilename, ReadTstamp,
     ReadFileCommand, ReceiveFile
<1>6. ASSUME NEW i \in Subclients, NotifyAll(i) \/ HandleLine(i) \/ SubclientReads(i)
      PROVE  Arrived' = Arrived /\ announced' = announced
  BY <1>6 DEF SubclientReads, NotifyAll, HandleLine, AcceptConnection,
     ReadLine, ReadStop
<1>7. CASE Fails \/ SpuriousWakeup \/ FrontendReads
  BY <1>3, <1>7 DEF Fails, ClientThrows, AcceptFails, ReadFails,
     SpuriousWakeup, FrontendReads
<1>8. CASE UNCHANGED vars
  BY <1>3, <1>8 DEF vars
<1> QED
  BY <1>1, <1>2, <1>3, <1>4, <1>5, <1>6, <1>7, <1>8
  DEF Next, SubclientRuns, Gate!GateNext

(* Profiling starts only when every subclient is connected. *)
THEOREM ImplementsRendezvousTheorem == Spec => ImplementsRendezvous
  BY GateInitially, GateStep, Invariance, PTL
  DEF Spec, ImplementsRendezvous, Gate!GateSpec
=============================================================================
