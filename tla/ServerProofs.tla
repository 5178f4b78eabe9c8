---------------------------- MODULE ServerProofs ----------------------------
(***************************************************************************)
(* Theorems about module Server, for any limit and any number of           *)
(* connections.  Each follows from ServerInv, which is inductive; the      *)
(* proof takes its parts one lemma at a time.                              *)
(***************************************************************************)
EXTENDS Server, FiniteSetTheorems, TLAPS

(* The sets of threads that are counted are finite. *)
LEMMA FiniteRunning ==
  ASSUME TypeOK
  PROVE  /\ IsFiniteSet(Running) /\ IsFiniteSet(LookedAt) /\ IsFiniteSet(ToCome)
         /\ Cardinality(Running) \in Nat /\ Cardinality(LookedAt) \in Nat
         /\ Cardinality(ToCome) \in Nat
         /\ Cardinality(Running) <= Len(threads)
<1>1. Len(threads) \in Nat
  BY DEF TypeOK
<1>2. IsFiniteSet(1..Len(threads)) /\ Cardinality(1..Len(threads)) = Len(threads)
  <2>1. IsFiniteSet(1..Len(threads))
    BY <1>1, FS_Interval
  <2>2. Cardinality(1..Len(threads)) =
          IF 1 > Len(threads) THEN 0 ELSE Len(threads) - 1 + 1
    BY <1>1, FS_Interval
  <2> QED
    BY <1>1, <2>1, <2>2
<1>3. Running \subseteq 1..Len(threads)
  BY DEF Running, Indices
<1>4. IsFiniteSet(Running) /\ Cardinality(Running) <= Len(threads)
  BY <1>2, <1>3, FS_Subset
<1>5. LookedAt \subseteq Running /\ ToCome \subseteq Running
  BY DEF LookedAt, ToCome
<1>6. IsFiniteSet(LookedAt) /\ IsFiniteSet(ToCome)
  BY <1>4, <1>5, FS_Subset
<1> QED
  BY <1>4, <1>6, FS_CardinalityType

(* The constructor and the first lines of run() establish the invariant. *)
LEMMA InvInit == Init => ServerInv
<1> SUFFICES ASSUME Init PROVE ServerInv
  OBVIOUS
<1>1. Len(threads) = 0 /\ threads \in Seq(ThreadStates)
  BY DEF Init
<1>2. TypeOK
  <2>1. max_connections \in MaxConnections /\ pc \in ServerPcs /\ interrupted \in BOOLEAN
    BY DEF Init, ServerPcs
  <2>2. arrivals \in 0..MaxArrivals /\ running_at_accept \in 0..MaxArrivals
        /\ late \in 0..arrivals
    BY MaxArrivalsAssumption DEF Init
  <2>3. Len(threads) <= arrivals /\ next \in Nat \ {0} /\ working_count \in 0..Len(threads)
    BY <1>1 DEF Init
  <2> QED
    BY <1>1, <2>1, <2>2, <2>3 DEF TypeOK
<1>3. Indices = {}
  BY <1>1 DEF Indices
<1>4. Running = {}
  BY <1>3 DEF Running
<1>5. Slots \in Nat
  BY MaxConnectionsAssumption DEF Slots, Init
<1>6. Slots >= 0
  BY <1>5
<1>7. SlotsRespected
  BY <1>4, <1>6, FS_EmptySet DEF SlotsRespected
<1>8. ArrivalInv /\ CountInv /\ JoinInv /\ SingleShotInv /\ LateInv /\ NoClientLeftBehind
  BY DEF Init, ArrivalInv, CountInv, JoinInv, SingleShotInv, LateInv, NoClientLeftBehind
<1> QED
  BY <1>2, <1>7, <1>8 DEF ServerInv

(* A client that ends leaves one thread fewer running. *)
LEMMA EndShrinks ==
  ASSUME TypeOK, NEW i \in Indices, NEW how \in Finished, ClientEnds(i, how)
  PROVE  /\ Indices' = Indices /\ Len(threads') = Len(threads)
         /\ threads' \in Seq(ThreadStates)
         /\ Running' \subseteq Running
         /\ LookedAt' \subseteq LookedAt /\ ToCome' \subseteq ToCome
         /\ Cardinality(Running') <= Cardinality(Running)
         /\ Cardinality(LookedAt') <= Cardinality(LookedAt)
         /\ Cardinality(ToCome') <= Cardinality(ToCome)
<1>1. threads \in Seq(ThreadStates) /\ how \in ThreadStates /\ how # "running"
  BY DEF TypeOK, ThreadStates, Finished
<1>2. threads' = [threads EXCEPT ![i] = how] /\ next' = next
  BY DEF ClientEnds
<1>3. Len(threads') = Len(threads) /\ threads' \in Seq(ThreadStates)
  BY <1>1, <1>2 DEF Indices
<1>4. Indices' = Indices
  BY <1>3 DEF Indices
<1>5. \A j \in Indices : threads'[j] = "running" => threads[j] = "running"
  BY <1>1, <1>2 DEF Indices
<1>6. Running' \subseteq Running
  BY <1>4, <1>5 DEF Running
<1>7. LookedAt' \subseteq LookedAt /\ ToCome' \subseteq ToCome
  BY <1>6, <1>2 DEF LookedAt, ToCome
<1> QED
  BY <1>3, <1>4, <1>6, <1>7, FiniteRunning, FS_Subset

(* One look moves one thread from those to come to those looked at. *)
LEMMA LookMoves ==
  ASSUME TypeOK, next \in Indices, CountNext, pc = "count"
  PROVE  /\ threads' = threads /\ Running' = Running
         /\ threads[next] = "running" =>
              /\ Cardinality(LookedAt') = Cardinality(LookedAt) + 1
              /\ Cardinality(ToCome') = Cardinality(ToCome) - 1
         /\ threads[next] # "running" =>
              LookedAt' = LookedAt /\ ToCome' = ToCome
<1>1. next \in Nat /\ next <= Len(threads) /\ Len(threads) \in Nat
  BY DEF TypeOK, Indices
<1>2. threads' = threads /\ next' = next + 1
  BY <1>1 DEF CountNext
<1>3. Running' = Running
  BY <1>2 DEF Running, Indices
<1>4. \A i \in Running : i \in Nat
  BY <1>1 DEF Running, Indices
<1>5. ASSUME threads[next] = "running"
      PROVE  /\ Cardinality(LookedAt') = Cardinality(LookedAt) + 1
             /\ Cardinality(ToCome') = Cardinality(ToCome) - 1
  <2>1. next \in Running
    BY <1>5 DEF Running
  <2>2. LookedAt' = LookedAt \cup {next} /\ next \notin LookedAt
    <3>1. LookedAt' = {i \in Running : i < next + 1}
      BY <1>2, <1>3 DEF LookedAt
    <3>2. \A i \in Running : i < next + 1 <=> (i < next \/ i = next)
      BY <1>1, <1>4
    <3>3. ~(next < next)
      BY <1>1
    <3> QED
      BY <2>1, <3>1, <3>2, <3>3, Zenon DEF LookedAt
  <2>3. ToCome' = ToCome \ {next} /\ next \in ToCome
    <3>1. ToCome' = {i \in Running : i >= next + 1}
      BY <1>2, <1>3 DEF ToCome
    <3>2. \A i \in Running : i >= next + 1 <=> (i >= next /\ i # next)
      BY <1>1, <1>4
    <3>3. next >= next
      BY <1>1
    <3> QED
      BY <2>1, <3>1, <3>2, <3>3, Zenon DEF ToCome
  <2>4. Cardinality(LookedAt') = Cardinality(LookedAt) + 1
    BY <2>2, FiniteRunning, FS_AddElement
  <2>5. Cardinality(ToCome') = Cardinality(ToCome) - 1
    BY <2>3, FiniteRunning, FS_RemoveElement
  <2> QED
    BY <2>4, <2>5
<1>6. ASSUME threads[next] # "running"
      PROVE  LookedAt' = LookedAt /\ ToCome' = ToCome
  <2>1. next \notin Running
    BY <1>6 DEF Running
  <2> QED
    BY <1>1, <1>2, <1>3, <1>4, <2>1 DEF LookedAt, ToCome
<1> QED
  BY <1>2, <1>3, <1>5, <1>6

(* Every step of run(), of a client's end and of interrupt() keeps the     *)
(* types.                                                                  *)
LEMMA TypeStep == ServerInv /\ [Next]_vars => TypeOK'
<1> SUFFICES ASSUME ServerInv, [Next]_vars PROVE TypeOK'
  OBVIOUS
<1> USE DEF admission, vars, ServerPcs
<1>0. TypeOK /\ Len(threads) \in Nat
  BY DEF ServerInv, TypeOK
<1>1. CASE CheckInterrupted
  BY <1>0, <1>1 DEF CheckInterrupted, TypeOK
<1>2. CASE AcceptConnection
  <2>1. Cardinality(Running) \in Nat /\ Cardinality(Running) <= Len(threads)
    BY <1>0, FiniteRunning
  <2>2. running_at_accept' \in 0..MaxArrivals
    BY <1>0, <1>2, <2>1, MaxArrivalsAssumption DEF AcceptConnection, TypeOK
  <2>3. arrivals' \in 0..MaxArrivals /\ late' \in 0..arrivals'
        /\ Len(threads') <= arrivals'
    BY <1>0, <1>2, MaxArrivalsAssumption DEF AcceptConnection, TypeOK
  <2>4. working_count' \in 0..Len(threads')
    BY <1>0, <1>2 DEF AcceptConnection, FreshCount
  <2> QED
    BY <1>0, <1>2, <2>2, <2>3, <2>4 DEF AcceptConnection, TypeOK
<1>3. CASE CountNext
  <2>1. CASE next <= Len(threads)
    <3>1. working_count < next /\ pc = "count"
      BY <1>3 DEF ServerInv, CountInv, CountNext
    <3>2. working_count' \in 0..Len(threads) /\ next' \in Nat \ {0}
      BY <1>0, <1>3, <2>1, <3>1 DEF CountNext, CountWorking, TypeOK
    <3> QED
      BY <1>0, <1>3, <2>1, <3>2 DEF CountNext, TypeOK
  <2>2. CASE ~(next <= Len(threads))
    BY <1>0, <1>3, <2>2 DEF CountNext, TypeOK
  <2> QED
    BY <2>1, <2>2
<1>4. CASE Refuse
  BY <1>0, <1>4 DEF Refuse, TypeOK
<1>5. CASE Admit
  <2>1. threads' \in Seq(ThreadStates) /\ Len(threads') = Len(threads) + 1
    BY <1>0, <1>5 DEF Admit, TypeOK, ThreadStates
  <2>2. Len(threads) < arrivals
    BY <1>5 DEF ServerInv, ArrivalInv, Admit
  <2>3. Len(threads') <= arrivals'
    BY <1>0, <1>5, <2>1, <2>2 DEF Admit, TypeOK
  <2>4. working_count' \in 0..Len(threads')
    BY <1>0, <1>5, <2>1 DEF Admit, TypeOK
  <2>5. pc' \in ServerPcs /\ next' \in Nat \ {0}
    BY <1>5 DEF Admit, AfterAdmission
  <2> QED
    BY <1>0, <1>5, <2>1, <2>3, <2>4, <2>5 DEF Admit, TypeOK
<1>6. CASE LoopThrows
  BY <1>0, <1>6 DEF LoopThrows, TypeOK
<1>7. CASE JoinNext
  BY <1>0, <1>7 DEF JoinNext, TypeOK
<1>8. CASE JoinRethrows
  BY <1>0, <1>8 DEF JoinRethrows, TypeOK
<1>9. CASE Return
  BY <1>0, <1>9 DEF Return, TypeOK
<1>10. CASE Unwind
  BY <1>0, <1>10 DEF Unwind, TypeOK
<1>11. CASE Interrupt
  BY <1>0, <1>11 DEF Interrupt, TypeOK
<1>12. ASSUME NEW i \in Indices, NEW how \in Finished, ClientEnds(i, how)
       PROVE TypeOK'
  <2>1. threads' \in Seq(ThreadStates) /\ Len(threads') = Len(threads)
    BY <1>0, <1>12, EndShrinks
  <2> QED
    BY <1>0, <1>12, <2>1 DEF ClientEnds, TypeOK
<1>13. CASE UNCHANGED vars
  BY <1>0, <1>13 DEF TypeOK
<1> QED
  BY <1>1, <1>2, <1>3, <1>4, <1>5, <1>6, <1>7, <1>8, <1>9, <1>10, <1>11,
     <1>12, <1>13 DEF Next, RunStep

(* A connection is a thread, a refusal or still being counted. *)
LEMMA ArrivalStep == ServerInv /\ [Next]_vars => ArrivalInv'
<1> SUFFICES ASSUME ServerInv, [Next]_vars PROVE ArrivalInv'
  OBVIOUS
<1>0. TypeOK /\ Len(threads) \in Nat /\ arrivals \in Nat /\ ArrivalInv
  BY MaxArrivalsAssumption DEF ServerInv, TypeOK
<1>1. CASE AcceptConnection
  BY <1>0, <1>1 DEF AcceptConnection, ArrivalInv, TypeOK
<1>2. ASSUME NEW i \in Indices, NEW how \in Finished, ClientEnds(i, how)
      PROVE ArrivalInv'
  BY <1>0, <1>2, EndShrinks DEF ClientEnds, ArrivalInv, admission
<1>3. CASE CountNext
  BY <1>0, <1>3 DEF CountNext, ArrivalInv, admission
<1>4. CASE Admit
  BY <1>4 DEF Admit, AfterAdmission, ArrivalInv
<1>5. CASE CheckInterrupted
  BY <1>5 DEF CheckInterrupted, ArrivalInv
<1>6. CASE Interrupt \/ UNCHANGED vars \/ JoinNext
  BY <1>0, <1>6 DEF Interrupt, JoinNext, ArrivalInv, vars, admission
<1>7. CASE Refuse \/ LoopThrows \/ JoinRethrows \/ Return \/ Unwind
  BY <1>7 DEF Refuse, LoopThrows, JoinRethrows, Return, Unwind, ArrivalInv
<1> QED
  BY <1>1, <1>2, <1>3, <1>4, <1>5, <1>6, <1>7 DEF Next, RunStep

(* The count says of the clients what CountInv says it does, although they *)
(* end while they are being counted.                                       *)
LEMMA CountStep == ServerInv /\ [Next]_vars => CountInv'
<1> SUFFICES ASSUME ServerInv, [Next]_vars PROVE CountInv'
  OBVIOUS
<1>0. /\ TypeOK /\ CountInv
      /\ Len(threads) \in Nat /\ next \in Nat /\ working_count \in Nat
      /\ running_at_accept \in Nat
  BY MaxArrivalsAssumption DEF ServerInv, TypeOK
<1>c. /\ Cardinality(Running) \in Nat /\ Cardinality(LookedAt) \in Nat
      /\ Cardinality(ToCome) \in Nat
  BY <1>0, FiniteRunning
<1>1. CASE AcceptConnection
  <2>1. /\ pc' = "count" /\ next' = 1 /\ working_count' = 0 /\ threads' = threads
        /\ running_at_accept' = Cardinality(Running)
    BY <1>1 DEF AcceptConnection, FreshCount
  <2>2. Running' = Running
    BY <2>1 DEF Running, Indices
  <2>3. \A i \in Running : i \in Nat /\ i >= 1
    BY <1>0 DEF Running, Indices
  <2>4. LookedAt' = {}
    BY <2>1, <2>2, <2>3 DEF LookedAt
  <2>5. ToCome' = Running
    BY <2>1, <2>2, <2>3 DEF ToCome
  <2>6. Cardinality(LookedAt') = 0 /\ Cardinality(ToCome') = Cardinality(Running)
    BY <2>4, <2>5, FS_EmptySet
  <2> QED
    BY <1>0, <1>c, <2>1, <2>6 DEF CountInv
<1>2. CASE CountNext
  <2>1. CASE next <= Len(threads)
    <3>1. next \in Indices /\ pc = "count"
      BY <1>0, <1>2, <2>1 DEF Indices, CountNext, TypeOK
    <3>2. /\ pc' = "count" /\ next' = next + 1 /\ threads' = threads
          /\ running_at_accept' = running_at_accept
          /\ working_count' = working_count + CountWorking(next)
      BY <1>2, <2>1, <3>1 DEF CountNext, admission
    <3>3. CASE threads[next] = "running"
      <4>1. working_count' = working_count + 1
        BY <3>2, <3>3 DEF CountWorking
      <4>2. /\ Cardinality(LookedAt') = Cardinality(LookedAt) + 1
            /\ Cardinality(ToCome') = Cardinality(ToCome) - 1
        BY <1>0, <1>2, <3>1, <3>3, LookMoves
      <4> QED
        BY <1>0, <1>c, <2>1, <3>1, <3>2, <4>1, <4>2 DEF CountInv
    <3>4. CASE threads[next] # "running"
      <4>1. working_count' = working_count
        BY <1>0, <3>2, <3>4 DEF CountWorking
      <4>2. LookedAt' = LookedAt /\ ToCome' = ToCome
        BY <1>0, <1>2, <3>1, <3>4, LookMoves
      <4>3. /\ Cardinality(LookedAt') = Cardinality(LookedAt)
            /\ Cardinality(ToCome') = Cardinality(ToCome)
        BY <4>2
      <4> QED
        BY <1>0, <1>c, <2>1, <3>1, <3>2, <4>1, <4>3 DEF CountInv
    <3> QED
      BY <3>3, <3>4
  <2>2. CASE ~(next <= Len(threads))
    <3>1. /\ pc = "count" /\ pc' = "decide" /\ threads' = threads
          /\ working_count' = working_count /\ running_at_accept' = running_at_accept
      BY <1>2, <2>2 DEF CountNext, admission
    <3>2. Running' = Running
      BY <3>1 DEF Running, Indices
    <3>3. LookedAt = Running
      BY <1>0, <2>2 DEF LookedAt, Running, Indices
    <3>4. Cardinality(LookedAt) <= working_count
          /\ working_count + Cardinality(ToCome) <= running_at_accept
      BY <1>0, <3>1 DEF CountInv
    <3>5. working_count <= running_at_accept
      BY <1>0, <1>c, <3>4
    <3>6. Cardinality(Running') <= working_count'
      BY <3>1, <3>2, <3>3, <3>4
    <3> QED
      BY <3>1, <3>5, <3>6 DEF CountInv
  <2> QED
    BY <2>1, <2>2
<1>3. ASSUME NEW i \in Indices, NEW how \in Finished, ClientEnds(i, how)
      PROVE CountInv'
  <2>1. /\ pc' = pc /\ next' = next /\ working_count' = working_count
        /\ running_at_accept' = running_at_accept
    BY <1>3 DEF ClientEnds, admission
  <2>2. /\ Len(threads') = Len(threads)
        /\ Cardinality(Running') <= Cardinality(Running)
        /\ Cardinality(LookedAt') <= Cardinality(LookedAt)
        /\ Cardinality(ToCome') <= Cardinality(ToCome)
    BY <1>0, <1>3, EndShrinks
  <2>3. /\ Cardinality(Running') \in Nat /\ Cardinality(LookedAt') \in Nat
        /\ Cardinality(ToCome') \in Nat
    BY <1>0, <1>3, EndShrinks, FiniteRunning, FS_Subset, FS_CardinalityType
  <2> QED
    BY <1>0, <1>c, <2>1, <2>2, <2>3 DEF CountInv
<1>4. CASE Interrupt \/ UNCHANGED vars
  <2>1. /\ pc' = pc /\ next' = next /\ working_count' = working_count
        /\ running_at_accept' = running_at_accept /\ threads' = threads
    BY <1>4 DEF Interrupt, vars, admission
  <2>2. Running' = Running /\ LookedAt' = LookedAt /\ ToCome' = ToCome
    BY <2>1 DEF Running, Indices, LookedAt, ToCome
  <2>3. /\ Cardinality(Running') = Cardinality(Running)
        /\ Cardinality(LookedAt') = Cardinality(LookedAt)
        /\ Cardinality(ToCome') = Cardinality(ToCome)
    BY <2>2
  <2> QED
    BY <1>0, <2>1, <2>3 DEF CountInv
<1>5. CASE CheckInterrupted \/ Refuse \/ Admit \/ LoopThrows
  BY <1>5 DEF CheckInterrupted, Refuse, Admit, AfterAdmission, LoopThrows, CountInv
<1>6. CASE JoinNext \/ JoinRethrows \/ Return \/ Unwind
  BY <1>6 DEF JoinNext, JoinRethrows, Return, Unwind, CountInv
<1> QED
  BY <1>1, <1>2, <1>3, <1>4, <1>5, <1>6 DEF Next, RunStep

(* What has been joined stays ended. *)
LEMMA JoinStep == ServerInv /\ [Next]_vars => JoinInv'
<1> SUFFICES ASSUME ServerInv, [Next]_vars PROVE JoinInv'
  OBVIOUS
<1>0. TypeOK /\ JoinInv /\ Len(threads) \in Nat /\ next \in Nat
  BY DEF ServerInv, TypeOK
<1>1. ASSUME pc' = "join", next' = 1 PROVE JoinInv'
  <2>1. TypeOK'
    BY TypeStep
  <2>2. \A i \in Indices' : i \in Nat /\ ~(i < 1)
    BY <2>1 DEF Indices, TypeOK
  <2> QED
    BY <1>1, <2>2 DEF JoinInv
<1>2. CASE CheckInterrupted
  BY <1>1, <1>2 DEF CheckInterrupted, JoinInv
<1>3. CASE Admit
  BY <1>1, <1>3 DEF Admit, AfterAdmission, JoinInv
<1>4. CASE JoinNext
  <2>1. /\ threads' = threads /\ next' = next + 1 /\ pc = "join"
        /\ threads[next] # "running"
    BY <1>4 DEF JoinNext
  <2>2. Indices' = Indices /\ \A i \in Indices : i \in Nat
    BY <1>0, <2>1 DEF Indices
  <2>3. \A i \in Indices : i < next + 1 => i < next \/ i = next
    BY <1>0, <2>2
  <2> QED
    BY <1>0, <2>1, <2>2, <2>3 DEF JoinInv
<1>5. ASSUME NEW i \in Indices, NEW how \in Finished, ClientEnds(i, how)
      PROVE JoinInv'
  <2>1. Running' \subseteq Running /\ Indices' = Indices
    BY <1>0, <1>5, EndShrinks
  <2>2. \A j \in Indices : threads'[j] = "running" => threads[j] = "running"
    BY <2>1 DEF Running
  <2> QED
    BY <1>0, <1>5, <2>1, <2>2 DEF ClientEnds, JoinInv
<1>6. CASE Interrupt \/ UNCHANGED vars
  BY <1>0, <1>6 DEF Interrupt, vars, JoinInv, Indices
<1>7. CASE AcceptConnection \/ CountNext \/ Refuse \/ LoopThrows
  BY <1>7 DEF AcceptConnection, CountNext, Refuse, LoopThrows, JoinInv
<1>8. CASE JoinRethrows \/ Return \/ Unwind
  BY <1>8 DEF JoinRethrows, Return, Unwind, JoinInv
<1> QED
  BY <1>2, <1>3, <1>4, <1>5, <1>6, <1>7, <1>8 DEF Next, RunStep

(* With max_connections = 0 the second accept() is never reached.          *)
LEMMA SingleShotStep == ServerInv /\ [Next]_vars => SingleShotInv'
<1> SUFFICES ASSUME ServerInv, [Next]_vars, max_connections' = 0
             PROVE  /\ arrivals' <= 1
                    /\ pc' \in {"loop", "accept"} => arrivals' = 0
                    /\ pc' \in {"loop", "accept", "count", "decide"} => threads' = <<>>
  BY DEF SingleShotInv
<1>1. max_connections = 0
  BY DEF Next, RunStep, vars, admission, CheckInterrupted, AcceptConnection,
         CountNext, Refuse, Admit, LoopThrows, JoinNext, JoinRethrows, Return,
         Unwind, Interrupt, ClientEnds
<1>2. /\ TypeOK /\ arrivals \in Nat /\ Len(threads) \in Nat
      /\ arrivals <= 1
      /\ pc \in {"loop", "accept"} => arrivals = 0
      /\ pc \in {"loop", "accept", "count", "decide"} => threads = <<>>
  BY <1>1, MaxArrivalsAssumption DEF ServerInv, TypeOK, SingleShotInv
<1>3. CASE CheckInterrupted
  BY <1>2, <1>3 DEF CheckInterrupted, admission
<1>4. CASE AcceptConnection
  BY <1>2, <1>4 DEF AcceptConnection
<1>5. CASE CountNext
  BY <1>2, <1>5 DEF CountNext, admission
<1>6. CASE Refuse
  <2>1. working_count = 0
    BY <1>2, <1>6 DEF Refuse, TypeOK
  <2> QED
    BY <1>1, <1>6, <2>1 DEF Refuse, Limit
<1>7. CASE Admit
  BY <1>1, <1>2, <1>7 DEF Admit, AfterAdmission, admission
<1>8. CASE LoopThrows \/ JoinNext \/ JoinRethrows \/ Return \/ Unwind
  BY <1>2, <1>8 DEF LoopThrows, JoinNext, JoinRethrows, Return, Unwind, admission
<1>9. CASE Interrupt \/ UNCHANGED vars
  BY <1>2, <1>9 DEF Interrupt, vars, admission
<1>10. ASSUME NEW i \in Indices, NEW how \in Finished, ClientEnds(i, how)
       PROVE  /\ arrivals' = arrivals /\ pc' = pc
              /\ pc \notin {"loop", "accept", "count", "decide"}
  <2>1. threads # <<>>
    BY <1>10 DEF Indices
  <2> QED
    BY <1>2, <1>10, <2>1 DEF ClientEnds, admission
<1> QED
  BY <1>2, <1>3, <1>4, <1>5, <1>6, <1>7, <1>8, <1>9, <1>10 DEF Next, RunStep

(* After an interrupt only the accept() already entered can return.        *)
LEMMA LateStep == ServerInv /\ [Next]_vars => LateInv'
<1> SUFFICES ASSUME ServerInv, [Next]_vars PROVE LateInv'
  OBVIOUS
<1>0. LateInv /\ late \in Nat /\ interrupted \in BOOLEAN
  BY MaxArrivalsAssumption DEF ServerInv, TypeOK
<1>1. CASE AcceptConnection
  <2>1. late = 0
    BY <1>0, <1>1 DEF LateInv, AcceptConnection
  <2>2. CASE interrupted
    BY <1>1, <2>1, <2>2 DEF AcceptConnection, LateInv
  <2>3. CASE ~interrupted
    BY <1>1, <2>1, <2>3 DEF AcceptConnection, LateInv
  <2> QED
    BY <2>2, <2>3
<1>2. CASE CheckInterrupted
  BY <1>0, <1>2 DEF CheckInterrupted, MayContinue, LateInv, admission
<1>3. CASE CountNext \/ Refuse \/ Admit \/ LoopThrows
  BY <1>0, <1>3 DEF CountNext, Refuse, Admit, AfterAdmission, LoopThrows,
                    LateInv, admission
<1>4. CASE JoinNext \/ JoinRethrows \/ Return \/ Unwind
  BY <1>0, <1>4 DEF JoinNext, JoinRethrows, Return, Unwind, LateInv, admission
<1>5. CASE Interrupt \/ UNCHANGED vars
  BY <1>0, <1>5 DEF Interrupt, LateInv, vars, admission
<1>6. ASSUME NEW i \in Indices, NEW how \in Finished, ClientEnds(i, how)
      PROVE LateInv'
  BY <1>0, <1>6 DEF ClientEnds, LateInv, admission
<1> QED
  BY <1>1, <1>2, <1>3, <1>4, <1>5, <1>6 DEF Next, RunStep

(* A thread is started only while fewer than Slots of them run.            *)
LEMMA SlotsStep == ServerInv /\ [Next]_vars => SlotsRespected'
<1> SUFFICES ASSUME ServerInv, [Next]_vars PROVE SlotsRespected'
  OBVIOUS
<1>0. /\ TypeOK /\ SlotsRespected /\ max_connections \in Nat
      /\ Len(threads) \in Nat /\ working_count \in Nat
  BY MaxConnectionsAssumption DEF ServerInv, TypeOK
<1>1. Slots' = Slots /\ Slots \in Nat /\ Limit = Slots
  <2>1. max_connections' = max_connections
    BY DEF Next, RunStep, vars, admission, CheckInterrupted, AcceptConnection,
           CountNext, Refuse, Admit, LoopThrows, JoinNext, JoinRethrows, Return,
           Unwind, Interrupt, ClientEnds
  <2> QED
    BY <1>0, <2>1 DEF Slots, Limit
<1>2. CASE Admit
  <2>1. /\ threads' = Append(threads, "running")
        /\ threads \in Seq(ThreadStates) /\ "running" \in ThreadStates
    BY <1>0, <1>2 DEF Admit, TypeOK, ThreadStates
  <2>2. Running' = Running \cup {Len(threads) + 1} /\ Len(threads) + 1 \notin Running
    <3>1. Len(threads') = Len(threads) + 1
      BY <2>1
    <3>2. \A j \in Indices : threads'[j] = threads[j] /\ j <= Len(threads)
      BY <1>0, <2>1 DEF Indices
    <3>3. threads'[Len(threads) + 1] = "running"
      BY <1>0, <2>1
    <3>4. Indices' = Indices \cup {Len(threads) + 1}
      BY <1>0, <3>1 DEF Indices
    <3>5. Len(threads) + 1 \notin Indices
      BY <1>0 DEF Indices
    <3> QED
      BY <3>2, <3>3, <3>4, <3>5 DEF Running
  <2>3. Cardinality(Running') = Cardinality(Running) + 1
    BY <1>0, <2>2, FiniteRunning, FS_AddElement
  <2>4. Cardinality(Running) <= working_count /\ working_count < Slots
    BY <1>1, <1>2 DEF ServerInv, CountInv, Admit
  <2>5. Cardinality(Running) \in Nat
    BY <1>0, FiniteRunning
  <2> QED
    BY <1>0, <1>1, <2>3, <2>4, <2>5 DEF SlotsRespected
<1>3. ASSUME NEW i \in Indices, NEW how \in Finished, ClientEnds(i, how)
      PROVE SlotsRespected'
  <2>1. /\ Cardinality(Running') <= Cardinality(Running)
        /\ Running' \subseteq Running
    BY <1>0, <1>3, EndShrinks
  <2>2. Cardinality(Running) \in Nat /\ Cardinality(Running') \in Nat
    BY <1>0, <2>1, FiniteRunning, FS_Subset, FS_CardinalityType
  <2> QED
    BY <1>0, <1>1, <2>1, <2>2 DEF SlotsRespected
<1>4. ASSUME threads' = threads PROVE SlotsRespected'
  <2>1. Running' = Running
    BY <1>4 DEF Running, Indices
  <2> QED
    BY <1>0, <1>1, <2>1 DEF SlotsRespected
<1>5. CASE CheckInterrupted \/ AcceptConnection \/ CountNext \/ Refuse \/ LoopThrows
  BY <1>4, <1>5 DEF CheckInterrupted, AcceptConnection, CountNext, Refuse, LoopThrows
<1>6. CASE JoinNext \/ JoinRethrows \/ Return \/ Unwind
  BY <1>4, <1>6 DEF JoinNext, JoinRethrows, Return, Unwind
<1>7. CASE Interrupt \/ UNCHANGED vars
  BY <1>4, <1>7 DEF Interrupt, vars
<1> QED
  BY <1>2, <1>3, <1>5, <1>6, <1>7 DEF Next, RunStep

(* run() returns or throws only when every client thread has ended.        *)
LEMMA NobodyLeftStep == ServerInv /\ [Next]_vars => NoClientLeftBehind'
<1> SUFFICES ASSUME ServerInv, [Next]_vars PROVE NoClientLeftBehind'
  OBVIOUS
<1>0. TypeOK /\ NoClientLeftBehind /\ JoinInv /\ next \in Nat /\ Len(threads) \in Nat
  BY DEF ServerInv, TypeOK
<1>1. CASE Return
  <2>1. pc = "join" /\ next > Len(threads) /\ threads' = threads
    BY <1>1 DEF Return
  <2>2. \A i \in Indices : i < next
    BY <1>0, <2>1 DEF Indices
  <2>3. Running = {}
    BY <1>0, <2>1, <2>2 DEF JoinInv, Running
  <2> QED
    BY <2>1, <2>3 DEF NoClientLeftBehind, Running, Indices
<1>2. CASE Unwind
  BY <1>2 DEF Unwind, NobodyRuns, NoClientLeftBehind, Running, Indices
<1>3. ASSUME NEW i \in Indices, NEW how \in Finished, ClientEnds(i, how)
      PROVE NoClientLeftBehind'
  BY <1>0, <1>3, EndShrinks DEF ClientEnds, NoClientLeftBehind
<1>4. CASE Interrupt \/ UNCHANGED vars
  BY <1>0, <1>4 DEF Interrupt, vars, NoClientLeftBehind, Running, Indices
<1>5. CASE CheckInterrupted \/ AcceptConnection \/ CountNext \/ Refuse \/ Admit
  BY <1>5 DEF CheckInterrupted, AcceptConnection, CountNext, Refuse, Admit,
              AfterAdmission, NoClientLeftBehind
<1>6. CASE LoopThrows \/ JoinNext \/ JoinRethrows
  BY <1>6 DEF LoopThrows, JoinNext, JoinRethrows, NoClientLeftBehind
<1> QED
  BY <1>1, <1>2, <1>3, <1>4, <1>5, <1>6 DEF Next, RunStep

(* The invariant holds whatever connects, ends, interrupts or throws.      *)
THEOREM ServerInvariance == Spec => []ServerInv
<1>1. ServerInv /\ [Next]_vars => ServerInv'
  BY TypeStep, ArrivalStep, CountStep, JoinStep, SingleShotStep, LateStep,
     SlotsStep, NobodyLeftStep DEF ServerInv
<1> QED
  BY InvInit, <1>1, PTL DEF Spec

(* Every variable of the server keeps its type (server.cpp:47-110). *)
THEOREM ServerTypeCorrect == Spec => []TypeOK
<1>1. ServerInv => TypeOK
  BY DEF ServerInv
<1> QED
  BY ServerInvariance, <1>1, PTL

(* Never more clients at a time than the constructor was given, although   *)
(* the count is of no single moment (server.cpp:57-75), and a server made  *)
(* to serve one connection accepts one (server.cpp:77-79).                 *)
THEOREM LimitRespectedTheorem == Spec => []LimitRespected
<1>1. ServerInv => LimitRespected
  BY DEF ServerInv, SingleShotInv, SingleShot, LimitRespected
<1> QED
  BY ServerInvariance, <1>1, PTL

(* "try_again" is told only to somebody who came when the server was full  *)
(* (server.cpp:57-65).                                                     *)
THEOREM RefusedOnlyWhenFullTheorem == Spec => []RefusedOnlyWhenFull
<1>1. ServerInv => RefusedOnlyWhenFull
  <2> SUFFICES ASSUME ServerInv, pc = "decide", working_count >= Limit
               PROVE running_at_accept >= Slots
    BY DEF RefusedOnlyWhenFull
  <2>1. /\ max_connections \in Nat /\ working_count \in Nat
        /\ running_at_accept \in Nat /\ working_count <= running_at_accept
    BY MaxConnectionsAssumption, MaxArrivalsAssumption
       DEF ServerInv, TypeOK, CountInv
  <2>2. Limit = Slots /\ Slots \in Nat
    BY <2>1 DEF Limit, Slots
  <2> QED
    BY <2>1, <2>2
<1> QED
  BY ServerInvariance, <1>1, PTL

(* No client thread outlives run() (server.cpp:50-51, 83-99).              *)
THEOREM NoClientLeftBehindTheorem == Spec => []NoClientLeftBehind
<1>1. ServerInv => NoClientLeftBehind
  BY DEF ServerInv
<1> QED
  BY ServerInvariance, <1>1, PTL

(* interrupt() lets at most the one connection through that run() already  *)
(* waits for (server.cpp:53-55, 108-110).                                  *)
THEOREM OneLateConnectionTheorem == Spec => []OneLateConnection
<1>1. ServerInv => OneLateConnection
  BY DEF ServerInv, LateInv, OneLateConnection
<1> QED
  BY ServerInvariance, <1>1, PTL
=============================================================================
