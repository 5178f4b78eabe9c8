--------------------------- MODULE SubclientProofs ---------------------------
(***************************************************************************)
(* Theorems about module Subclient, for any threads, call chains, samples  *)
(* and bounds.                                                             *)
(***************************************************************************)
EXTENDS Subclient, SequenceTheorems, FiniteSetTheorems, WellFoundedInduction, TLAPS

(* Of the two parts of a subclient's data a step changes one.               *)
LEMMA SubclientSimulates == SubclientSpec => FlameSpec /\ TreeSpec
<1>1. SubclientInit => FlameInit /\ TreeInit
  BY DEF SubclientInit
<1>2. [SubclientNext]_<<script, flameVars, treeVars>>
        => [FlameNext]_flameVars /\ [TreeNext]_treeVars
  BY DEF SubclientNext, HandleSample, HandleThreadEvent
<1> QED BY <1>1, <1>2, PTL DEF SubclientSpec, FlameSpec, TreeSpec

-----------------------------------------------------------------------------
(* The samples.                                                             *)

Samples == [tid : SampledThreads, callchain : Seq(STRING), offcpu : BOOLEAN, period : Int]
Regions == [timestamp : Int, period : Int]

SampleTypeOK ==
  /\ now \in Int /\ taken \in Int
  /\ busy \in [SampledThreads -> Int]
  /\ first_event_received \in BOOLEAN
  /\ flame_pc \in {"read", "merged", "ordered"}
  /\ sample \in Samples
  /\ callchain_index \in DOMAIN sample.callchain
  /\ total_period \in [SampledThreads -> Int]
  /\ offcpu_regions \in [SampledThreads -> Seq(Regions)]

LEMMA SingletonSeq ==
  ASSUME NEW S, NEW x \in S
  PROVE  <<x>> \in Seq(S) /\ 1 \in DOMAIN <<x>>
OBVIOUS

LEMMA SequenceGrows ==
  ASSUME NEW S, NEW T, NEW f \in [S -> Seq(T)], NEW s \in S, NEW x \in T
  PROVE  [f EXCEPT ![s] = Append(@, x)] \in [S -> Seq(T)]
OBVIOUS

(* What has been reported of a thread lies between the start and the end of *)
(* its latest sample.                                                      *)
Pending(t) == IF flame_pc # "read" /\ sample.tid = t THEN sample.period ELSE 0
TimeInv ==
  \A t \in SampledThreads :
    /\ total_period[t] >= 0 /\ Pending(t) >= 0
    /\ busy[t] < StartTime => total_period[t] + Pending(t) = 0
    /\ total_period[t] + Pending(t) > 0 => total_period[t] + Pending(t) <= busy[t] - StartTime
    /\ busy[t] > StartTime => busy[t] <= now

RegionInv ==
  \A t \in SampledThreads : \A k \in DOMAIN offcpu_regions[t] :
    offcpu_regions[t][k].timestamp >= StartTime

(* Type correctness of the sample at hand, and the times it may have: those *)
(* of profilers are unsigned, so none may lie before the start.            *)
LEMMA SampleInvariance == FlameSpec => [](SampleTypeOK /\ TimeInv /\ RegionInv)
<1> USE SampledThreadsAssumption, TimeAssumption, ChainsAssumption, JustThreadAssumption
<1>1. ASSUME FlameInit PROVE SampleTypeOK /\ TimeInv /\ RegionInv
  <2>1. <<JustThread>> \in Seq(STRING) /\ 1 \in DOMAIN <<JustThread>>
    BY SingletonSeq
  <2>2. SampleTypeOK
    <3>1. NoSample \in Samples
      BY <2>1 DEF NoSample, Samples
    <3>2. 1 \in DOMAIN NoSample.callchain
      BY <2>1 DEF NoSample
    <3>3. offcpu_regions \in [SampledThreads -> Seq(Regions)]
      BY <1>1 DEF FlameInit
    <3>4. sample = NoSample /\ callchain_index = 1
      BY <1>1 DEF FlameInit
    <3>5. /\ now \in Int /\ taken \in Int /\ busy \in [SampledThreads -> Int]
          /\ first_event_received \in BOOLEAN
          /\ flame_pc \in {"read", "merged", "ordered"}
          /\ total_period \in [SampledThreads -> Int]
      <4>1. busy = [t \in SampledThreads |-> IF t = MainThread THEN 0 ELSE StartTime]
        BY <1>1 DEF FlameInit
      <4>2. busy \in [SampledThreads -> Int]
        BY <4>1
      <4>3. /\ now = 0 /\ taken = 0 /\ first_event_received = FALSE /\ flame_pc = "read"
            /\ total_period = [t \in SampledThreads |-> 0]
        BY <1>1 DEF FlameInit
      <4>4. total_period \in [SampledThreads -> Int]
        BY <4>3
      <4> QED BY <4>2, <4>3, <4>4
    <3> QED BY <3>1, <3>2, <3>3, <3>4, <3>5 DEF SampleTypeOK
  <2>3. TimeInv /\ RegionInv
    BY <1>1 DEF FlameInit, TimeInv, RegionInv, Pending
  <2> QED BY <2>2, <2>3
<1>2. SampleTypeOK /\ TimeInv /\ RegionInv /\ [FlameNext]_flameVars
        => SampleTypeOK' /\ TimeInv' /\ RegionInv'
  <2> SUFFICES ASSUME SampleTypeOK, TimeInv, RegionInv, [FlameNext]_flameVars
               PROVE  SampleTypeOK' /\ TimeInv' /\ RegionInv'
    OBVIOUS
  <2>1. ASSUME NEW tid \in SampledThreads, NEW time \in StartTime..MaxTime,
               NEW reported \in 1..MaxTime, NEW offcpu \in BOOLEAN, NEW chain \in Chains,
               ReadSample(tid, time, reported, offcpu, chain)
        PROVE  SampleTypeOK' /\ TimeInv' /\ RegionInv'
    <3> DEFINE period == Clamp(time, reported)
               region == [timestamp |-> time - period, period |-> period]
    <3>1. /\ period \in Int /\ period > 0 /\ time - period >= StartTime
          /\ time > StartTime /\ time >= now
          /\ busy[tid] >= StartTime => time - period >= busy[tid]
      BY <2>1 DEF ReadSample, Reported, Clamp, SampleTypeOK
    <3>2. CallChain(chain) \in Seq(STRING) /\ 1 \in DOMAIN CallChain(chain)
      <4>1. chain \in Seq(STRING)
        OBVIOUS
      <4>2. chain # <<>> => 1 \in DOMAIN chain
        BY <4>1
      <4>3. <<JustThread>> \in Seq(STRING) /\ 1 \in DOMAIN <<JustThread>>
        BY SingletonSeq
      <4> QED BY <4>1, <4>2, <4>3 DEF CallChain
    <3>3. sample' = [tid |-> tid, callchain |-> CallChain(chain), offcpu |-> offcpu,
                     period |-> period]
      BY <2>1 DEF ReadSample
    <3>4. /\ now' = time /\ busy' = [busy EXCEPT ![tid] = time]
          /\ flame_pc = "read" /\ flame_pc' = "merged"
          /\ total_period' = total_period
          /\ callchain_index' = 1 /\ taken' = taken + 1 /\ first_event_received' = TRUE
      BY <2>1 DEF ReadSample, treeOfVars
    <3>5. offcpu_regions' = offcpu_regions \/
          offcpu_regions' = [offcpu_regions EXCEPT ![tid] = Append(@, region)]
      BY <2>1 DEF ReadSample
    <3> HIDE DEF period, region
    <3>6. SampleTypeOK'
      <4>1. region \in Regions
        BY <3>1 DEF region, Regions
      <4>2. offcpu_regions' \in [SampledThreads -> Seq(Regions)]
        <5>1. offcpu_regions \in [SampledThreads -> Seq(Regions)]
          BY DEF SampleTypeOK
        <5>2. [offcpu_regions EXCEPT ![tid] = Append(@, region)]
                 \in [SampledThreads -> Seq(Regions)]
          BY <4>1, <5>1, SequenceGrows
        <5> QED BY <3>5, <5>1, <5>2
      <4>3. sample' \in Samples
        BY <3>1, <3>2, <3>3 DEF Samples
      <4>4. callchain_index' \in DOMAIN sample'.callchain
        BY <3>2, <3>3, <3>4
      <4>5. /\ now' \in Int /\ taken' \in Int /\ busy' \in [SampledThreads -> Int]
            /\ first_event_received' \in BOOLEAN
            /\ flame_pc' \in {"read", "merged", "ordered"}
            /\ total_period' \in [SampledThreads -> Int]
        BY <3>4 DEF SampleTypeOK
      <4> QED BY <4>2, <4>3, <4>4, <4>5 DEF SampleTypeOK
    <3>7. TimeInv'
      <4> SUFFICES ASSUME NEW t \in SampledThreads
                   PROVE  /\ total_period'[t] >= 0 /\ Pending(t)' >= 0
                          /\ busy'[t] < StartTime => total_period'[t] + Pending(t)' = 0
                          /\ total_period'[t] + Pending(t)' > 0 =>
                               total_period'[t] + Pending(t)' <= busy'[t] - StartTime
                          /\ busy'[t] > StartTime => busy'[t] <= now'
        BY DEF TimeInv
      <4>1. /\ total_period[t] \in Int /\ busy[t] \in Int /\ Pending(t) = 0
            /\ total_period'[t] = total_period[t] /\ total_period[t] >= 0
            /\ busy[t] < StartTime => total_period[t] = 0
            /\ total_period[t] > 0 => total_period[t] <= busy[t] - StartTime
            /\ busy[t] > StartTime => busy[t] <= now
        <5>1. Pending(t) = 0
          BY <3>4 DEF Pending
        <5>2. /\ total_period[t] >= 0
              /\ busy[t] < StartTime => total_period[t] + Pending(t) = 0
              /\ total_period[t] + Pending(t) > 0
                   => total_period[t] + Pending(t) <= busy[t] - StartTime
              /\ busy[t] > StartTime => busy[t] <= now
          BY DEF TimeInv
        <5>3. total_period[t] \in Int /\ busy[t] \in Int
          BY DEF SampleTypeOK
        <5> QED BY <3>4, <5>1, <5>2, <5>3
      <4>2. CASE t = tid
        <5>1. Pending(t)' = period /\ busy'[t] = time
          BY <3>3, <3>4, <4>2 DEF Pending, SampleTypeOK
        <5> QED BY <3>1, <3>4, <4>1, <4>2, <5>1
      <4>3. CASE t # tid
        <5>1. Pending(t)' = 0 /\ busy'[t] = busy[t]
          BY <3>3, <3>4, <4>3 DEF Pending, SampleTypeOK
        <5>2. now \in Int /\ time \in Int
          BY DEF SampleTypeOK
        <5> QED BY <3>1, <3>4, <4>1, <5>1, <5>2
      <4> QED BY <4>2, <4>3
    <3>8. RegionInv'
      <4> SUFFICES ASSUME NEW t \in SampledThreads, NEW k \in DOMAIN offcpu_regions'[t]
                   PROVE  offcpu_regions'[t][k].timestamp >= StartTime
        BY DEF RegionInv
      <4>1. CASE offcpu_regions'[t] = offcpu_regions[t]
        BY <4>1 DEF RegionInv
      <4>2. CASE t = tid /\ offcpu_regions'[t] = Append(offcpu_regions[t], region)
        <5>1. /\ offcpu_regions[t] \in Seq(Regions)
              /\ region.timestamp >= StartTime
          BY <3>1 DEF SampleTypeOK, region
        <5>2. CASE k \in DOMAIN offcpu_regions[t]
          BY <4>2, <5>1, <5>2 DEF RegionInv
        <5>3. CASE k = Len(offcpu_regions[t]) + 1
          BY <4>2, <5>1, <5>3
        <5> QED BY <4>2, <5>1, <5>2, <5>3
      <4> QED BY <3>5, <4>1, <4>2 DEF SampleTypeOK
    <3> QED BY <3>6, <3>7, <3>8
  <2>2. CASE RecurseMerged
    <3>1. SampleTypeOK'
      BY <2>2 DEF RecurseMerged, Descend, LastBlock, SampleTypeOK, Samples, sampleVars, envVars
    <3>2. TimeInv' /\ RegionInv'
      BY <2>2 DEF RecurseMerged, TimeInv, RegionInv, Pending, SampleTypeOK, Samples, sampleVars, envVars
    <3> QED BY <3>1, <3>2
  <2>3. CASE RecurseOrdered
    <3>1. SampleTypeOK'
      BY <2>3 DEF RecurseOrdered, Descend, LastBlock, SampleTypeOK, Samples, sampleVars, envVars
    <3>2. TimeInv'
      BY <2>3 DEF RecurseOrdered, TimeInv, Pending, SampleTypeOK, Samples, sampleVars, envVars
    <3>3. RegionInv'
      BY <2>3 DEF RecurseOrdered, RegionInv
    <3> QED BY <3>1, <3>2, <3>3
  <2>4. CASE UNCHANGED flameVars
    BY <2>4 DEF flameVars, envVars, sampleVars, treeOfVars, SampleTypeOK, TimeInv,
                RegionInv, Pending
  <2> QED BY <2>1, <2>2, <2>3, <2>4 DEF FlameNext
<1> QED BY <1>1, <1>2, PTL DEF FlameSpec

(* NothingBeforeStart holds of every stream perf can send: the first event  *)
(* is cut at the start of profiling, no other can reach back beyond it, so *)
(* the unsigned subtractions of subclient.cpp:300 and client.cpp:170 do    *)
(* not wrap around.                                                        *)
THEOREM NothingBeforeStartTheorem == SubclientSpec => []NothingBeforeStart
<1>1. SampleTypeOK /\ TimeInv /\ RegionInv => NothingBeforeStart
  <2> SUFFICES ASSUME SampleTypeOK, TimeInv, RegionInv, NEW t \in SampledThreads,
                      total_period[t] > 0
               PROVE  total_period[t] <= now - StartTime
    BY DEF RegionInv, NothingBeforeStart
  <2>1. /\ Pending(t) \in Int /\ Pending(t) >= 0 /\ busy[t] \in Int /\ now \in Int
        /\ total_period[t] \in Int
    BY DEF SampleTypeOK, Samples, TimeInv, Pending
  <2>2. /\ total_period[t] + Pending(t) <= busy[t] - StartTime
        /\ busy[t] > StartTime => busy[t] <= now
    BY <2>1 DEF TimeInv
  <2> QED BY <2>1, <2>2, TimeAssumption
<1> QED BY <1>1, SubclientSimulates, SampleInvariance, PTL

-----------------------------------------------------------------------------
(* The merged tree.                                                         *)

Names == STRING \cup {"all"}
Elements == [up : Nat, name : Names, value : Int, cold : BOOLEAN]

(* A tree has one root, and an element is created after the one above it.    *)
Rooted(flame) ==
  /\ flame \in Seq(Elements) /\ 1 \in DOMAIN flame /\ flame[1].up = 0
  /\ \A i \in DOMAIN flame : i > 1 => flame[i].up \in 1..(i - 1)

Twins(flame, i, j) == i # j /\ flame[i].up = flame[j].up /\ flame[i].name = flame[j].name
Unique(flame) ==
  \A i, j \in DOMAIN flame : Twins(flame, i, j) => flame[i].cold # flame[j].cold

(* An on-CPU sample is led through a cold element only if it has no hot     *)
(* twin, so the element can be made hot.                                   *)
Passable(flame, e) ==
  /\ e \in DOMAIN flame
  /\ ~sample.offcpu /\ flame[e].cold => \A j \in DOMAIN flame : Twins(flame, e, j) => flame[j].cold

TreesInv ==
  /\ DOMAIN output = SampledThreads
  /\ \A t \in SampledThreads : Rooted(output[t]) /\ Unique(output[t])
DescentInv == flame_pc = "merged" => Passable(output[sample.tid], cur_elem)

LEMMA ElementMade ==
  ASSUME NEW up \in Nat, NEW name \in Names, NEW cold \in BOOLEAN
  PROVE  /\ Element(up, name, cold) \in Elements /\ Element(up, name, cold).up = up
         /\ Element(up, name, cold).name = name /\ Element(up, name, cold).cold = cold
BY DEF Element, Elements

LEMMA ColdIsBoolean ==
  ASSUME NEW flame \in Seq(Elements), NEW i \in DOMAIN flame
  PROVE  flame[i].cold \in BOOLEAN
<1>1. flame[i] \in Elements
  OBVIOUS
<1> QED BY <1>1, Zenon DEF Elements

(* What a call of recurse leaves of the elements there were. *)
Cooled(flame, i) == IF i = cur_elem /\ ~sample.offcpu THEN FALSE ELSE flame[i].cold
Kept(flame, grown) ==
  \A i \in DOMAIN flame : /\ grown[i].up = flame[i].up /\ grown[i].name = flame[i].name
                         /\ grown[i].cold = Cooled(flame, i)

LEMMA ElementUpdates ==
  ASSUME NEW e \in Elements, NEW c \in BOOLEAN, NEW v \in Int
  PROVE  LET hot == [e EXCEPT !.cold = c]
             paid == [e EXCEPT !.value = @ + v]
         IN  /\ hot \in Elements /\ hot.up = e.up /\ hot.name = e.name /\ hot.cold = c
             /\ paid \in Elements /\ paid.up = e.up /\ paid.name = e.name
             /\ paid.cold = e.cold
BY DEF Elements

LEMMA WarmedKeeps ==
  ASSUME NEW flame, Rooted(flame), cur_elem \in DOMAIN flame
  PROVE  /\ Warmed(flame) \in Seq(Elements) /\ Len(Warmed(flame)) = Len(flame)
         /\ Kept(flame, Warmed(flame))
<1> DEFINE hot == [flame[cur_elem] EXCEPT !.cold = FALSE]
<1>1. /\ flame[cur_elem] \in Elements
      /\ hot \in Elements /\ hot.up = flame[cur_elem].up /\ hot.name = flame[cur_elem].name
      /\ hot.cold = FALSE
  <2>1. flame[cur_elem] \in Elements
    BY DEF Rooted
  <2>2. FALSE \in BOOLEAN /\ 0 \in Int
    OBVIOUS
  <2> QED BY <2>1, <2>2, ElementUpdates, Zenon
<1>2. [flame EXCEPT ![cur_elem].cold = FALSE] = [flame EXCEPT ![cur_elem] = hot]
  OBVIOUS
<1> HIDE DEF hot
<1>3. CASE ~sample.offcpu
  <2>1. Warmed(flame) = [flame EXCEPT ![cur_elem] = hot]
    BY <1>2, <1>3 DEF Warmed
  <2>2. /\ [flame EXCEPT ![cur_elem] = hot] \in Seq(Elements)
        /\ Len([flame EXCEPT ![cur_elem] = hot]) = Len(flame)
    BY <1>1, ExceptSeq DEF Rooted
  <2> QED BY <1>1, <1>3, <2>1, <2>2 DEF Rooted, Kept, Cooled
<1>4. CASE sample.offcpu
  BY <1>4 DEF Warmed, Rooted, Kept, Cooled
<1> QED BY <1>3, <1>4

(* The value of an element is nobody's business but its own.                *)
LEMMA CreditKeeps ==
  ASSUME NEW flame \in Seq(Elements), NEW target \in DOMAIN flame, sample.period \in Int
  PROVE  /\ Credit(flame, target) \in Seq(Elements) /\ Len(Credit(flame, target)) = Len(flame)
         /\ \A i \in DOMAIN flame :
              /\ Credit(flame, target)[i].up = flame[i].up
              /\ Credit(flame, target)[i].name = flame[i].name
              /\ Credit(flame, target)[i].cold = flame[i].cold
<1> DEFINE paid == [flame[target] EXCEPT !.value = @ + sample.period]
<1>1. /\ flame[target] \in Elements
      /\ paid \in Elements /\ paid.up = flame[target].up /\ paid.name = flame[target].name
      /\ paid.cold = flame[target].cold
  <2>1. flame[target] \in Elements
    OBVIOUS
  <2> QED BY <2>1, ElementUpdates, Zenon
<1>2. Credit(flame, target) = [flame EXCEPT ![target] = paid]
  BY DEF Credit
<1> HIDE DEF paid
<1>3. /\ [flame EXCEPT ![target] = paid] \in Seq(Elements)
      /\ Len([flame EXCEPT ![target] = paid]) = Len(flame)
  BY <1>1, ExceptSeq
<1> QED BY <1>1, <1>2, <1>3

LEMMA GrownOld ==
  ASSUME NEW flame, Rooted(flame), cur_elem \in DOMAIN flame, SampleTypeOK,
         NEW target \in DOMAIN flame
  PROVE  /\ Grown(flame, target) \in Seq(Elements) /\ Len(Grown(flame, target)) = Len(flame)
         /\ Kept(flame, Grown(flame, target))
<1> DEFINE warm == Warmed(flame)
<1>1. warm \in Seq(Elements) /\ Len(warm) = Len(flame) /\ Kept(flame, warm)
  BY WarmedKeeps
<1>2. target \in DOMAIN warm /\ DOMAIN warm = DOMAIN flame
  BY <1>1 DEF Rooted
<1>3. WithElement(warm, target) = warm
  <2>1. ~(target > Len(warm))
    BY <1>1, <1>2
  <2> QED BY <2>1 DEF WithElement
<1>4. sample.period \in Int
  BY DEF SampleTypeOK, Samples
<1> HIDE DEF warm
<1>5. /\ Credit(warm, target) \in Seq(Elements) /\ Len(Credit(warm, target)) = Len(warm)
      /\ \A i \in DOMAIN warm :
           /\ Credit(warm, target)[i].up = warm[i].up
           /\ Credit(warm, target)[i].name = warm[i].name
           /\ Credit(warm, target)[i].cold = warm[i].cold
  BY <1>1, <1>2, <1>4, CreditKeeps
<1>6. Grown(flame, target) = Credit(warm, target)
  BY <1>3 DEF Grown, warm
<1> QED BY <1>1, <1>2, <1>5, <1>6 DEF Kept

LEMMA GrownNew ==
  ASSUME NEW flame, Rooted(flame), cur_elem \in DOMAIN flame, SampleTypeOK
  PROVE  LET new == Len(flame) + 1
             grown == Grown(flame, new)
         IN  /\ grown \in Seq(Elements) /\ Len(grown) = new
             /\ Kept(flame, grown)
             /\ grown[new].up = cur_elem /\ grown[new].name = Frame
             /\ grown[new].cold = sample.offcpu
<1> DEFINE warm == Warmed(flame)
           new == Len(flame) + 1
           elem == Element(cur_elem, Frame, sample.offcpu)
           more == Append(warm, elem)
<1>1. warm \in Seq(Elements) /\ Len(warm) = Len(flame) /\ Kept(flame, warm)
  BY WarmedKeeps
<1>2. Frame \in Names /\ sample.period \in Int /\ sample.offcpu \in BOOLEAN
  BY DEF SampleTypeOK, Samples, Frame, Names
<1>3. elem \in Elements /\ elem.up = cur_elem /\ elem.name = Frame /\ elem.cold = sample.offcpu
  BY <1>2 DEF Element, Elements, Rooted
<1>4. WithElement(warm, new) = more
  BY <1>1 DEF WithElement, Rooted
<1> HIDE DEF warm, elem
<1>5. /\ more \in Seq(Elements) /\ Len(more) = new /\ new \in DOMAIN more
      /\ more[new] = elem /\ \A i \in DOMAIN flame : more[i] = warm[i] /\ i \in DOMAIN more
  BY <1>1, <1>3 DEF Rooted
<1> HIDE DEF more
<1>6. /\ Credit(more, new) \in Seq(Elements) /\ Len(Credit(more, new)) = Len(more)
      /\ \A i \in DOMAIN more :
           /\ Credit(more, new)[i].up = more[i].up
           /\ Credit(more, new)[i].name = more[i].name
           /\ Credit(more, new)[i].cold = more[i].cold
  BY <1>2, <1>5, CreditKeeps
<1>7. Grown(flame, new) = Credit(more, new)
  BY <1>4 DEF Grown, warm
<1>8. Kept(flame, Credit(more, new))
  BY <1>1, <1>5, <1>6 DEF Kept
<1> QED BY <1>3, <1>5, <1>6, <1>7, <1>8

(* The two ways a call of recurse goes on.                                  *)
LEMMA OldTarget ==
  ASSUME NEW flame, Rooted(flame), Unique(flame), Passable(flame, cur_elem), SampleTypeOK,
         NEW target \in DOMAIN flame, target \in Preferred(Found(flame), flame)
  PROVE  LET grown == Grown(flame, target)
         IN  /\ Rooted(grown) /\ Unique(grown)
             /\ ~LastBlock => Passable(grown, target)
<1> DEFINE grown == Grown(flame, target)
<1>1. flame \in Seq(Elements) /\ cur_elem \in DOMAIN flame /\ sample.offcpu \in BOOLEAN
  BY DEF Rooted, Passable, SampleTypeOK, Samples
<1>2. grown \in Seq(Elements) /\ Len(grown) = Len(flame) /\ Kept(flame, grown)
  BY <1>1, GrownOld
<1> HIDE DEF grown
<1>3. DOMAIN grown = DOMAIN flame
  BY <1>1, <1>2
<1>4. Rooted(grown)
  BY <1>2, <1>3 DEF Rooted, Kept
<1>5. Unique(grown)
  <2> SUFFICES ASSUME NEW i \in DOMAIN flame, NEW j \in DOMAIN flame, Twins(flame, i, j)
               PROVE  Cooled(flame, i) # Cooled(flame, j)
    BY <1>2, <1>3 DEF Unique, Twins, Kept
  <2>1. flame[i].cold # flame[j].cold /\ i # j
    BY DEF Unique, Twins
  <2>2. Twins(flame, j, i)
    BY DEF Twins
  <2>3. flame[i].cold \in BOOLEAN /\ flame[j].cold \in BOOLEAN
    BY <1>1, ColdIsBoolean
  <2>4. CASE i = cur_elem
    BY <2>1, <2>3, <2>4 DEF Cooled, Passable
  <2>5. CASE j = cur_elem
    BY <2>1, <2>2, <2>3, <2>5 DEF Cooled, Passable
  <2> QED BY <2>1, <2>4, <2>5 DEF Cooled
<1>6. ASSUME ~LastBlock PROVE Passable(grown, target)
  <2>1. /\ target \in Found(flame) /\ flame[target].up = cur_elem
        /\ flame[target].name = Frame
    BY DEF Preferred, Latest, Found, Children
  <2>2. target # cur_elem
    BY <1>1, <2>1 DEF Rooted
  <2> SUFFICES ASSUME ~sample.offcpu, flame[target].cold,
                      NEW j \in DOMAIN flame, Twins(flame, target, j)
               PROVE  grown[j].cold
    BY <1>2, <1>3, <2>2 DEF Passable, Twins, Kept, Cooled
  <2>3. j \in Found(flame)
    BY <1>6, <2>1 DEF Found, Children, Twins
  <2>4. flame[j].cold
    <3> SUFFICES ASSUME ~flame[j].cold PROVE FALSE
      OBVIOUS
    <3>1. flame[j].cold \in BOOLEAN /\ flame[target].cold \in BOOLEAN
      BY <1>1, ColdIsBoolean
    <3>2. flame[j].cold = sample.offcpu /\ flame[target].cold # sample.offcpu
      BY <1>1, <3>1
    <3> QED BY <2>3, <3>2 DEF Preferred, Latest
  <2>5. j # cur_elem
    <3>1. flame[j].up = cur_elem
      BY <2>1 DEF Twins
    <3> QED BY <1>1, <3>1 DEF Rooted
  <2> QED BY <1>2, <2>4, <2>5 DEF Kept, Cooled
<1> QED BY <1>4, <1>5, <1>6 DEF grown

LEMMA NewTarget ==
  ASSUME NEW flame, Rooted(flame), Unique(flame), Passable(flame, cur_elem), SampleTypeOK,
         Found(flame) = {}
  PROVE  LET new == Len(flame) + 1
             grown == Grown(flame, new)
         IN  /\ Rooted(grown) /\ Unique(grown)
             /\ ~LastBlock => Passable(grown, new)
<1> DEFINE new == Len(flame) + 1
           grown == Grown(flame, new)
<1>1. /\ flame \in Seq(Elements) /\ cur_elem \in DOMAIN flame /\ sample.offcpu \in BOOLEAN
      /\ Len(flame) \in Nat
  BY DEF Rooted, Passable, SampleTypeOK, Samples
<1>2. /\ grown \in Seq(Elements) /\ Len(grown) = new /\ Kept(flame, grown)
      /\ grown[new].up = cur_elem /\ grown[new].name = Frame
      /\ grown[new].cold = sample.offcpu
  BY <1>1, GrownNew
<1> HIDE DEF grown
<1>3. DOMAIN grown = DOMAIN flame \cup {new} /\ new \notin DOMAIN flame
  BY <1>1, <1>2
<1>4. Rooted(grown)
  BY <1>1, <1>2, <1>3 DEF Rooted, Kept
<1>5. ASSUME NEW i \in DOMAIN flame, NEW j \in DOMAIN flame, Twins(flame, i, j)
      PROVE  Cooled(flame, i) # Cooled(flame, j)
  <2>1. flame[i].cold # flame[j].cold /\ i # j
    BY <1>5 DEF Unique, Twins
  <2>2. Twins(flame, j, i)
    BY <1>5 DEF Twins
  <2>3. flame[i].cold \in BOOLEAN /\ flame[j].cold \in BOOLEAN
    BY <1>1, ColdIsBoolean
  <2>4. CASE i = cur_elem
    BY <1>5, <2>1, <2>3, <2>4 DEF Cooled, Passable
  <2>5. CASE j = cur_elem
    BY <2>1, <2>2, <2>3, <2>5 DEF Cooled, Passable
  <2> QED BY <2>1, <2>4, <2>5 DEF Cooled
<1>6. ASSUME NEW i \in DOMAIN flame, Twins(grown, new, i)
      PROVE  LastBlock /\ grown[i].cold # grown[new].cold
  <2>1. i \in Children(flame, cur_elem) /\ flame[i].name = Frame /\ i # cur_elem
    BY <1>1, <1>2, <1>6 DEF Twins, Kept, Children, Rooted
  <2>2. LastBlock /\ flame[i].cold # sample.offcpu
    BY <2>1 DEF Found
  <2> QED BY <1>2, <2>1, <2>2 DEF Kept, Cooled
<1>7. Unique(grown)
  <2> SUFFICES ASSUME NEW i \in DOMAIN grown, NEW j \in DOMAIN grown, Twins(grown, i, j)
               PROVE  grown[i].cold # grown[j].cold
    BY DEF Unique
  <2>1. CASE i \in DOMAIN flame /\ j \in DOMAIN flame
    BY <1>2, <1>5, <2>1 DEF Twins, Kept
  <2>2. CASE i = new /\ j \in DOMAIN flame
    BY <1>6, <2>2
  <2>3. CASE j = new /\ i \in DOMAIN flame
    <3>1. Twins(grown, new, i)
      BY <2>3 DEF Twins
    <3> QED BY <1>6, <2>3, <3>1
  <2> QED BY <1>3, <2>1, <2>2, <2>3 DEF Twins
<1>8. ASSUME ~LastBlock PROVE Passable(grown, new)
  BY <1>2, <1>3, <1>8 DEF Passable
<1> QED BY <1>4, <1>7, <1>8 DEF grown

LEMMA TreeInvariance == FlameSpec => [](TreesInv /\ DescentInv)
<1>1. FlameInit => TreesInv /\ DescentInv
  <2>1. Rooted(All) /\ Unique(All)
    <3>1. All \in Seq(Elements) /\ DOMAIN All = {1} /\ All[1].up = 0
      <4>1. /\ TRUE \in BOOLEAN
            /\ 0 \in Nat
            /\ "all" \in Names
        <5>1. 0 \in Nat
          OBVIOUS
        <5>2. "all" \in Names
          BY DEF Names
        <5> QED BY <5>1, <5>2, Zenon
      <4>2. Element(0, "all", TRUE) \in Elements /\ Element(0, "all", TRUE).up = 0
        BY <4>1, ElementMade, Zenon
      <4>3. DOMAIN All = {1} /\ All[1] = Element(0, "all", TRUE)
        BY DEF All
      <4>4. All \in Seq(Elements)
        BY <4>2, SingletonSeq DEF All
      <4> QED BY <4>2, <4>3, <4>4
    <3> QED BY <3>1 DEF Rooted, Unique, Twins
  <2> QED BY <2>1 DEF FlameInit, TreesInv, DescentInv
<1>2. ASSUME SampleTypeOK, TreesInv, DescentInv, [FlameNext]_flameVars
      PROVE  TreesInv' /\ DescentInv'
  <2> USE <1>2
  <2>1. ASSUME NEW tid \in SampledThreads, NEW time \in StartTime..MaxTime,
               NEW reported \in 1..MaxTime, NEW offcpu \in BOOLEAN, NEW chain \in Chains,
               ReadSample(tid, time, reported, offcpu, chain)
        PROVE  TreesInv' /\ DescentInv'
    <3>1. output' = output /\ cur_elem' = 1 /\ sample'.tid = tid
      BY <2>1 DEF ReadSample, treeOfVars
    <3>2. /\ 1 \in DOMAIN output[tid]
          /\ \A j \in DOMAIN output[tid] : ~Twins(output[tid], 1, j)
      BY DEF TreesInv, Rooted, Twins
    <3>3. DescentInv'
      BY <3>1, <3>2 DEF DescentInv, Passable, Twins
    <3> QED BY <3>1, <3>3 DEF TreesInv
  <2>2. CASE RecurseMerged
    <3> DEFINE flame == output[sample.tid]
    <3>1. PICK target \in MergedTarget(flame) :
             /\ output' = [output EXCEPT ![sample.tid] = Grown(@, target)]
             /\ Descend(target)
      BY <2>2 DEF RecurseMerged
    <3>2. /\ sample.tid \in SampledThreads /\ sample' = sample /\ flame_pc = "merged"
          /\ flame_pc' = IF LastBlock THEN "ordered" ELSE "merged"
      BY <2>2 DEF RecurseMerged, SampleTypeOK, Samples, sampleVars
    <3>3. Rooted(flame) /\ Unique(flame) /\ Passable(flame, cur_elem)
      BY <3>2 DEF TreesInv, DescentInv
    <3>4. /\ Rooted(Grown(flame, target)) /\ Unique(Grown(flame, target))
          /\ ~LastBlock => Passable(Grown(flame, target), target)
      <4> HIDE DEF flame
      <4>1. CASE Found(flame) = {}
        <5>1. target = Len(flame) + 1
          BY <3>1, <4>1 DEF MergedTarget, NewElement
        <5> QED BY <3>3, <4>1, <5>1, NewTarget
      <4>2. CASE Found(flame) # {}
        <5>1. target \in Preferred(Found(flame), flame) /\ target \in DOMAIN flame
          BY <3>1, <4>2 DEF MergedTarget, Preferred, Latest, Found, Children
        <5> QED BY <3>3, <5>1, OldTarget
      <4> QED BY <4>1, <4>2
    <3> HIDE DEF flame
    <3>5. TreesInv'
      BY <3>1, <3>2, <3>4 DEF TreesInv, flame
    <3>6. DescentInv'
      <4>1. CASE LastBlock
        BY <3>2, <4>1 DEF DescentInv
      <4>2. CASE ~LastBlock
        <5>1. output'[sample.tid] = Grown(flame, target)
          BY <3>1, <3>2 DEF TreesInv, flame
        <5>2. cur_elem' = target
          BY <3>1, <4>2 DEF Descend
        <5> QED BY <3>2, <3>4, <4>2, <5>1, <5>2 DEF DescentInv, Passable, Twins
      <4> QED BY <4>1, <4>2
    <3> QED BY <3>5, <3>6
  <2>3. CASE RecurseOrdered
    BY <2>3 DEF RecurseOrdered, TreesInv, DescentInv
  <2>4. CASE UNCHANGED flameVars
    BY <2>4 DEF flameVars, sampleVars, treeOfVars, TreesInv, DescentInv, Passable, Twins
  <2> QED BY <2>1, <2>2, <2>3, <2>4 DEF FlameNext
<1> QED BY <1>1, <1>2, SampleInvariance, PTL DEF FlameSpec

(* HotColdUnique holds for any threads, call chains and order of samples:   *)
(* the look for an element in subclient.cpp:44-70 never finds two of the   *)
(* sample's kind.                                                          *)
THEOREM HotColdUniqueTheorem == SubclientSpec => []HotColdUnique
<1>1. TreesInv => HotColdUnique
  BY DEF TreesInv, Unique, Twins, HotColdUnique
<1> QED BY <1>1, SubclientSimulates, TreeInvariance, PTL

-----------------------------------------------------------------------------
(* The thread tree.                                                         *)

Entries == [time : Int, tid : Tids]

(* The list of threads that have been heard of and who their parents are: a *)
(* thread is in the list once, and so is its parent.                       *)
Noted(parents, list) ==
  /\ parents \in [Tids -> Tids \cup {Root, Unknown}]
  /\ list \in Seq(Entries)
  /\ \A k \in Tids : parents[k] \in Tids => parents[parents[k]] # Unknown
  /\ \A k \in Tids : parents[k] # Unknown => \E i \in DOMAIN list : list[i].tid = k
  /\ \A i \in DOMAIN list : parents[list[i].tid] # Unknown
  /\ \A i, j \in DOMAIN list : list[i].tid = list[j].tid => i = j

(* The list as it grows: in time order, parents before their children but  *)
(* for thread numbers used again.                                          *)
Timely(list, time) ==
  /\ \A i, j \in DOMAIN list : i < j => list[i].time <= list[j].time
  /\ \A i \in DOMAIN list : list[i].time <= time
ParentFirst(parents, list, k) ==
  \A i, j \in DOMAIN list : list[i].tid = parents[k] /\ list[j].tid = k => i < j

Grows(parents, list, time, again) ==
  /\ Noted(parents, list) /\ Timely(list, time)
  /\ \A k \in Tids \ again : ParentFirst(parents, list, k)

Threads == [life : {"unborn", "alive", "gone"}, comm : Comms, last : Int]

LEMMA Marks == Root # Unknown /\ Root \notin Tids /\ Unknown \notin Tids
BY TidsAssumption DEF Root, Unknown

LEMMA ListGrows ==
  ASSUME NEW list \in Seq(Entries), NEW entry \in Entries
  PROVE  /\ Append(list, entry) \in Seq(Entries)
         /\ DOMAIN Append(list, entry) = DOMAIN list \cup {Len(list) + 1}
         /\ Append(list, entry)[Len(list) + 1] = entry
         /\ \A i \in DOMAIN list : Append(list, entry)[i] = list[i] /\ i < Len(list) + 1 /\ i \in Int
         /\ Len(list) + 1 \notin DOMAIN list
OBVIOUS

LEMMA EntriesTyped ==
  ASSUME NEW list \in Seq(Entries), NEW i \in DOMAIN list
  PROVE  list[i] \in Entries /\ list[i].tid \in Tids /\ list[i].time \in Int
<1>1. list[i] \in Entries
  OBVIOUS
<1> QED BY <1>1 DEF Entries

(* A thread first heard of: a root.                                        *)
LEMMA RootGrows ==
  ASSUME NEW parents, NEW list, NEW before \in Int, NEW again, Grows(parents, list, before, again),
         NEW tid \in Tids, NEW time \in Int, before <= time, parents[tid] = Unknown
  PROVE  Grows([parents EXCEPT ![tid] = Root], Append(list, [time |-> time, tid |-> tid]), time, again)
<1> DEFINE entry == [time |-> time, tid |-> tid]
           parents2 == [parents EXCEPT ![tid] = Root]
           list2 == Append(list, entry)
           n == Len(list) + 1
<1>1. entry \in Entries /\ entry.time = time /\ entry.tid = tid
  BY DEF Entries
<1>2. Noted(parents, list) /\ Timely(list, before) /\ \A k \in Tids \ again : ParentFirst(parents, list, k)
  BY DEF Grows
<1>3. /\ list \in Seq(Entries) /\ parents \in [Tids -> Tids \cup {Root, Unknown}]
      /\ \A i \in DOMAIN list : list[i].tid \in Tids /\ list[i].time \in Int
  BY <1>2, EntriesTyped DEF Noted
<1>4. /\ list2 \in Seq(Entries) /\ DOMAIN list2 = DOMAIN list \cup {n} /\ list2[n] = entry
      /\ \A i \in DOMAIN list : list2[i] = list[i] /\ i < n /\ i \in Int
      /\ n \notin DOMAIN list /\ n \in Int
  BY <1>1, <1>3, ListGrows
<1>5. \A k \in Tids : parents2[k] = IF k = tid THEN Root ELSE parents[k]
  BY <1>3
<1>6. parents2 \in [Tids -> Tids \cup {Root, Unknown}]
  BY <1>3
<1>7. \A i \in DOMAIN list : list[i].tid # tid
  BY <1>2 DEF Noted
<1>8. \A k \in Tids : parents[k] # tid
  BY <1>2 DEF Noted
<1> HIDE DEF entry, parents2, list2, n
<1>9. Noted(parents2, list2)
  <2>1. \A k \in Tids : parents2[k] \in Tids => parents2[parents2[k]] # Unknown
    BY <1>2, <1>5, <1>8, Marks DEF Noted
  <2>2. \A k \in Tids : parents2[k] # Unknown => \E i \in DOMAIN list2 : list2[i].tid = k
    BY <1>1, <1>2, <1>4, <1>5 DEF Noted
  <2>3. \A i \in DOMAIN list2 : parents2[list2[i].tid] # Unknown
    BY <1>1, <1>2, <1>3, <1>4, <1>5, Marks DEF Noted
  <2>4. \A i, j \in DOMAIN list2 : list2[i].tid = list2[j].tid => i = j
    BY <1>1, <1>2, <1>4, <1>7 DEF Noted
  <2> QED BY <1>4, <1>6, <2>1, <2>2, <2>3, <2>4 DEF Noted
<1>10. Timely(list2, time)
  BY <1>1, <1>2, <1>3, <1>4 DEF Timely
<1>11. ASSUME NEW k \in Tids \ again PROVE ParentFirst(parents2, list2, k)
  <2> SUFFICES ASSUME NEW i \in DOMAIN list2, NEW j \in DOMAIN list2,
                      list2[i].tid = parents2[k], list2[j].tid = k
               PROVE  i < j
    BY DEF ParentFirst
  <2>1. list2[i].tid \in Tids
    BY <1>1, <1>3, <1>4
  <2>2. k # tid /\ parents2[k] = parents[k] /\ parents[k] # tid
    BY <1>5, <1>8, <2>1, Marks
  <2>3. i \in DOMAIN list /\ j \in DOMAIN list
    BY <1>1, <1>4, <2>2
  <2> QED BY <1>2, <1>4, <2>2, <2>3 DEF ParentFirst
<1> QED BY <1>9, <1>10, <1>11 DEF Grows, entry, parents2, list2

(* A thread that is given a parent: either it has not been heard of and     *)
(* comes last, or its number is used again.                                *)
LEMMA ChildGrows ==
  ASSUME NEW parents, NEW list, NEW before \in Int, NEW again, Grows(parents, list, before, again),
         NEW tid \in Tids, NEW child \in Tids, NEW time \in Int, before <= time,
         parents[tid] # Unknown, tid # child
  PROVE  /\ parents[child] = Unknown =>
              Grows([parents EXCEPT ![child] = tid],
                    Append(list, [time |-> time, tid |-> child]), time, again)
         /\ parents[child] # Unknown =>
              Grows([parents EXCEPT ![child] = tid], list, time, again \cup {child})
<1> DEFINE entry == [time |-> time, tid |-> child]
           parents2 == [parents EXCEPT ![child] = tid]
           list2 == Append(list, entry)
           n == Len(list) + 1
<1>1. entry \in Entries /\ entry.time = time /\ entry.tid = child
  BY DEF Entries
<1>2. Noted(parents, list) /\ Timely(list, before) /\ \A k \in Tids \ again : ParentFirst(parents, list, k)
  BY DEF Grows
<1>3. /\ list \in Seq(Entries) /\ parents \in [Tids -> Tids \cup {Root, Unknown}]
      /\ \A i \in DOMAIN list : list[i].tid \in Tids /\ list[i].time \in Int
  BY <1>2, EntriesTyped DEF Noted
<1>4. /\ list2 \in Seq(Entries) /\ DOMAIN list2 = DOMAIN list \cup {n} /\ list2[n] = entry
      /\ \A i \in DOMAIN list : list2[i] = list[i] /\ i < n /\ i \in Int
      /\ n \notin DOMAIN list /\ n \in Int
  BY <1>1, <1>3, ListGrows
<1>5. \A k \in Tids : parents2[k] = IF k = child THEN tid ELSE parents[k]
  BY <1>3
<1>6. parents2 \in [Tids -> Tids \cup {Root, Unknown}]
  BY <1>3
<1> HIDE DEF entry, parents2, list2, n
<1>7. \A k \in Tids : parents2[k] \in Tids => parents2[parents2[k]] # Unknown
  BY <1>2, <1>5, Marks DEF Noted
<1>8. ASSUME parents[child] = Unknown
      PROVE  Grows(parents2, list2, time, again)
  <2>1. (\A i \in DOMAIN list : list[i].tid # child) /\ \A k \in Tids : parents[k] # child
    BY <1>2, <1>8 DEF Noted
  <2>2. \A k \in Tids : parents2[k] # Unknown => \E i \in DOMAIN list2 : list2[i].tid = k
    BY <1>1, <1>2, <1>4, <1>5 DEF Noted
  <2>3. \A i \in DOMAIN list2 : parents2[list2[i].tid] # Unknown
    BY <1>1, <1>2, <1>3, <1>4, <1>5, Marks DEF Noted
  <2>4. \A i, j \in DOMAIN list2 : list2[i].tid = list2[j].tid => i = j
    BY <1>1, <1>2, <1>4, <2>1 DEF Noted
  <2>5. Timely(list2, time)
    BY <1>1, <1>2, <1>3, <1>4 DEF Timely
  <2>6. ASSUME NEW k \in Tids \ again PROVE ParentFirst(parents2, list2, k)
    <3> SUFFICES ASSUME NEW i \in DOMAIN list2, NEW j \in DOMAIN list2,
                        list2[i].tid = parents2[k], list2[j].tid = k
                 PROVE  i < j
      BY DEF ParentFirst
    <3>1. CASE k = child
      <4>1. i \in DOMAIN list /\ j = n
        BY <1>1, <1>4, <1>5, <2>1, <3>1
      <4> QED BY <1>4, <4>1
    <3>2. CASE k # child
      <4>1. i \in DOMAIN list /\ j \in DOMAIN list /\ parents2[k] = parents[k]
        BY <1>1, <1>4, <1>5, <2>1, <3>2
      <4> QED BY <1>2, <1>4, <4>1 DEF ParentFirst
    <3> QED BY <3>1, <3>2
  <2> QED BY <1>4, <1>6, <1>7, <2>2, <2>3, <2>4, <2>5, <2>6 DEF Grows, Noted
<1>9. ASSUME parents[child] # Unknown
      PROVE  Grows(parents2, list, time, again \cup {child})
  <2>1. \A k \in Tids : parents2[k] # Unknown => \E i \in DOMAIN list : list[i].tid = k
    BY <1>2, <1>5, <1>9 DEF Noted
  <2>2. \A i \in DOMAIN list : parents2[list[i].tid] # Unknown
    BY <1>2, <1>3, <1>5, Marks DEF Noted
  <2>3. Timely(list, time)
    BY <1>2, <1>3 DEF Timely
  <2>4. \A k \in Tids \ (again \cup {child}) : ParentFirst(parents2, list, k)
    BY <1>2, <1>5 DEF ParentFirst
  <2>5. Noted(parents2, list)
    BY <1>2, <1>6, <1>7, <2>1, <2>2 DEF Noted
  <2> QED BY <2>3, <2>4, <2>5 DEF Grows
<1> QED BY <1>8, <1>9 DEF entry, parents2, list2

(* As time goes by, and as thread numbers are used again.                  *)
LEMMA LaterGrows ==
  ASSUME NEW parents, NEW list, NEW before \in Int, NEW again, Grows(parents, list, before, again),
         NEW time \in Int, before <= time, NEW again2, again \subseteq again2
  PROVE  Grows(parents, list, time, again2)
<1>1. list \in Seq(Entries)
  BY DEF Grows, Noted
<1>2. \A i \in DOMAIN list : list[i].time \in Int
  BY <1>1, EntriesTyped
<1> QED BY <1>2 DEF Grows, Timely

HeardInv ==
  /\ clock \in Int /\ next_added \in Nat
  /\ thread \in [Tids -> Threads]
  /\ \A k \in Tids : thread[k].life = "unborn" => tree[k] = Unknown
  /\ next_added = 0 => Grows(tree, added_list, clock, reused)
  /\ Noted(tree, added_list)
  /\ \A k \in Tids \ reused : ~Shuffled(k) => ParentFirst(tree, added_list, k)

LEMMA SelfGrows ==
  ASSUME HeardInv, next_added = 0, NEW tid \in Tids, NEW comm, NEW time \in Int, clock <= time
  PROVE  LET self == NoteSelf(tid, comm, time)
         IN  /\ Grows(self.tree, self.added, time, reused)
             /\ self.tree[tid] # Unknown
             /\ \A k \in Tids : k # tid => self.tree[k] = tree[k]
<1>1. Grows(tree, added_list, clock, reused) /\ clock \in Int /\ DOMAIN tree = Tids
  BY DEF HeardInv, Noted
<1>2. CASE FirstHeard(tid)
  <2>1. Grows([tree EXCEPT ![tid] = Root], Append(added_list, [time |-> time, tid |-> tid]), time, reused)
    BY <1>1, <1>2, RootGrows DEF FirstHeard
  <2> QED BY <1>1, <1>2, <2>1, Marks DEF NoteSelf
<1>3. CASE ~FirstHeard(tid)
  <2>1. Grows(tree, added_list, time, reused)
    BY <1>1, LaterGrows
  <2> QED BY <1>3, <2>1 DEF NoteSelf, FirstHeard
<1> QED BY <1>2, <1>3

LEMMA AddedOne ==
  ASSUME NEW list \in Seq(Entries), NEW entry \in Entries
  PROVE  list \o <<entry>> = Append(list, entry) /\ list \o <<>> = list
OBVIOUS

LEMMA ForkGrows ==
  ASSUME HeardInv, next_added = 0, NEW tid \in Tids, NEW child \in Tids, tid # child,
         NEW comm, NEW time \in Int, clock <= time, NewProc(tid, comm, time, child),
         reused \subseteq reused', tree[child] # Unknown => child \in reused'
  PROVE  /\ Grows(tree', added_list', time, reused')
         /\ \A k \in Tids \ {tid, child} : tree'[k] = tree[k]
<1> DEFINE self == NoteSelf(tid, comm, time)
           entry == [time |-> time, tid |-> child]
<1>1. /\ tree' = [self.tree EXCEPT ![child] = tid]
      /\ added_list' = self.added \o (IF self.tree[child] = Unknown THEN <<entry>> ELSE <<>>)
  BY DEF NewProc, Parented, Added
<1>2. /\ Grows(self.tree, self.added, time, reused) /\ self.tree[tid] # Unknown
      /\ \A k \in Tids : k # tid => self.tree[k] = tree[k]
  BY SelfGrows
<1>3. entry \in Entries
  BY DEF Entries
<1> HIDE DEF self, entry
<1>4. self.added \in Seq(Entries) /\ DOMAIN self.tree = Tids
  BY <1>2 DEF Grows, Noted
<1>5. time <= time
  OBVIOUS
<1> DEFINE parents2 == [self.tree EXCEPT ![child] = tid]
<1>6. /\ self.tree[child] = Unknown => Grows(parents2, Append(self.added, entry), time, reused)
      /\ self.tree[child] # Unknown => Grows(parents2, self.added, time, reused \cup {child})
  BY <1>2, <1>5, ChildGrows, Zenon DEF entry
<1>7. \A k \in Tids \ {tid, child} : parents2[k] = tree[k]
  BY <1>2, <1>4
<1>8. self.tree[child] = tree[child]
  BY <1>2
<1> HIDE DEF parents2
<1>9. CASE self.tree[child] = Unknown
  <2>1. added_list' = Append(self.added, entry)
    BY <1>1, <1>3, <1>4, <1>9, AddedOne
  <2>2. Grows(parents2, Append(self.added, entry), time, reused')
    BY <1>5, <1>6, <1>9, LaterGrows, Zenon
  <2> QED BY <1>1, <1>7, <2>1, <2>2 DEF parents2
<1>10. CASE self.tree[child] # Unknown
  <2>1. added_list' = self.added
    BY <1>1, <1>3, <1>4, <1>10, AddedOne
  <2>2. reused \cup {child} \subseteq reused'
    BY <1>8, <1>10
  <2>3. Grows(parents2, self.added, time, reused')
    BY <1>5, <1>6, <1>10, <2>2, LaterGrows, Zenon
  <2> QED BY <1>1, <1>7, <2>1, <2>3 DEF parents2
<1> QED BY <1>9, <1>10

LEMMA BijectionProperties ==
  ASSUME NEW D, NEW p \in Bijection(D, D)
  PROVE  /\ p \in [D -> D]
         /\ \A y \in D : \E x \in D : p[x] = y
         /\ \A x, y \in D : p[x] = p[y] => x = y
BY DEF Bijection, Injection, Surjection, IsInjective

(* The sort keeps a thread behind its parent, unless the two share a time   *)
(* in a long list.                                                         *)
LEMMA SortKeeps ==
  ASSUME HeardInv, Stop
  PROVE  /\ Noted(tree, added_list')
         /\ \A k \in Tids \ reused : ~Shuffled(k)' => ParentFirst(tree, added_list', k)
<1> DEFINE list == added_list
           n == Len(list)
<1>1. Grows(tree, list, clock, reused) /\ tree' = tree
  BY DEF Stop, HeardInv
<1>2. /\ list \in Seq(Entries) /\ n \in Nat /\ DOMAIN list = 1..n
      /\ \A i \in 1..n : list[i] \in Entries /\ list[i].tid \in Tids /\ list[i].time \in Int
  BY <1>1, EntriesTyped DEF Grows, Noted
<1>3. PICK p \in Bijection(1..n, 1..n) :
        SortedBy(list, p) /\ added_list' = [i \in 1..n |-> list[p[i]]]
  BY <1>2 DEF Stop
<1>4. /\ p \in [1..n -> 1..n]
      /\ \A y \in 1..n : \E x \in 1..n : p[x] = y
      /\ \A x, y \in 1..n : p[x] = p[y] => x = y
  BY BijectionProperties
<1> DEFINE sorted == [i \in 1..n |-> list[p[i]]]
<1>5. sorted \in Seq(Entries) /\ DOMAIN sorted = 1..n /\ Len(sorted) = n
  BY <1>2, <1>4
<1>6. \A i \in 1..n : sorted[i] = list[p[i]] /\ p[i] \in 1..n
  BY <1>4
<1>7. added_list' = sorted
  BY <1>3
<1>8. SortedBy(list, p)
  BY <1>3
<1> HIDE DEF sorted, n, list
<1>9. Noted(tree, sorted)
  <2>1. ASSUME NEW k \in Tids, tree[k] # Unknown
        PROVE  \E i \in 1..n : sorted[i].tid = k
    <3>1. PICK y \in 1..n : list[y].tid = k
      BY <1>1, <1>2, <2>1 DEF Grows, Noted
    <3>2. PICK i \in 1..n : p[i] = y
      BY <1>4, <3>1
    <3> QED BY <1>6, <3>1, <3>2
  <2>2. \A i \in 1..n : tree[sorted[i].tid] # Unknown
    BY <1>1, <1>2, <1>6 DEF Grows, Noted
  <2>3. \A i, j \in 1..n : sorted[i].tid = sorted[j].tid => i = j
    <3> SUFFICES ASSUME NEW i \in 1..n, NEW j \in 1..n, sorted[i].tid = sorted[j].tid
                 PROVE  i = j
      OBVIOUS
    <3>1. p[i] = p[j]
      BY <1>1, <1>2, <1>6 DEF Grows, Noted
    <3> QED BY <1>4, <3>1
  <2> QED BY <1>1, <1>5, <2>1, <2>2, <2>3 DEF Grows, Noted
<1>10. ASSUME NEW k \in Tids \ reused, ~Shuffled(k)' PROVE ParentFirst(tree, sorted, k)
  <2> SUFFICES ASSUME NEW i \in 1..n, NEW j \in 1..n, sorted[i].tid = tree[k], sorted[j].tid = k
               PROVE  i < j
    BY <1>5 DEF ParentFirst
  <2>1. p[i] < p[j]
    BY <1>1, <1>2, <1>6 DEF Grows, ParentFirst
  <2>2. list[p[i]].time <= list[p[j]].time
    BY <1>1, <1>2, <1>6, <2>1 DEF Grows, Timely
  <2>3. i # j
    BY <1>6, <2>1
  <2>4. ASSUME j < i PROVE FALSE
    <3>1. /\ list[p[j]].time <= list[p[i]].time
          /\ list[p[j]].time = list[p[i]].time /\ n <= InsertionLimit => p[j] < p[i]
      BY <1>2, <1>8, <2>4 DEF SortedBy, n
    <3>2. list[p[j]].time = list[p[i]].time
      BY <1>2, <1>6, <2>2, <3>1
    <3>3. n > InsertionLimit
      BY <1>2, <1>6, <2>1, <3>1, <3>2, LimitsAssumption
    <3>4. Shuffled(k)'
      BY <1>1, <1>5, <1>6, <1>7, <3>2, <3>3 DEF Shuffled
    <3> QED BY <2>4, <1>10, <3>4
  <2> QED BY <2>3, <2>4
<1> QED BY <1>7, <1>9, <1>10

LEMMA HeardInvariance == TreeSpec => []HeardInv
<1>1. ASSUME TreeInit PROVE HeardInv
  <2>1. thread \in [Tids -> Threads] /\ tree = [t \in Tids |-> Unknown]
    BY <1>1, TidsAssumption DEF TreeInit, Threads
  <2>2. <<>> \in Seq(Entries) /\ DOMAIN <<>> = {}
    OBVIOUS
  <2>3. Noted(tree, <<>>)
    BY <2>1, <2>2, Marks DEF Noted
  <2>4. added_list = <<>> /\ clock = 0 /\ next_added = 0
    BY <1>1 DEF TreeInit
  <2> QED BY <2>1, <2>2, <2>3, <2>4 DEF HeardInv, Grows, Timely, ParentFirst
<1>2. HeardInv /\ [TreeNext]_treeVars => HeardInv'
  <2> SUFFICES ASSUME HeardInv, [TreeNext]_treeVars PROVE HeardInv'
    OBVIOUS
  <2>1. ASSUME NEW tid \in Tids, NEW time \in 1..MaxClock, Happens(tid, time),
               thread' \in [Tids -> Threads], UNCHANGED next_added,
               Grows(tree', added_list', time, reused'),
               \A k \in Tids : thread'[k].life = "unborn" =>
                 thread[k].life = "unborn" /\ tree'[k] = tree[k]
        PROVE  HeardInv'
    <3>1. time \in Int /\ clock' = time /\ next_added' \in Nat
      BY <2>1, LimitsAssumption DEF Happens, HeardInv
    <3> QED BY <2>1, <3>1 DEF HeardInv, Grows
  <2>2. ASSUME NEW tid \in Tids, NEW time \in 1..MaxClock, Happens(tid, time),
               reused \subseteq reused', UNCHANGED noteVars
        PROVE  Grows(tree', added_list', time, reused')
    <3>1. time \in Int /\ clock \in Int /\ clock <= time /\ next_added = 0
      BY <2>2, LimitsAssumption DEF Happens, HeardInv
    <3> QED BY <2>2, <3>1, LaterGrows DEF HeardInv, noteVars
  <2>3. ASSUME NEW tid \in Tids, NEW time \in 1..MaxClock, NEW child \in Tids,
               ForkEvent(tid, time, child)
        PROVE  HeardInv'
    <3>1. /\ Happens(tid, time) /\ UNCHANGED next_added /\ reused \subseteq reused'
          /\ thread[tid].life = "alive" /\ thread[child].life # "alive" /\ tid # child
          /\ thread[child].life = "gone" => child \in reused'
          /\ thread' = [thread EXCEPT ![tid].last = time,
               ![child] = [life |-> "alive", comm |-> thread[tid].comm, last |-> time]]
      BY <2>3 DEF ForkEvent, Happens, resultVars
    <3>2. time \in Int /\ clock <= time /\ next_added = 0 /\ clock \in Int
      BY <2>3, <3>1, LimitsAssumption DEF Happens, HeardInv
    <3>3. thread \in [Tids -> Threads]
      BY DEF HeardInv
    <3>4. thread' \in [Tids -> Threads] /\ thread'[child].life = "alive"
          /\ \A k \in Tids \ {child} : thread'[k].life = thread[k].life
      BY <3>1, <3>2, <3>3 DEF Threads
    <3>5. tree[child] # Unknown => child \in reused'
      BY <3>1, <3>3 DEF HeardInv, Threads
    <3>6. CASE UNCHANGED noteVars
      BY <2>1, <2>2, <3>1, <3>4, <3>6 DEF noteVars
    <3>7. CASE NewProc(tid, thread[tid].comm, time, child)
      <4>1. /\ Grows(tree', added_list', time, reused')
            /\ \A k \in Tids \ {tid, child} : tree'[k] = tree[k]
        BY <3>1, <3>2, <3>5, <3>7, ForkGrows
      <4> QED BY <2>1, <3>1, <3>4, <4>1
    <3> QED BY <2>3, <3>6, <3>7 DEF ForkEvent, Told
  <2>4. ASSUME NEW tid \in Tids, NEW time \in 1..MaxClock, NEW comm,
               Happens(tid, time), thread' \in [Tids -> Threads],
               \A k \in Tids : thread'[k].life = "unborn" => thread[k].life = "unborn",
               UNCHANGED <<reused, next_added>>,
               \/ UNCHANGED noteVars
               \/ /\ tree' = NoteSelf(tid, comm, time).tree
                  /\ added_list' = NoteSelf(tid, comm, time).added
        PROVE  HeardInv'
    <3>1. time \in Int /\ clock <= time /\ next_added = 0 /\ thread[tid].life # "unborn"
      BY <2>4, LimitsAssumption DEF Happens, HeardInv
    <3>2. CASE UNCHANGED noteVars
      BY <2>1, <2>2, <2>4, <3>2 DEF noteVars
    <3>3. CASE tree' = NoteSelf(tid, comm, time).tree /\ added_list' = NoteSelf(tid, comm, time).added
      <4>1. /\ Grows(tree', added_list', time, reused')
            /\ \A k \in Tids \ {tid} : tree'[k] = tree[k]
        BY <2>4, <3>1, <3>3, SelfGrows
      <4> QED BY <2>1, <2>4, <3>1, <4>1
    <3> QED BY <2>4, <3>2, <3>3
  <2>5. ASSUME NEW tid \in Tids, NEW time \in 1..MaxClock, NEW comm \in Comms,
               ExecveEvent(tid, time, comm)
        PROVE  HeardInv'
    <3>0. thread \in [Tids -> Threads] /\ time \in Int
      BY LimitsAssumption DEF HeardInv
    <3>1. thread' \in [Tids -> Threads] /\ \A k \in Tids : thread'[k].life = thread[k].life
      BY <2>5, <3>0 DEF ExecveEvent, Threads
    <3> QED BY <2>4, <2>5, <3>1 DEF ExecveEvent, Told, Execve, resultVars
  <2>6. ASSUME NEW tid \in Tids, NEW time \in 1..MaxClock, ExitEvent(tid, time)
        PROVE  HeardInv'
    <3>0. thread \in [Tids -> Threads] /\ time \in Int
      BY LimitsAssumption DEF HeardInv
    <3>1. thread' \in [Tids -> Threads]
          /\ \A k \in Tids : thread'[k].life = "unborn" => thread[k].life = "unborn"
      BY <2>6, <3>0 DEF ExitEvent, Threads
    <3> QED BY <2>4, <2>6, <3>1 DEF ExitEvent, Told, Exit, resultVars
  <2>7. CASE Stop
    <3>1. UNCHANGED <<clock, thread, reused, tree>> /\ next_added' = 1
      BY <2>7 DEF Stop, worldVars
    <3>2. /\ Noted(tree, added_list')
          /\ \A k \in Tids \ reused : ~Shuffled(k)' => ParentFirst(tree, added_list', k)
      BY <2>7, SortKeeps
    <3> QED BY <3>1, <3>2 DEF HeardInv
  <2>8. CASE ListNext
    <3>1. UNCHANGED <<clock, thread, reused, tree, added_list>> /\ next_added' = next_added + 1
      BY <2>8 DEF ListNext, worldVars, noteVars
    <3> QED BY <3>1 DEF HeardInv, Shuffled
  <2>9. CASE UNCHANGED treeVars
    BY <2>9 DEF treeVars, worldVars, noteVars, resultVars, HeardInv, Shuffled
  <2> QED BY <2>3, <2>5, <2>6, <2>7, <2>8, <2>9 DEF TreeNext
<1> QED BY <1>1, <1>2, PTL DEF TreeSpec

(* The list is worked off from the front: who has been passed is in the     *)
(* result if a root or if the parent came before and is in it.             *)
ListedInv ==
  /\ next_added = 0 => shown = <<>>
  /\ \E S : shown \in Seq(S)
  /\ \A m \in DOMAIN shown : \E i \in DOMAIN added_list :
       i < next_added /\ added_list[i].tid = shown[m].tid
  /\ \A l, m \in DOMAIN shown : shown[l].tid = shown[m].tid => l = m
  /\ \A j \in DOMAIN added_list :
       LET k == added_list[j].tid
       IN  /\ j < next_added
           /\ \/ tree[k] = Root
              \/ tree[k] \in Listed /\ \E i \in DOMAIN added_list : i < j /\ added_list[i].tid = tree[k]
           => k \in Listed

LEMMA ListedStep == HeardInv /\ ListedInv /\ ListNext => ListedInv'
<1> SUFFICES ASSUME HeardInv, ListedInv, ListNext PROVE ListedInv'
  OBVIOUS
<1> DEFINE n == next_added
           k == added_list[n].tid
           entry == [tid |-> k, parent |-> tree[k], name |-> NameShown(k)]
<1>1. /\ n \in DOMAIN added_list /\ n' = n + 1 /\ UNCHANGED <<tree, added_list>>
      /\ shown' = IF tree[k] \in Listed \cup {Root} THEN Append(shown, entry) ELSE shown
  BY DEF ListNext, noteVars
<1>2. /\ n \in Nat /\ DOMAIN added_list \subseteq Int
      /\ \A i, j \in DOMAIN added_list : added_list[i].tid = added_list[j].tid => i = j
  BY DEF HeardInv, Noted
<1>3. entry.tid = k
  OBVIOUS
<1> HIDE DEF n, k, entry
<1>4. PICK S : shown \in Seq(S)
  BY DEF ListedInv
<1>5. n # 0
  BY <1>1, <1>2 DEF HeardInv, Noted
<1>6. \A m \in DOMAIN shown : shown[m].tid # k
  BY <1>1, <1>2 DEF ListedInv, n, k
<1>7. CASE shown' = shown /\ tree[k] \notin Listed \cup {Root}
  <2>1. Listed' = Listed
    BY <1>7 DEF Listed
  <2>2. ASSUME NEW m \in DOMAIN shown'
        PROVE  \E i \in DOMAIN added_list' : i < n' /\ added_list'[i].tid = shown'[m].tid
    BY <1>1, <1>2, <1>7 DEF ListedInv, n
  <2>3. ASSUME NEW j \in DOMAIN added_list, j < n + 1,
               tree[added_list[j].tid] = Root \/
               (tree[added_list[j].tid] \in Listed
                /\ \E i \in DOMAIN added_list : i < j /\ added_list[i].tid = tree[added_list[j].tid])
        PROVE  added_list[j].tid \in Listed
    <3>1. j # n
      BY <1>7, <2>3 DEF k
    <3>2. j < n
      BY <1>2, <2>3, <3>1
    <3> QED BY <2>3, <3>2 DEF ListedInv, n
  <2> QED BY <1>1, <1>2, <1>4, <1>5, <1>7, <2>1, <2>2, <2>3 DEF ListedInv, n
<1>8. CASE shown' = Append(shown, entry)
  <2> DEFINE last == Len(shown) + 1
  <2>1. /\ shown' \in Seq(S \cup {entry}) /\ DOMAIN shown' = DOMAIN shown \cup {last}
        /\ shown'[last] = entry /\ last \notin DOMAIN shown
        /\ \A m \in DOMAIN shown : shown'[m] = shown[m]
    BY <1>4, <1>8
  <2> HIDE DEF last
  <2>2. Listed' = Listed \cup {k}
    BY <1>3, <2>1 DEF Listed
  <2>3. ASSUME NEW m \in DOMAIN shown'
        PROVE  \E i \in DOMAIN added_list' : i < n' /\ added_list'[i].tid = shown'[m].tid
    <3>1. CASE m = last
      BY <1>1, <1>2, <1>3, <2>1, <3>1 DEF k
    <3>2. CASE m \in DOMAIN shown
      BY <1>1, <1>2, <2>1, <3>2 DEF ListedInv, n
    <3> QED BY <2>1, <3>1, <3>2
  <2>4. \A l, m \in DOMAIN shown' : shown'[l].tid = shown'[m].tid => l = m
    BY <1>3, <1>6, <2>1 DEF ListedInv
  <2>5. ASSUME NEW j \in DOMAIN added_list, j < n + 1,
               tree[added_list[j].tid] = Root \/
               (tree[added_list[j].tid] \in Listed'
                /\ \E i \in DOMAIN added_list : i < j /\ added_list[i].tid = tree[added_list[j].tid])
        PROVE  added_list[j].tid \in Listed'
    <3>1. CASE j = n
      BY <2>2, <3>1 DEF k
    <3>2. CASE j # n
      <4>1. j < n
        BY <1>2, <2>5, <3>2
      <4>2. \A i \in DOMAIN added_list : i < j => added_list[i].tid # k
        BY <1>1, <1>2, <4>1 DEF k
      <4>3. tree[added_list[j].tid] \in Listed' => tree[added_list[j].tid] # k \/ tree[added_list[j].tid] = Root
        BY <2>5, <4>2
      <4> QED BY <2>2, <2>5, <4>1, <4>2 DEF ListedInv, n
    <3> QED BY <3>1, <3>2
  <2> QED BY <1>1, <1>2, <1>5, <2>1, <2>2, <2>3, <2>4, <2>5 DEF ListedInv, n
<1> QED BY <1>1, <1>7, <1>8

LEMMA ListedInvariance == TreeSpec => [](HeardInv /\ ListedInv)
<1>1. TreeInit => ListedInv
  <2>1. <<>> \in Seq({}) /\ DOMAIN <<>> = {}
    OBVIOUS
  <2> QED BY <2>1 DEF TreeInit, ListedInv
<1>2. HeardInv /\ HeardInv' /\ ListedInv /\ [TreeNext]_treeVars => ListedInv'
  <2> SUFFICES ASSUME HeardInv, HeardInv', ListedInv, [TreeNext]_treeVars PROVE ListedInv'
    OBVIOUS
  <2>1. ASSUME UNCHANGED shown, next_added = 0, next_added' \in {0, 1},
               DOMAIN added_list' \subseteq Nat \ {0}
        PROVE  ListedInv'
    <3>1. shown' = <<>> /\ DOMAIN shown' = {}
      BY <2>1 DEF ListedInv
    <3>2. \A j \in DOMAIN added_list' : ~(j < next_added')
      BY <2>1
    <3>3. \E S : shown' \in Seq(S)
      BY <2>1 DEF ListedInv
    <3> QED BY <3>1, <3>2, <3>3 DEF ListedInv
  <2>2. DOMAIN added_list' \subseteq Nat \ {0}
    <3>1. added_list' \in Seq(Entries)
      BY DEF HeardInv, Noted
    <3> QED BY <3>1
  <2>3. CASE \E tid \in Tids, time \in 1..MaxClock :
               \/ \E child \in Tids : ForkEvent(tid, time, child)
               \/ \E comm \in Comms : ExecveEvent(tid, time, comm)
               \/ ExitEvent(tid, time)
    <3>1. next_added = 0 /\ UNCHANGED <<next_added, shown>>
      BY <2>3 DEF ForkEvent, ExecveEvent, ExitEvent, Happens, resultVars
    <3> QED BY <2>1, <2>2, <3>1
  <2>4. CASE Stop
    BY <2>1, <2>2, <2>4 DEF Stop
  <2>5. CASE ListNext
    BY <2>5, ListedStep
  <2>6. CASE UNCHANGED treeVars
    BY <2>6 DEF treeVars, noteVars, resultVars, ListedInv, Listed
  <2> QED BY <2>3, <2>4, <2>5, <2>6 DEF TreeNext
<1> QED BY <1>1, <1>2, HeardInvariance, PTL DEF TreeSpec

(* KnownThreadsListed, for any number of threads, events and losses: the    *)
(* parent of a thread that has been heard of has been heard of before it,  *)
(* and the sort keeps them so but for the two exceptions named.            *)
THEOREM KnownThreadsListedTheorem == SubclientSpec => []KnownThreadsListed
<1>1. HeardInv /\ ListedInv => KnownThreadsListed
  <2> SUFFICES ASSUME HeardInv, ListedInv, AllListed, NEW k \in Tids
               PROVE  /\ tree[k] \notin {Unknown, Root} => tree[tree[k]] # Unknown
                      /\ Cardinality({i \in DOMAIN shown : shown[i].tid = k}) <= 1
                      /\ tree[k] \in Listed \cup {Root} /\ k \notin reused /\ ~Shuffled(k) => k \in Listed
    BY DEF KnownThreadsListed
  <2>1. Noted(tree, added_list)
    BY DEF HeardInv
  <2>2. tree[k] \notin {Unknown, Root} => tree[tree[k]] # Unknown
    BY <2>1 DEF Noted
  <2>3. Cardinality({i \in DOMAIN shown : shown[i].tid = k}) <= 1
    <3>1. CASE \A i \in DOMAIN shown : shown[i].tid # k
      <4>1. {i \in DOMAIN shown : shown[i].tid = k} = {}
        BY <3>1
      <4> QED BY <4>1, FS_EmptySet
    <3>2. CASE \E i \in DOMAIN shown : shown[i].tid = k
      <4>1. PICK i \in DOMAIN shown : shown[i].tid = k
        BY <3>2
      <4>2. {m \in DOMAIN shown : shown[m].tid = k} = {i}
        BY <4>1 DEF ListedInv
      <4> QED BY <4>2, FS_Singleton
    <3> QED BY <3>1, <3>2
  <2>4. ASSUME tree[k] \in Listed \cup {Root}, k \notin reused, ~Shuffled(k)
        PROVE  k \in Listed
    <3>1. \A t \in Listed : \E i \in DOMAIN added_list : added_list[i].tid = t
      BY DEF Listed, ListedInv
    <3>2. added_list \in Seq(Entries) /\ \A i \in DOMAIN added_list : added_list[i].tid \in Tids
      BY <2>1, EntriesTyped DEF Noted
    <3>3. tree[k] # Unknown
      BY <2>4, <3>1, <3>2, Marks
    <3>4. PICK j \in DOMAIN added_list : added_list[j].tid = k
      BY <2>1, <3>3 DEF Noted
    <3>5. j < next_added
      BY <3>2 DEF AllListed, HeardInv
    <3>6. tree[k] \in Listed => \E i \in DOMAIN added_list : i < j /\ added_list[i].tid = tree[k]
      <4>1. ParentFirst(tree, added_list, k)
        BY <2>4 DEF HeardInv
      <4> QED BY <3>1, <3>4, <4>1 DEF ParentFirst
    <3> QED BY <2>4, <3>4, <3>5, <3>6 DEF ListedInv
  <2> QED BY <2>2, <2>3, <2>4
<1> QED BY <1>1, SubclientSimulates, ListedInvariance, PTL

-----------------------------------------------------------------------------
(* The name a thread is shown under.                                        *)

LEMMA LeastOf ==
  ASSUME NEW S, S \subseteq Nat, S # {}
  PROVE  \E n \in S : \A m \in S : n <= m
<1>1. \E x \in S : \A y \in S : ~(<<y, x>> \in OpToRel(<, Nat))
  BY NatLessThanWellFounded, WFMin
<1>2. \E x \in S : \A y \in S : ~(y < x)
  BY <1>1, Zenon DEF OpToRel
<1> QED BY <1>2

(* A set that holds zero and the successor of each of its numbers.          *)
LEMMA CountUp ==
  ASSUME NEW G, 0 \in G, \A n \in Nat : n \in G => n + 1 \in G
  PROVE  Nat \subseteq G
<1> DEFINE Bad == {n \in Nat : n \notin G}
<1>1. SUFFICES ASSUME Bad # {} PROVE FALSE
  OBVIOUS
<1>2. PICK n \in Bad : \A m \in Bad : n <= m
  <2>1. Bad \subseteq Nat
    OBVIOUS
  <2> HIDE DEF Bad
  <2> QED BY <1>1, <2>1, LeastOf
<1>3. n \in Nat /\ n \notin G
  BY <1>2
<1>4. n - 1 \in Nat /\ (n - 1) + 1 = n /\ ~(n <= n - 1)
  BY <1>3
<1>5. n - 1 \in Bad
  BY <1>3, <1>4
<1> HIDE DEF Bad
<1> QED BY <1>2, <1>4, <1>5

Notes == [comm : Comms, time : Nat]
Gap(names, i) == names[i].time - names[i - 1].time

(* What the loop of subclient.cpp:363-372 has found before the i-th name.   *)
BestOf(names, f, i) ==
  IF i = 1 THEN [index |-> 1, time |-> 0]
  ELSE IF Exceeds(Gap(names, i), f[i - 1].time)
       THEN [index |-> i - 1, time |-> ToInt(Gap(names, i))]
       ELSE f[i - 1]
Best(names, f, n) == f = [i \in 1..n |-> BestOf(names, f, i)]

LEMMA BestExists ==
  ASSUME NEW names, NEW n \in Nat
  PROVE  \E f : Best(names, f, n)
<1> DEFINE G == {m \in Nat : \E f : Best(names, f, m)}
<1>1. 0 \in G
  <2> DEFINE f == [i \in 1..0 |-> 0]
  <2>1. f = [i \in 1..0 |-> BestOf(names, f, i)]
    <3>1. \A i \in 1..0 : f[i] = BestOf(names, f, i)
      OBVIOUS
    <3> QED BY <3>1
  <2> HIDE DEF f
  <2>2. Best(names, f, 0)
    BY <2>1, Zenon DEF Best
  <2> QED BY <2>2
<1>2. ASSUME NEW m \in Nat, m \in G PROVE m + 1 \in G
  <2>1. PICK f : f = [i \in 1..m |-> BestOf(names, f, i)]
    BY <1>2, Zenon DEF Best
  <2> DEFINE g == [i \in 1..(m + 1) |-> BestOf(names, f, i)]
  <2>2. \A i \in 1..(m + 1) : i = 1 \/ (i - 1 \in 1..m /\ i - 1 \in 1..(m + 1))
    OBVIOUS
  <2>3. \A i \in 1..m : g[i] = f[i]
    <3>1. \A i \in 1..m : i \in 1..(m + 1)
      OBVIOUS
    <3>2. \A i \in 1..m : f[i] = BestOf(names, f, i)
      BY <2>1, Zenon
    <3> QED BY <3>1, <3>2, Zenon
  <2>4. \A i \in 1..(m + 1) : BestOf(names, f, i) = BestOf(names, g, i)
    <3> SUFFICES ASSUME NEW i \in 1..(m + 1) PROVE BestOf(names, f, i) = BestOf(names, g, i)
      OBVIOUS
    <3>1. i = 1 \/ f[i - 1] = g[i - 1]
      BY <2>2, <2>3, Zenon
    <3> HIDE DEF g
    <3> QED BY <3>1, Zenon DEF BestOf
  <2>5. g = [i \in 1..(m + 1) |-> BestOf(names, g, i)]
    <3>1. g = [i \in 1..(m + 1) |-> BestOf(names, f, i)]
      OBVIOUS
    <3> HIDE DEF g
    <3>2. [i \in 1..(m + 1) |-> BestOf(names, f, i)] = [i \in 1..(m + 1) |-> BestOf(names, g, i)]
      BY <2>4, Zenon
    <3> QED BY <3>1, <3>2, Zenon
  <2> HIDE DEF g
  <2>6. Best(names, g, m + 1)
    BY <2>5, Zenon DEF Best
  <2> QED BY <2>6
<1>3. Nat \subseteq G
  <2> HIDE DEF G
  <2> QED BY <1>1, <1>2, CountUp
<1> QED BY <1>3

LEMMA DominantBest ==
  ASSUME NEW names \in Seq(Notes)
  PROVE  \E f : Best(names, f, Len(names)) /\ Dominant(names) = f[Len(names)]
<1>1. DOMAIN names = 1..Len(names) /\ Len(names) \in Nat
  OBVIOUS
<1> DEFINE best == CHOOSE f : Best(names, f, Len(names))
<1>2. Best(names, best, Len(names))
  BY <1>1, BestExists, Zenon
<1>3. Dominant(names) = best[Len(names)]
  BY <1>1, Zenon DEF Dominant, Best, BestOf, Gap
<1> HIDE DEF best
<1> QED BY <1>2, <1>3

(* Within its range an int holds what it is given.                          *)
LEMMA IntHolds ==
  ASSUME NEW x \in Nat, x < 2^(IntBits - 1)
  PROVE  ToInt(x) = x
<1> DEFINE h == 2^(IntBits - 1)
<1>1. h \in Nat \ {0} /\ 2^IntBits = 2 * h /\ x < h
  BY PowersAssumption
<1>2. ToInt(x) = ((x + h) % (2 * h)) - h
  BY <1>1 DEF ToInt
<1> HIDE DEF h
<1>3. ((x + h) % (2 * h)) - h = x
  <2>1. x + h \in Nat /\ 2 * h \in Nat /\ x + h < 2 * h
    BY <1>1
  <2>2. \A a, m \in Nat : a < m => a % m = a
    OBVIOUS
  <2>3. (x + h) % (2 * h) = x + h
    BY <2>1, <2>2
  <2> QED BY <1>1, <2>3
<1> QED BY <1>2, <1>3

InOrder(names) == \A i, j \in DOMAIN names : i < j => names[i].time <= names[j].time

(* The longest of the first n - 1 gaps and where it is.                     *)
LongestGap(names, d, n) ==
  /\ d.time \in Nat /\ d.index \in 1..n
  /\ \A i \in 2..n : Gap(names, i) <= d.time
  /\ n > 1 => d.index < n /\ d.time = Gap(names, d.index + 1)

LEMMA BestIsLongest ==
  ASSUME NEW names \in Seq(Notes), InOrder(names), NEW f, Best(names, f, Len(names)),
         \A i \in 2..Len(names) : Gap(names, i) < 2^(IntBits - 1)
  PROVE  \A n \in 1..Len(names) : LongestGap(names, f[n], n)
<1> DEFINE G == {m \in Nat : m < Len(names) => LongestGap(names, f[m + 1], m + 1)}
<1>1. Len(names) \in Nat /\ DOMAIN names = 1..Len(names)
  OBVIOUS
<1>2. \A i \in 1..Len(names) : f[i] = BestOf(names, f, i)
  BY Zenon DEF Best
<1>3. \A i \in 2..Len(names) : Gap(names, i) \in Nat
  <2> SUFFICES ASSUME NEW i \in 2..Len(names) PROVE Gap(names, i) \in Nat
    OBVIOUS
  <2>1. i \in 1..Len(names) /\ i - 1 \in 1..Len(names) /\ i - 1 < i
    BY <1>1
  <2>2. names[i - 1].time <= names[i].time
    BY <1>1, <2>1 DEF InOrder
  <2>3. names[i].time \in Nat /\ names[i - 1].time \in Nat
    <3>1. names[i] \in Notes /\ names[i - 1] \in Notes
      BY <2>1, ElementOfSeq
    <3> QED BY <3>1 DEF Notes
  <2> QED BY <2>2, <2>3 DEF Gap
<1>4. 0 \in G
  <2> SUFFICES ASSUME 0 < Len(names) PROVE LongestGap(names, f[0 + 1], 0 + 1)
    OBVIOUS
  <2>1. 1 \in 1..Len(names)
    BY <1>1
  <2>2. f[1] = [index |-> 1, time |-> 0]
    BY <1>2, <2>1, Zenon DEF BestOf
  <2>3. LongestGap(names, f[1], 1)
    BY <2>2 DEF LongestGap
  <2> QED BY <2>3
<1>5. ASSUME NEW m \in Nat, m \in G PROVE m + 1 \in G
  <2> SUFFICES ASSUME m + 1 < Len(names) PROVE LongestGap(names, f[m + 2], m + 2)
    OBVIOUS
  <2>1. /\ m + 1 \in Nat /\ m + 1 >= 1 /\ m + 2 \in 2..Len(names) /\ m + 2 \in 1..Len(names)
        /\ m + 2 # 1 /\ (m + 2) - 1 = m + 1 /\ m < Len(names)
    BY <1>1
  <2>2. LongestGap(names, f[m + 1], m + 1)
    BY <1>5, <2>1
  <2> DEFINE d == f[m + 1]
             x == Gap(names, m + 2)
  <2>3. f[m + 2] = IF Exceeds(x, d.time) THEN [index |-> m + 1, time |-> ToInt(x)] ELSE d
    BY <1>2, <2>1 DEF BestOf
  <2>4. x \in Nat /\ x < 2^(IntBits - 1) /\ ToInt(x) = x
    BY <1>3, <2>1, IntHolds
  <2>5. /\ d.time \in Nat /\ d.index \in 1..(m + 1)
        /\ \A i \in 2..(m + 1) : Gap(names, i) <= d.time
        /\ m + 1 > 1 => d.index < m + 1 /\ d.time = Gap(names, d.index + 1)
    BY <2>2 DEF LongestGap
  <2>6. /\ \A i \in 2..(m + 2) : i \in 2..(m + 1) \/ i = m + 2
        /\ \A i \in 2..(m + 1) : i \in 2..Len(names)
    BY <2>1
  <2>7. \A i \in 2..(m + 1) : Gap(names, i) \in Nat
    BY <1>3, <2>6
  <2>8. CASE Exceeds(x, d.time)
    <3>1. x > d.time
      BY <2>4, <2>5, <2>8 DEF Exceeds
    <3> DEFINE e == [index |-> m + 1, time |-> x]
    <3>2. f[m + 2] = e
      BY <2>3, <2>4, <2>8
    <3>3. e.time = x /\ e.index = m + 1 /\ (m + 1) + 1 = m + 2 /\ m + 1 < m + 2
      OBVIOUS
    <3> HIDE DEF e, d
    <3>4. \A i \in 2..(m + 2) : Gap(names, i) <= x
      <4> SUFFICES ASSUME NEW i \in 2..(m + 2) PROVE Gap(names, i) <= x
        OBVIOUS
      <4>1. CASE i = m + 2
        BY <2>4, <4>1
      <4>2. CASE i \in 2..(m + 1)
        <5>1. Gap(names, i) <= d.time /\ Gap(names, i) \in Nat
          BY <2>5, <2>7, <4>2
        <5> HIDE DEF x
        <5> QED BY <2>4, <2>5, <3>1, <5>1
      <4> QED BY <2>6, <4>1, <4>2
    <3>5. m + 1 \in 1..(m + 2)
      OBVIOUS
    <3> QED BY <2>4, <3>2, <3>3, <3>4, <3>5 DEF LongestGap
  <2>9. CASE ~Exceeds(x, d.time)
    <3>1. x <= d.time
      BY <2>4, <2>5, <2>9 DEF Exceeds
    <3>2. f[m + 2] = d
      BY <2>3, <2>9
    <3> HIDE DEF d
    <3>3. \A i \in 2..(m + 2) : Gap(names, i) <= d.time
      BY <2>5, <2>6, <3>1
    <3>4. d.index \in 1..(m + 2) /\ d.index < m + 2
      BY <2>5
    <3>5. d.time = Gap(names, d.index + 1)
      <4>1. CASE m = 0
        <5>1. d.index = 1 /\ f[1] = d
          BY <2>5, <4>1 DEF d
        <5>2. f[1] = [index |-> 1, time |-> 0]
          <6>1. 1 \in 1..Len(names)
            BY <2>1
          <6> QED BY <1>2, <6>1, Zenon DEF BestOf
        <5>3. d.time = 0 /\ x = Gap(names, 2)
          BY <4>1, <5>1, <5>2
        <5> HIDE DEF x
        <5> QED BY <2>4, <3>1, <5>1, <5>3
      <4>2. CASE m # 0
        BY <2>5, <4>2
      <4> QED BY <4>1, <4>2
    <3> QED BY <2>5, <3>2, <3>3, <3>4, <3>5 DEF LongestGap
  <2> QED BY <2>8, <2>9
<1>6. Nat \subseteq G
  <2> HIDE DEF G
  <2> QED BY <1>4, <1>5, CountUp
<1>7. ASSUME NEW n \in 1..Len(names) PROVE LongestGap(names, f[n], n)
  <2>1. n - 1 \in Nat /\ n - 1 < Len(names) /\ (n - 1) + 1 = n
    BY <1>1
  <2>2. LongestGap(names, f[(n - 1) + 1], (n - 1) + 1)
    BY <1>6, <2>1
  <2> QED BY <2>1, <2>2
<1> QED BY <1>7

(* What the names of a thread and the time of its end look like as long as  *)
(* its number is not used again.                                            *)
Fits(names, exits, th) ==
  /\ th.life = "unborn" => names = <<>>
  /\ InOrder(names)
  /\ \A i \in DOMAIN names : names[i].time <= th.last
  /\ \/ exits = {}
     \/ th.life = "gone" /\ \E e \in Nat : exits = {e} /\ \A i \in DOMAIN names : names[i].time <= e

LEMMA ShownIsLongest ==
  ASSUME NEW k, name_time_dict[k] \in Seq(Notes), name_time_dict[k] # <<>>,
         Fits(name_time_dict[k], exit_time_dict[k], thread[k]),
         thread[k].last \in Nat, thread[k].last <= MaxClock,
         \A i \in 1..(Len(name_time_dict[k]) - 1) : Lasted(k, i) < 2^(IntBits - 1)
  PROVE  \E i \in DOMAIN name_time_dict[k] :
           /\ name_time_dict[k][i].comm = NameShown(k)
           /\ \A j \in DOMAIN name_time_dict[k] : Lasted(k, j) <= Lasted(k, i)
<1> DEFINE names == name_time_dict[k]
           n == Len(names)
           exits == exit_time_dict[k]
           D == Dominant(names)
<1>1. /\ n \in Nat /\ n >= 1 /\ DOMAIN names = 1..n
      /\ \A i \in 1..n : names[i].time \in Nat /\ names[i].time <= thread[k].last
  <2>1. n \in Nat /\ n >= 1 /\ DOMAIN names = 1..n
    BY EmptySeq, LenProperties
  <2>2. \A i \in 1..n : names[i] \in Notes
    BY ElementOfSeq
  <2>3. \A i \in 1..n : names[i].time \in Nat
    BY <2>2 DEF Notes
  <2> QED BY <2>1, <2>3 DEF Fits
<1>2. \A i \in 1..n : Lasted(k, i) =
        IF i < n THEN Gap(names, i + 1)
        ELSE IF exits = {} THEN MaxClock + 1
        ELSE (CHOOSE exit \in exits : TRUE) - names[i].time
  <2> SUFFICES ASSUME NEW i \in 1..n
               PROVE  Lasted(k, i) =
                        IF i < n THEN Gap(names, i + 1)
                        ELSE IF exits = {} THEN MaxClock + 1
                        ELSE (CHOOSE exit \in exits : TRUE) - names[i].time
    OBVIOUS
  <2>1. (i + 1) - 1 = i
    BY <1>1
  <2> QED BY <2>1 DEF Lasted, Gap
<1>3. \A i \in 2..n : i - 1 \in 1..(n - 1) /\ i - 1 \in 1..n /\ i - 1 < n /\ (i - 1) + 1 = i
  BY <1>1
<1>4. \A i \in 2..n : Gap(names, i) < 2^(IntBits - 1)
  <2> SUFFICES ASSUME NEW i \in 2..n PROVE Gap(names, i) < 2^(IntBits - 1)
    OBVIOUS
  <2>1. Lasted(k, i - 1) = Gap(names, i)
    <3>1. i - 1 \in 1..n /\ i - 1 < n /\ (i - 1) + 1 = i
      BY <1>3
    <3> HIDE DEF names, n, exits
    <3> QED BY <1>2, <3>1
  <2> QED BY <1>3, <2>1
<1>5. LongestGap(names, D, n)
  <2>1. names \in Seq(Notes) /\ InOrder(names)
    BY DEF Fits
  <2> HIDE DEF names
  <2>2. PICK f : Best(names, f, n) /\ D = f[n]
    BY <2>1, DominantBest
  <2>3. n \in 1..n
    BY <1>1
  <2> QED BY <1>4, <2>1, <2>2, <2>3, BestIsLongest
<1>6. /\ D.time \in Nat /\ D.index \in 1..n
      /\ \A i \in 2..n : Gap(names, i) <= D.time
      /\ n > 1 => D.index < n /\ D.time = Gap(names, D.index + 1)
  BY <1>5 DEF LongestGap
<1>7. NameShown(k) = IF \A exit \in exits : Exceeds(exit - names[n].time, D.time)
                     THEN names[n].comm ELSE names[D.index].comm
  BY Zenon DEF NameShown, NameOnly
<1>8. \A j \in 1..n : j = n \/ (j < n /\ Lasted(k, j) = Gap(names, j + 1) /\ j + 1 \in 2..n)
  <2> SUFFICES ASSUME NEW j \in 1..n, j # n
               PROVE  j < n /\ Lasted(k, j) = Gap(names, j + 1) /\ j + 1 \in 2..n
    OBVIOUS
  <2>1. j < n /\ j + 1 \in 2..n
    BY <1>1
  <2> QED BY <1>2, <2>1
<1>9. \A j \in 1..n : j # n => Lasted(k, j) <= D.time
  BY <1>6, <1>8
<1>10. /\ exits = {} \/ \E e \in Nat : exits = {e} /\ \A i \in 1..n : names[i].time <= e
  BY <1>1 DEF Fits
<1> HIDE DEF names, exits, D, n
<1>11. CASE exits = {}
  <2>1. NameShown(k) = names[n].comm
    BY <1>7, <1>11
  <2>2. n \in 1..n /\ Lasted(k, n) = MaxClock + 1
    BY <1>1, <1>2, <1>11
  <2>3. ASSUME NEW j \in 1..n PROVE Lasted(k, j) <= Lasted(k, n)
    <3>1. CASE j = n
      BY <2>2, <3>1, LimitsAssumption
    <3>2. CASE j # n
      <4>1. j + 1 \in 1..n /\ (j + 1) - 1 = j /\ Lasted(k, j) = names[j + 1].time - names[j].time
        BY <1>1, <1>8, <3>2 DEF Gap
      <4>2. /\ names[j + 1].time \in Nat /\ names[j + 1].time <= thread[k].last
            /\ names[j].time \in Nat
        BY <1>1, <4>1
      <4> QED BY <2>2, <4>1, <4>2, LimitsAssumption
    <3> QED BY <3>1, <3>2
  <2> QED BY <1>1, <2>1, <2>2, <2>3 DEF names
<1>12. CASE exits # {}
  <2>1. PICK e \in Nat : exits = {e} /\ \A i \in 1..n : names[i].time <= e
    BY <1>10, <1>12
  <2>2. (CHOOSE exit \in exits : TRUE) = e
    BY <2>1
  <2>3. /\ n \in 1..n /\ Lasted(k, n) = e - names[n].time
        /\ names[n].time \in Nat /\ e - names[n].time >= 0
    BY <1>1, <1>2, <2>1, <2>2
  <2>4. NameShown(k) = IF Exceeds(e - names[n].time, D.time)
                       THEN names[n].comm ELSE names[D.index].comm
    BY <1>7, <2>1
  <2>5. \A j \in 1..n : j # n => Lasted(k, j) \in Int
    <3> SUFFICES ASSUME NEW j \in 1..n, j # n PROVE Lasted(k, j) \in Int
      OBVIOUS
    <3>1. j + 1 \in 1..n /\ (j + 1) - 1 = j /\ Lasted(k, j) = names[j + 1].time - names[j].time
      BY <1>1, <1>8 DEF Gap
    <3> QED BY <1>1, <3>1
  <2>6. CASE Exceeds(e - names[n].time, D.time)
    <3>1. e - names[n].time > D.time
      BY <1>6, <2>3, <2>6 DEF Exceeds
    <3>2. ASSUME NEW j \in 1..n PROVE Lasted(k, j) <= Lasted(k, n)
      <4>1. CASE j = n
        BY <2>1, <2>3, <4>1
      <4>2. CASE j # n
        BY <1>6, <1>9, <2>1, <2>3, <2>5, <3>1, <4>2
      <4> QED BY <4>1, <4>2
    <3> QED BY <1>1, <2>3, <2>4, <2>6, <3>2 DEF names
  <2>7. CASE ~Exceeds(e - names[n].time, D.time)
    <3>1. e - names[n].time <= D.time
      BY <1>6, <2>1, <2>3, <2>7 DEF Exceeds
    <3>2. CASE n = 1
      <4>1. D.index = 1 /\ n = 1
        BY <1>6, <3>2
      <4>2. \A j \in 1..n : Lasted(k, j) <= Lasted(k, 1)
        BY <2>1, <2>3, <3>2
      <4> QED BY <1>1, <2>3, <2>4, <2>7, <4>1, <4>2 DEF names
    <3>3. CASE n # 1
      <4>1. D.index \in 1..n /\ D.index # n /\ Lasted(k, D.index) = D.time
        BY <1>1, <1>6, <1>8, <3>3
      <4>2. ASSUME NEW j \in 1..n PROVE Lasted(k, j) <= Lasted(k, D.index)
        <5>1. CASE j = n
          BY <2>3, <3>1, <4>1, <5>1
        <5>2. CASE j # n
          BY <1>9, <4>1, <5>2
        <5> QED BY <5>1, <5>2
      <4> QED BY <1>1, <2>4, <2>7, <4>1, <4>2 DEF names
    <3> QED BY <3>2, <3>3
  <2> QED BY <2>6, <2>7
<1> QED BY <1>11, <1>12

(* The notes on a thread follow its events: every one comes later than what *)
(* it has been noted for, and the last is its end.                         *)
NamesInv ==
  /\ clock \in Nat /\ clock <= MaxClock
  /\ name_time_dict \in [Tids -> Seq(Notes)]
  /\ exit_time_dict \in [Tids -> SUBSET Nat]
  /\ \A k \in Tids : /\ thread[k].last \in Nat /\ thread[k].last <= clock
                     /\ tree[k] # Unknown => name_time_dict[k] # <<>>
  /\ \A k \in Tids \ reused : Fits(name_time_dict[k], exit_time_dict[k], thread[k])

(* An event of a thread, with or without a name, and with or without an end.*)
LEMMA FitsStep ==
  ASSUME NEW names \in Seq(Notes), NEW exits, NEW th, Fits(names, exits, th), th.life # "gone",
         NEW time \in Nat, th.last \in Nat, th.last <= time,
         NEW th2, th2.last = time, th2.life # "unborn", NEW comm \in Comms,
         NEW names2, names2 = names \/ names2 = Append(names, [comm |-> comm, time |-> time])
  PROVE  Fits(names2, exits, th2) /\ (th2.life = "gone" => Fits(names2, {time}, th2))
<1> DEFINE entry == [comm |-> comm, time |-> time]
           n == Len(names) + 1
<1>1. exits = {} /\ InOrder(names) /\ \A i \in DOMAIN names : names[i].time <= th.last
  BY DEF Fits
<1>2. /\ DOMAIN names \subseteq Nat /\ DOMAIN names = 1..Len(names) /\ Len(names) \in Nat
      /\ \A i \in DOMAIN names : names[i].time \in Nat
  <2>1. \A i \in DOMAIN names : names[i] \in Notes
    BY ElementOfSeq, LenProperties
  <2> QED BY <2>1, LenProperties DEF Notes
<1>3. \A i \in DOMAIN names : names[i].time <= time
  BY <1>1, <1>2
<1>4. InOrder(names2) /\ \A i \in DOMAIN names2 : names2[i].time <= time
  <2>1. CASE names2 = names
    BY <1>1, <1>3, <2>1
  <2>2. CASE names2 = Append(names, entry)
    <3>1. /\ DOMAIN names2 = DOMAIN names \cup {n} /\ names2[n] = entry
          /\ \A i \in DOMAIN names : names2[i] = names[i] /\ i < n
      <4>1. entry \in Notes
        BY DEF Notes
      <4> HIDE DEF entry
      <4>2. /\ Len(names2) = n /\ names2 \in Seq(Notes) /\ names2[n] = entry
            /\ \A i \in 1..Len(names) : names2[i] = names[i]
        BY <2>2, <4>1, AppendProperties
      <4>3. DOMAIN names2 = 1..n
        BY <4>2, LenProperties
      <4> QED BY <1>2, <4>2, <4>3
    <3>2. entry.time = time
      OBVIOUS
    <3>3. n \in Nat
      BY <1>2
    <3> HIDE DEF entry, n
    <3>4. \A i \in DOMAIN names2 : names2[i].time <= time
      <4> SUFFICES ASSUME NEW i \in DOMAIN names2 PROVE names2[i].time <= time
        OBVIOUS
      <4>1. CASE i = n
        BY <3>1, <3>2, <4>1
      <4>2. CASE i \in DOMAIN names
        BY <1>3, <3>1, <4>2
      <4> QED BY <3>1, <4>1, <4>2
    <3>5. ASSUME NEW i \in DOMAIN names2, NEW j \in DOMAIN names2, i < j
          PROVE  names2[i].time <= names2[j].time
      <4>1. CASE j = n
        BY <3>1, <3>2, <3>4, <4>1
      <4>2. CASE j \in DOMAIN names
        <5>1. i \in DOMAIN names
          BY <1>2, <3>1, <3>3, <3>5, <4>2
        <5> QED BY <1>1, <3>1, <3>5, <4>2, <5>1 DEF InOrder
      <4> QED BY <3>1, <4>1, <4>2
    <3> QED BY <3>4, <3>5 DEF InOrder
  <2> QED BY <2>1, <2>2
<1> QED BY <1>1, <1>4 DEF Fits

(* What an event may do to the notes on a thread.                           *)
Untouched(k) ==
  thread'[k] = thread[k] /\ name_time_dict'[k] = name_time_dict[k] /\ exit_time_dict'[k] = exit_time_dict[k]
Touched(k, comm, time) ==
  /\ thread'[k].last = time /\ thread'[k].life # "unborn"
  /\ k \in reused' \/ thread[k].life # "gone"
  /\ name_time_dict'[k]
       \in {name_time_dict[k], Append(name_time_dict[k], [comm |-> comm, time |-> time])}
  /\ \/ exit_time_dict'[k] = exit_time_dict[k]
     \/ thread'[k].life = "gone" /\ exit_time_dict'[k] = {time}

LEMMA NamesStep ==
  ASSUME NamesInv, NEW tid \in Tids, NEW time \in 1..MaxClock, Happens(tid, time),
         reused \subseteq reused', NEW comm \in Comms,
         name_time_dict' \in [Tids -> Seq(Notes)], exit_time_dict' \in [Tids -> SUBSET Nat],
         \A k \in Tids : tree'[k] # Unknown => name_time_dict'[k] # <<>>,
         \A k \in Tids : Untouched(k) \/ Touched(k, comm, time)
  PROVE  NamesInv'
<1>1. clock' = time /\ time \in Nat /\ time <= MaxClock /\ clock <= time /\ clock \in Nat
  BY LimitsAssumption DEF Happens, NamesInv
<1>2. \A k \in Tids : thread[k].last \in Nat /\ thread[k].last <= time
  BY <1>1 DEF NamesInv
<1>3. ASSUME NEW k \in Tids
      PROVE  thread'[k].last \in Nat /\ thread'[k].last <= time
  BY <1>1, <1>2 DEF Untouched, Touched
<1>4. ASSUME NEW k \in Tids \ reused'
      PROVE  Fits(name_time_dict'[k], exit_time_dict'[k], thread'[k])
  <2>1. Fits(name_time_dict[k], exit_time_dict[k], thread[k]) /\ name_time_dict[k] \in Seq(Notes)
    BY DEF NamesInv
  <2>2. CASE Untouched(k)
    BY <2>1, <2>2 DEF Untouched
  <2>3. CASE Touched(k, comm, time)
    <3>1. /\ Fits(name_time_dict'[k], exit_time_dict[k], thread'[k])
          /\ thread'[k].life = "gone" => Fits(name_time_dict'[k], {time}, thread'[k])
      <4>1. /\ thread'[k].last = time /\ thread'[k].life # "unborn" /\ thread[k].life # "gone"
            /\ \/ name_time_dict'[k] = name_time_dict[k]
               \/ name_time_dict'[k] = Append(name_time_dict[k], [comm |-> comm, time |-> time])
        BY <2>3, Zenon DEF Touched
      <4>2. time \in Nat /\ thread[k].last \in Nat /\ thread[k].last <= time
        BY <1>1, <1>2
      <4> QED BY <2>1, <4>1, <4>2, FitsStep, Zenon
    <3> QED BY <2>3, <3>1 DEF Touched
  <2> QED BY <2>2, <2>3
<1> QED BY <1>1, <1>3, <1>4 DEF NamesInv

LEMMA NameNoted ==
  ASSUME NEW dict \in [Tids -> Seq(Notes)], NEW tid \in Tids, NEW comm \in Comms, NEW time \in Nat
  PROVE  /\ Named(dict, tid, comm, time) \in [Tids -> Seq(Notes)]
         /\ Named(dict, tid, comm, time)[tid] = Append(dict[tid], [comm |-> comm, time |-> time])
         /\ Named(dict, tid, comm, time)[tid] # <<>>
         /\ \A k \in Tids : k # tid => Named(dict, tid, comm, time)[k] = dict[k]
<1> DEFINE entry == [comm |-> comm, time |-> time]
           dict2 == [dict EXCEPT ![tid] = Append(@, entry)]
<1>1. entry \in Notes
  BY DEF Notes
<1>2. Named(dict, tid, comm, time) = dict2
  BY Zenon DEF Named
<1> HIDE DEF entry
<1>3. dict[tid] \in Seq(Notes)
  OBVIOUS
<1>4. Append(dict[tid], entry) \in Seq(Notes) /\ Append(dict[tid], entry) # <<>>
  BY <1>1, <1>3, AppendProperties
<1>5. /\ dict2 \in [Tids -> Seq(Notes)] /\ dict2[tid] = Append(dict[tid], entry)
      /\ \A k \in Tids : k # tid => dict2[k] = dict[k]
  BY <1>4
<1> QED BY <1>2, <1>4, <1>5 DEF entry

LEMMA SelfNoted ==
  ASSUME HeardInv, NamesInv, NEW tid \in Tids, NEW comm \in Comms, NEW time \in Nat
  PROVE  LET self == NoteSelf(tid, comm, time)
         IN  /\ self.names \in [Tids -> Seq(Notes)]
             /\ \A k \in Tids : k # tid => self.names[k] = name_time_dict[k] /\ self.tree[k] = tree[k]
             /\ self.names[tid] # <<>>
             /\ self.names[tid]
                  \in {name_time_dict[tid], Append(name_time_dict[tid], [comm |-> comm, time |-> time])}
<1> DEFINE self == NoteSelf(tid, comm, time)
           noted == Named(name_time_dict, tid, comm, time)
<1>1. name_time_dict \in [Tids -> Seq(Notes)] /\ (tree[tid] # Unknown => name_time_dict[tid] # <<>>)
  BY DEF NamesInv
<1>2. DOMAIN tree = Tids
  BY DEF HeardInv, Noted
<1>3. /\ self.names = IF FirstHeard(tid) THEN noted ELSE name_time_dict
      /\ self.tree = IF FirstHeard(tid) THEN [tree EXCEPT ![tid] = Root] ELSE tree
  BY DEF NoteSelf
<1>4. /\ noted \in [Tids -> Seq(Notes)]
      /\ noted[tid] = Append(name_time_dict[tid], [comm |-> comm, time |-> time])
      /\ noted[tid] # <<>>
      /\ \A k \in Tids : k # tid => noted[k] = name_time_dict[k]
  BY <1>1, NameNoted
<1>5. \A k \in Tids : k # tid => self.tree[k] = tree[k]
  BY <1>2, <1>3
<1> HIDE DEF self, noted
<1>6. CASE FirstHeard(tid)
  BY <1>3, <1>4, <1>5, <1>6 DEF self
<1>7. CASE ~FirstHeard(tid)
  BY <1>1, <1>3, <1>5, <1>7 DEF self, FirstHeard
<1> QED BY <1>6, <1>7

LEMMA NamesInvariance == TreeSpec => [](HeardInv /\ NamesInv)
<1>1. ASSUME TreeInit PROVE NamesInv
  <2>1. <<>> \in Seq(Notes) /\ DOMAIN <<>> = {} /\ 0 \in Nat /\ 0 <= MaxClock
    BY LimitsAssumption
  <2>2. /\ clock = 0 /\ tree = [t \in Tids |-> Unknown]
        /\ name_time_dict = [t \in Tids |-> <<>>] /\ exit_time_dict = [t \in Tids |-> {}]
        /\ \A k \in Tids : thread[k].last = 0
    BY <1>1 DEF TreeInit
  <2>3. name_time_dict \in [Tids -> Seq(Notes)] /\ exit_time_dict \in [Tids -> SUBSET Nat]
    BY <2>1, <2>2
  <2>4. \A k \in Tids : Fits(name_time_dict[k], exit_time_dict[k], thread[k])
    <3>1. \A k \in Tids : name_time_dict[k] = <<>> /\ exit_time_dict[k] = {}
      BY <2>2
    <3> QED BY <2>1, <3>1 DEF Fits, InOrder
  <2> QED BY <2>1, <2>2, <2>3, <2>4 DEF NamesInv
<1>2. HeardInv /\ NamesInv /\ [TreeNext]_treeVars => NamesInv'
  <2> SUFFICES ASSUME HeardInv, NamesInv, [TreeNext]_treeVars PROVE NamesInv'
    OBVIOUS
  <2>1. /\ thread \in [Tids -> Threads]
        /\ name_time_dict \in [Tids -> Seq(Notes)] /\ exit_time_dict \in [Tids -> SUBSET Nat]
        /\ \A k \in Tids : tree[k] # Unknown => name_time_dict[k] # <<>>
        /\ \A k \in Tids : thread[k].comm \in Comms
        /\ DOMAIN tree = Tids
    BY DEF HeardInv, NamesInv, Threads, Noted
  <2>2. \A time \in 1..MaxClock : time \in Nat /\ time \in Int
    BY LimitsAssumption
  <2>3. ASSUME NEW tid \in Tids, NEW time \in 1..MaxClock, NEW child \in Tids,
               ForkEvent(tid, time, child)
        PROVE  NamesInv'
    <3> DEFINE comm == thread[tid].comm
               self == NoteSelf(tid, comm, time)
               noted == Named(self.names, child, comm, time)
    <3>1. /\ Happens(tid, time) /\ reused \subseteq reused'
          /\ thread[tid].life = "alive" /\ thread[child].life # "alive" /\ tid # child
          /\ thread[child].life = "gone" => child \in reused'
          /\ thread' = [thread EXCEPT ![tid].last = time,
               ![child] = [life |-> "alive", comm |-> thread[tid].comm, last |-> time]]
      BY <2>3 DEF ForkEvent, Happens, resultVars
    <3>2. /\ thread'[tid].last = time /\ thread'[tid].life = "alive"
          /\ thread'[child].last = time /\ thread'[child].life = "alive"
          /\ \A k \in Tids : k # tid /\ k # child => thread'[k] = thread[k]
      BY <2>1, <3>1 DEF Threads
    <3>3. comm \in Comms /\ time \in Nat
      BY <2>1, <2>2
    <3> HIDE DEF comm
    <3>4. CASE UNCHANGED noteVars
      <4>1. UNCHANGED <<tree, name_time_dict, exit_time_dict>>
        BY <3>4, Zenon DEF noteVars
      <4>2. \A k \in Tids : Untouched(k) \/ Touched(k, comm, time)
        BY <3>1, <3>2, <4>1 DEF Untouched, Touched
      <4>3. /\ name_time_dict' \in [Tids -> Seq(Notes)] /\ exit_time_dict' \in [Tids -> SUBSET Nat]
            /\ \A k \in Tids : tree'[k] # Unknown => name_time_dict'[k] # <<>>
        BY <2>1, <4>1
      <4> QED BY <3>1, <3>3, <4>2, <4>3, NamesStep
    <3>5. CASE NewProc(tid, comm, time, child)
      <4>1. /\ tree' = [self.tree EXCEPT ![child] = tid]
            /\ name_time_dict' = noted /\ exit_time_dict' = exit_time_dict
        BY <3>5, Zenon DEF NewProc, Parented
      <4>2. /\ self.names \in [Tids -> Seq(Notes)]
            /\ \A k \in Tids : k # tid => self.names[k] = name_time_dict[k] /\ self.tree[k] = tree[k]
            /\ self.names[tid] # <<>>
            /\ self.names[tid]
                 \in {name_time_dict[tid], Append(name_time_dict[tid], [comm |-> comm, time |-> time])}
        BY <3>3, SelfNoted
      <4>3. DOMAIN self.tree = Tids
        BY <2>1 DEF NoteSelf
      <4> HIDE DEF self
      <4>4. /\ noted \in [Tids -> Seq(Notes)]
            /\ noted[child] = Append(self.names[child], [comm |-> comm, time |-> time])
            /\ noted[child] # <<>>
            /\ \A k \in Tids : k # child => noted[k] = self.names[k]
        BY <3>3, <4>2, NameNoted
      <4> HIDE DEF noted
      <4>5. Touched(child, comm, time)
        <5>1. name_time_dict'[child] = Append(name_time_dict[child], [comm |-> comm, time |-> time])
          BY <3>1, <4>1, <4>2, <4>4
        <5> QED BY <3>1, <3>2, <4>1, <5>1 DEF Touched
      <4>6. Touched(tid, comm, time)
        <5>1. name_time_dict'[tid] = self.names[tid]
          BY <3>1, <4>1, <4>4
        <5> QED BY <3>1, <3>2, <4>1, <4>2, <5>1 DEF Touched
      <4>7. \A k \in Tids : k # tid /\ k # child => Untouched(k)
        BY <3>2, <4>1, <4>2, <4>4 DEF Untouched
      <4>8. \A k \in Tids : Untouched(k) \/ Touched(k, comm, time)
        BY <4>5, <4>6, <4>7
      <4>9. \A k \in Tids : tree'[k] # Unknown => name_time_dict'[k] # <<>>
        <5> SUFFICES ASSUME NEW k \in Tids, tree'[k] # Unknown PROVE name_time_dict'[k] # <<>>
          OBVIOUS
        <5>1. CASE k = child
          BY <4>1, <4>4, <5>1
        <5>2. CASE k = tid /\ k # child
          BY <4>1, <4>2, <4>4, <5>2
        <5>3. CASE k # tid /\ k # child
          <6>1. tree'[k] = tree[k] /\ name_time_dict'[k] = name_time_dict[k]
            BY <4>1, <4>2, <4>3, <4>4, <5>3
          <6> QED BY <2>1, <6>1
        <5> QED BY <5>1, <5>2, <5>3
      <4>10. name_time_dict' \in [Tids -> Seq(Notes)] /\ exit_time_dict' \in [Tids -> SUBSET Nat]
        BY <2>1, <4>1, <4>4
      <4> QED BY <3>1, <3>3, <4>8, <4>9, <4>10, NamesStep
    <3> QED BY <2>3, <3>4, <3>5 DEF ForkEvent, Told, comm
  <2>4. ASSUME NEW tid \in Tids, NEW time \in 1..MaxClock, NEW comm \in Comms,
               Happens(tid, time), thread'[tid].last = time, thread'[tid].life # "unborn",
               \A k \in Tids : k # tid => thread'[k] = thread[k],
               UNCHANGED reused,
               \/ UNCHANGED noteVars
               \/ /\ tree' = NoteSelf(tid, comm, time).tree
                  /\ \/ name_time_dict' = NoteSelf(tid, comm, time).names
                     \/ /\ ~FirstHeard(tid)
                        /\ name_time_dict' = Named(name_time_dict, tid, comm, time)
                  /\ \/ exit_time_dict' = exit_time_dict
                     \/ /\ thread'[tid].life = "gone"
                        /\ exit_time_dict' = [exit_time_dict EXCEPT ![tid] = {time}]
        PROVE  NamesInv'
    <3>1. thread[tid].life = "alive" /\ time \in Nat /\ reused \subseteq reused'
      BY <2>2, <2>4 DEF Happens
    <3>2. CASE UNCHANGED noteVars
      <4>1. UNCHANGED <<tree, name_time_dict, exit_time_dict>>
        BY <3>2, Zenon DEF noteVars
      <4>2. \A k \in Tids : Untouched(k) \/ Touched(k, comm, time)
        BY <2>4, <3>1, <4>1 DEF Untouched, Touched
      <4>3. /\ name_time_dict' \in [Tids -> Seq(Notes)] /\ exit_time_dict' \in [Tids -> SUBSET Nat]
            /\ \A k \in Tids : tree'[k] # Unknown => name_time_dict'[k] # <<>>
        BY <2>1, <4>1
      <4> QED BY <2>4, <3>1, <4>2, <4>3, NamesStep
    <3>3. CASE ~UNCHANGED noteVars
      <4> DEFINE self == NoteSelf(tid, comm, time)
                 noted == Named(name_time_dict, tid, comm, time)
      <4>1. /\ tree' = self.tree
            /\ name_time_dict' = self.names \/ (~FirstHeard(tid) /\ name_time_dict' = noted)
            /\ \/ exit_time_dict' = exit_time_dict
               \/ /\ thread'[tid].life = "gone"
                  /\ exit_time_dict' = [exit_time_dict EXCEPT ![tid] = {time}]
        BY <2>4, <3>3, Zenon
      <4>2. /\ self.names \in [Tids -> Seq(Notes)]
            /\ \A k \in Tids : k # tid => self.names[k] = name_time_dict[k] /\ self.tree[k] = tree[k]
            /\ self.names[tid] # <<>>
            /\ self.names[tid]
                 \in {name_time_dict[tid], Append(name_time_dict[tid], [comm |-> comm, time |-> time])}
        BY <3>1, SelfNoted
      <4>3. /\ noted \in [Tids -> Seq(Notes)]
            /\ noted[tid] = Append(name_time_dict[tid], [comm |-> comm, time |-> time])
            /\ noted[tid] # <<>>
            /\ \A k \in Tids : k # tid => noted[k] = name_time_dict[k]
        BY <2>1, <3>1, NameNoted
      <4> HIDE DEF self, noted
      <4>4. /\ name_time_dict' \in [Tids -> Seq(Notes)] /\ name_time_dict'[tid] # <<>>
            /\ \A k \in Tids : k # tid => name_time_dict'[k] = name_time_dict[k]
            /\ name_time_dict'[tid]
                 \in {name_time_dict[tid], Append(name_time_dict[tid], [comm |-> comm, time |-> time])}
        BY <4>1, <4>2, <4>3
      <4>5. /\ exit_time_dict' \in [Tids -> SUBSET Nat]
            /\ \A k \in Tids : k # tid => exit_time_dict'[k] = exit_time_dict[k]
            /\ \/ exit_time_dict'[tid] = exit_time_dict[tid]
               \/ thread'[tid].life = "gone" /\ exit_time_dict'[tid] = {time}
        BY <2>1, <3>1, <4>1
      <4>6. Touched(tid, comm, time)
        BY <2>4, <3>1, <4>4, <4>5 DEF Touched
      <4>7. \A k \in Tids : k # tid => Untouched(k)
        BY <2>4, <4>4, <4>5 DEF Untouched
      <4>8. \A k \in Tids : Untouched(k) \/ Touched(k, comm, time)
        BY <4>6, <4>7
      <4>9. \A k \in Tids : tree'[k] # Unknown => name_time_dict'[k] # <<>>
        BY <2>1, <4>1, <4>2, <4>4
      <4> QED BY <2>4, <3>1, <4>4, <4>5, <4>8, <4>9, NamesStep
    <3> QED BY <3>2, <3>3
  <2>5. ASSUME NEW tid \in Tids, NEW time \in 1..MaxClock, NEW comm \in Comms,
               ExecveEvent(tid, time, comm)
        PROVE  NamesInv'
    <3>1. /\ Happens(tid, time) /\ UNCHANGED reused
          /\ thread' = [thread EXCEPT ![tid].comm = comm, ![tid].last = time]
          /\ UNCHANGED noteVars \/ Execve(tid, comm, time)
      BY <2>5 DEF ExecveEvent, Told
    <3>2. /\ thread'[tid].last = time /\ thread'[tid].life = "alive"
          /\ \A k \in Tids : k # tid => thread'[k] = thread[k]
      BY <2>1, <3>1 DEF Threads, Happens
    <3>3. Execve(tid, comm, time) =>
            /\ tree' = NoteSelf(tid, comm, time).tree
            /\ \/ name_time_dict' = NoteSelf(tid, comm, time).names
               \/ /\ ~FirstHeard(tid)
                  /\ name_time_dict' = Named(name_time_dict, tid, comm, time)
            /\ exit_time_dict' = exit_time_dict
      BY Zenon DEF Execve
    <3> QED BY <2>4, <3>1, <3>2, <3>3
  <2>6. ASSUME NEW tid \in Tids, NEW time \in 1..MaxClock, ExitEvent(tid, time)
        PROVE  NamesInv'
    <3> DEFINE comm == thread[tid].comm
    <3>1. /\ Happens(tid, time) /\ UNCHANGED reused
          /\ thread' = [thread EXCEPT ![tid].life = "gone", ![tid].last = time]
          /\ UNCHANGED noteVars \/ Exit(tid, comm, time)
      BY <2>6 DEF ExitEvent, Told
    <3>2. /\ thread'[tid].last = time /\ thread'[tid].life = "gone"
          /\ \A k \in Tids : k # tid => thread'[k] = thread[k]
      BY <2>1, <3>1 DEF Threads
    <3>3. Exit(tid, comm, time) =>
            /\ tree' = NoteSelf(tid, comm, time).tree
            /\ name_time_dict' = NoteSelf(tid, comm, time).names
            /\ exit_time_dict' = [exit_time_dict EXCEPT ![tid] = {time}]
      BY Zenon DEF Exit
    <3>4. comm \in Comms
      BY <2>1
    <3> HIDE DEF comm
    <3> QED BY <2>4, <3>1, <3>2, <3>3, <3>4
  <2>7. CASE Stop \/ ListNext \/ UNCHANGED treeVars
    <3>1. UNCHANGED <<clock, thread, reused, tree, name_time_dict, exit_time_dict>>
      BY <2>7, Zenon DEF Stop, ListNext, treeVars, worldVars, noteVars
    <3> QED BY <3>1, Zenon DEF NamesInv
  <2> QED BY <2>3, <2>5, <2>6, <2>7 DEF TreeNext
<1> QED BY <1>1, <1>2, HeardInvariance, PTL DEF TreeSpec

(* The result names a thread after the notes on it, which nothing changes   *)
(* once the first thread is listed.                                        *)
ShownInv ==
  \A s \in DOMAIN shown :
    /\ shown[s].tid \in Tids /\ name_time_dict[shown[s].tid] # <<>>
    /\ shown[s].name = NameShown(shown[s].tid)

LEMMA ShownStep ==
  ASSUME HeardInv, ListedInv, NamesInv, ShownInv, [TreeNext]_treeVars
  PROVE  ShownInv'
<1>1. CASE next_added = 0 /\ UNCHANGED shown
  <2>1. shown' = <<>>
    BY <1>1 DEF ListedInv
  <2> QED BY <2>1 DEF ShownInv
<1>2. CASE UNCHANGED <<name_time_dict, exit_time_dict, shown>>
  <2>1. \A k : NameShown(k)' = NameShown(k)
    BY <1>2, Zenon DEF NameShown, NameOnly
  <2> QED BY <1>2, <2>1 DEF ShownInv
<1>3. CASE ListNext
  <2> DEFINE k == added_list[next_added].tid
             entry == [tid |-> k, parent |-> tree[k], name |-> NameShown(k)]
  <2>1. /\ next_added \in DOMAIN added_list
        /\ UNCHANGED <<name_time_dict, exit_time_dict>>
        /\ shown' = shown \/ shown' = Append(shown, entry)
    BY <1>3 DEF ListNext, noteVars
  <2>2. \A t : NameShown(t)' = NameShown(t)
    BY <2>1, Zenon DEF NameShown, NameOnly
  <2>3. k \in Tids /\ name_time_dict[k] # <<>>
    <3>1. added_list \in Seq(Entries) /\ tree[k] # Unknown
      BY <2>1 DEF HeardInv, Noted
    <3>2. k \in Tids
      BY <2>1, <3>1, EntriesTyped
    <3> QED BY <3>1, <3>2 DEF NamesInv
  <2>4. entry.tid = k /\ entry.name = NameShown(k)
    OBVIOUS
  <2> HIDE DEF entry, k
  <2>5. PICK S : shown \in Seq(S)
    BY DEF ListedInv
  <2>6. CASE shown' = shown
    BY <1>2, <2>1, <2>6
  <2>7. CASE shown' = Append(shown, entry)
    <3>1. /\ DOMAIN shown' = DOMAIN shown \cup {Len(shown) + 1}
          /\ shown'[Len(shown) + 1] = entry
          /\ \A s \in DOMAIN shown : shown'[s] = shown[s]
      <4>1. shown \in Seq(S \cup {entry})
        BY <2>5, SeqMonotonic
      <4>2. /\ Len(shown') = Len(shown) + 1 /\ shown' \in Seq(S \cup {entry})
            /\ shown'[Len(shown) + 1] = entry
            /\ \A s \in 1..Len(shown) : shown'[s] = shown[s]
        BY <2>7, <4>1, AppendProperties
      <4> QED BY <4>1, <4>2, LenProperties
    <3>2. ASSUME NEW s \in DOMAIN shown'
          PROVE  /\ shown'[s].tid \in Tids /\ name_time_dict'[shown'[s].tid] # <<>>
                 /\ shown'[s].name = NameShown(shown'[s].tid)
      <4>1. CASE s \in DOMAIN shown
        BY <2>1, <3>1, <4>1 DEF ShownInv
      <4>2. CASE s = Len(shown) + 1
        BY <2>1, <2>3, <2>4, <3>1, <4>2
      <4> QED BY <3>1, <4>1, <4>2
    <3> QED BY <2>2, <3>2 DEF ShownInv
  <2> QED BY <2>1, <2>6, <2>7
<1>4. CASE \E tid \in Tids, time \in 1..MaxClock :
             \/ \E child \in Tids : ForkEvent(tid, time, child)
             \/ \E comm \in Comms : ExecveEvent(tid, time, comm)
             \/ ExitEvent(tid, time)
  <2>1. next_added = 0 /\ UNCHANGED shown
    BY <1>4 DEF ForkEvent, ExecveEvent, ExitEvent, Happens, resultVars
  <2> QED BY <1>1, <2>1
<1>5. CASE Stop
  BY <1>2, <1>5 DEF Stop
<1>6. CASE UNCHANGED treeVars
  BY <1>2, <1>6 DEF treeVars, noteVars, resultVars
<1> QED BY <1>3, <1>4, <1>5, <1>6 DEF TreeNext

(* LongestNameShown, for any number of threads, names, events and losses    *)
(* and any width of an int that no change of name exceeds.                 *)
THEOREM LongestNameShownTheorem == SubclientSpec => []LongestNameShown
<1>1. ASSUME TreeInit PROVE ShownInv
  BY <1>1 DEF TreeInit, ShownInv
<1>2. HeardInv /\ ListedInv /\ NamesInv /\ ShownInv /\ [TreeNext]_treeVars => ShownInv'
  BY ShownStep
<1>3. ASSUME NamesInv, ShownInv PROVE LongestNameShown
  <2> SUFFICES ASSUME NEW s \in DOMAIN shown, shown[s].tid \notin reused,
                      \A i \in 1..(Len(name_time_dict[shown[s].tid]) - 1) :
                        Lasted(shown[s].tid, i) < 2^(IntBits - 1)
               PROVE  \E i \in DOMAIN name_time_dict[shown[s].tid] :
                        /\ name_time_dict[shown[s].tid][i].comm = shown[s].name
                        /\ \A j \in DOMAIN name_time_dict[shown[s].tid] :
                             Lasted(shown[s].tid, j) <= Lasted(shown[s].tid, i)
    BY Zenon DEF LongestNameShown
  <2> DEFINE k == shown[s].tid
  <2>1. k \in Tids /\ k \notin reused /\ name_time_dict[k] # <<>> /\ shown[s].name = NameShown(k)
    BY <1>3 DEF ShownInv
  <2> HIDE DEF k
  <2>2. /\ name_time_dict[k] \in Seq(Notes)
        /\ Fits(name_time_dict[k], exit_time_dict[k], thread[k])
        /\ thread[k].last \in Nat /\ thread[k].last <= MaxClock
    BY <1>3, <2>1, LimitsAssumption DEF NamesInv
  <2>3. \A i \in 1..(Len(name_time_dict[k]) - 1) : Lasted(k, i) < 2^(IntBits - 1)
    BY Zenon DEF k
  <2>4. \E i \in DOMAIN name_time_dict[k] :
          /\ name_time_dict[k][i].comm = NameShown(k)
          /\ \A j \in DOMAIN name_time_dict[k] : Lasted(k, j) <= Lasted(k, i)
    BY <2>1, <2>2, <2>3, ShownIsLongest, Zenon
  <2> QED BY <2>1, <2>4, Zenon DEF k
<1> QED BY <1>1, <1>2, <1>3, ListedInvariance, NamesInvariance, SubclientSimulates, PTL DEF TreeSpec

-----------------------------------------------------------------------------
(* Sums over finite sets.                                                   *)

Pick(s) == CHOOSE x \in s : TRUE
SumStep(g, s, f) == IF s = {} THEN 0 ELSE f[Pick(s)] + g[s \ {Pick(s)}]
Sums(g, S, f) == g = [s \in SUBSET S |-> SumStep(g, s, f)]

LEMMA PickTaken ==
  ASSUME NEW S, IsFiniteSet(S), NEW s \in SUBSET S
  PROVE  /\ IsFiniteSet(s) /\ Cardinality(s) \in Nat
         /\ Cardinality(s) = 0 <=> s = {}
         /\ s # {} => /\ Pick(s) \in s /\ s \ {Pick(s)} \in SUBSET S
                      /\ Cardinality(s \ {Pick(s)}) = Cardinality(s) - 1
<1>1. IsFiniteSet(s) /\ Cardinality(s) \in Nat
  BY FS_Subset, FS_CardinalityType
<1>2. Cardinality(s) = 0 <=> s = {}
  BY <1>1, FS_EmptySet
<1>3. s # {} => Pick(s) \in s
  BY DEF Pick
<1>4. s # {} => Cardinality(s \ {Pick(s)}) = Cardinality(s) - 1
  BY <1>1, <1>3, FS_RemoveElement
<1> QED BY <1>1, <1>2, <1>3, <1>4

LEMMA SumsExist ==
  ASSUME NEW S, IsFiniteSet(S), NEW f, \A x \in S : f[x] \in Int
  PROVE  \E g \in [SUBSET S -> Int] : Sums(g, S, f)
<1> DEFINE Upto(g, n) == \A s \in SUBSET S : Cardinality(s) <= n => g[s] = SumStep(g, s, f)
           G == {n \in Nat : \E g \in [SUBSET S -> Int] : Upto(g, n)}
<1>1. 0 \in G
  <2> DEFINE g == [s \in SUBSET S |-> 0]
  <2>1. g \in [SUBSET S -> Int]
    OBVIOUS
  <2>2. ASSUME NEW s \in SUBSET S, Cardinality(s) <= 0 PROVE g[s] = SumStep(g, s, f)
    <3>1. Cardinality(s) \in Nat /\ (Cardinality(s) = 0 <=> s = {})
      BY PickTaken, Zenon
    <3>2. s = {}
      BY <2>2, <3>1
    <3> QED BY <3>2 DEF SumStep
  <2> HIDE DEF g
  <2>3. Upto(g, 0)
    BY <2>2
  <2> QED BY <2>1, <2>3
<1>2. ASSUME NEW n \in Nat, n \in G PROVE n + 1 \in G
  <2>1. PICK g \in [SUBSET S -> Int] : Upto(g, n)
    BY <1>2
  <2> DEFINE h == [s \in SUBSET S |->
                     IF Cardinality(s) <= n THEN g[s] ELSE f[Pick(s)] + g[s \ {Pick(s)}]]
  <2>2. ASSUME NEW s \in SUBSET S, ~(Cardinality(s) <= n)
        PROVE  /\ f[Pick(s)] + g[s \ {Pick(s)}] \in Int
               /\ s # {}
    <3>1. /\ Cardinality(s) \in Nat /\ (Cardinality(s) = 0 <=> s = {})
          /\ s # {} => Pick(s) \in s /\ s \ {Pick(s)} \in SUBSET S
      BY PickTaken, Zenon
    <3>2. s # {}
      BY <2>2, <3>1
    <3>3. Pick(s) \in S /\ s \ {Pick(s)} \in SUBSET S
      BY <3>1, <3>2
    <3> HIDE DEF G, Upto
    <3>4. f[Pick(s)] \in Int /\ g[s \ {Pick(s)}] \in Int
      BY <3>3
    <3> QED BY <3>2, <3>4
  <2>3. h \in [SUBSET S -> Int]
    BY <2>2
  <2>4. \A s \in SUBSET S :
          h[s] = IF Cardinality(s) <= n THEN g[s] ELSE f[Pick(s)] + g[s \ {Pick(s)}]
    OBVIOUS
  <2> HIDE DEF h
  <2>5. ASSUME NEW s \in SUBSET S, Cardinality(s) <= n + 1 PROVE h[s] = SumStep(h, s, f)
    <3>1. s # {} => h[s \ {Pick(s)}] = g[s \ {Pick(s)}]
      <4>1. SUFFICES ASSUME s # {} PROVE h[s \ {Pick(s)}] = g[s \ {Pick(s)}]
        OBVIOUS
      <4>2. s \ {Pick(s)} \in SUBSET S /\ Cardinality(s \ {Pick(s)}) <= n
        BY <2>5, <4>1, PickTaken
      <4> QED BY <2>4, <4>2
    <3>2. CASE Cardinality(s) <= n
      <4>1. h[s] = SumStep(g, s, f)
        BY <2>1, <2>4, <3>2
      <4> QED BY <3>1, <4>1 DEF SumStep
    <3>3. CASE ~(Cardinality(s) <= n)
      <4>1. s # {} /\ h[s] = f[Pick(s)] + g[s \ {Pick(s)}]
        BY <2>2, <2>4, <3>3
      <4> QED BY <3>1, <4>1 DEF SumStep
    <3> QED BY <3>2, <3>3
  <2>6. Upto(h, n + 1)
    BY <2>5
  <2> QED BY <2>3, <2>6
<1>3. \A n \in Nat : n \in G => n + 1 \in G
  BY <1>2
<1> HIDE DEF G
<1>4. Nat \subseteq G
  BY <1>1, <1>3, CountUp
<1>5. Cardinality(S) \in G
  BY <1>4, FS_CardinalityType
<1>6. PICK g \in [SUBSET S -> Int] : Upto(g, Cardinality(S))
  BY <1>5 DEF G
<1>7. ASSUME NEW s \in SUBSET S PROVE g[s] = SumStep(g, s, f)
  BY <1>6, FS_Subset
<1>8. g = [s \in SUBSET S |-> g[s]]
  OBVIOUS
<1>9. g = [s \in SUBSET S |-> SumStep(g, s, f)]
  BY <1>7, <1>8
<1> QED BY <1>9 DEF Sums

(* Sums of the same numbers are the same.                                   *)
LEMMA SumsAgree ==
  ASSUME NEW S, NEW T, IsFiniteSet(T), S \subseteq T,
         NEW f, NEW g, \A x \in S : f[x] = g[x],
         NEW a, Sums(a, S, f), NEW b, Sums(b, T, g)
  PROVE  \A s \in SUBSET S : a[s] = b[s]
<1> DEFINE G == {n \in Nat : \A s \in SUBSET S : Cardinality(s) <= n => a[s] = b[s]}
<1>1. ASSUME NEW s \in SUBSET S
      PROVE  a[s] = SumStep(a, s, f) /\ b[s] = SumStep(b, s, g)
  <2>1. s \in SUBSET T
    OBVIOUS
  <2> QED BY <2>1 DEF Sums
<1>2. IsFiniteSet(S)
  BY FS_Subset
<1>3. 0 \in G
  <2>1. ASSUME NEW s \in SUBSET S, Cardinality(s) <= 0 PROVE a[s] = b[s]
    <3>1. Cardinality(s) \in Nat /\ (Cardinality(s) = 0 <=> s = {})
      BY <1>2, PickTaken, Zenon
    <3>2. s = {}
      BY <2>1, <3>1
    <3> QED BY <1>1, <3>2 DEF SumStep
  <2> QED BY <2>1
<1>4. ASSUME NEW n \in Nat, n \in G PROVE n + 1 \in G
  <2>1. ASSUME NEW s \in SUBSET S, Cardinality(s) <= n + 1 PROVE a[s] = b[s]
    <3>1. CASE s = {}
      BY <1>1, <3>1 DEF SumStep
    <3>2. CASE s # {}
      <4>1. /\ Pick(s) \in s /\ s \ {Pick(s)} \in SUBSET S
            /\ Cardinality(s \ {Pick(s)}) <= n
        BY <1>2, <2>1, <3>2, PickTaken
      <4>2. a[s \ {Pick(s)}] = b[s \ {Pick(s)}] /\ f[Pick(s)] = g[Pick(s)]
        BY <1>4, <4>1
      <4> QED BY <1>1, <3>2, <4>2 DEF SumStep
    <3> QED BY <3>1, <3>2
  <2> QED BY <2>1
<1>5. \A n \in Nat : n \in G => n + 1 \in G
  BY <1>4
<1> HIDE DEF G
<1>6. Nat \subseteq G
  BY <1>3, <1>5, CountUp
<1>7. ASSUME NEW s \in SUBSET S PROVE a[s] = b[s]
  <2>1. Cardinality(s) \in G /\ Cardinality(s) \in Nat
    BY <1>2, <1>6, PickTaken
  <2> QED BY <2>1 DEF G
<1> QED BY <1>7

LEMMA TotalIs ==
  ASSUME NEW S, IsFiniteSet(S), NEW f, \A x \in S : f[x] \in Int
  PROVE  \E g : g \in [SUBSET S -> Int] /\ Sums(g, S, f) /\ Total(S, f) = g[S]
<1> DEFINE g == CHOOSE g : Sums(g, S, f)
<1>1. Total(S, f) = g[S]
  BY Zenon DEF Total, SumFunctionOnSet, FoldFunctionOnSet, MapThenFoldSet, Sums, SumStep, Pick
<1>2. PICK h \in [SUBSET S -> Int] : Sums(h, S, f)
  BY SumsExist
<1>3. Sums(g, S, f)
  BY <1>2
<1> HIDE DEF g
<1>4. \A s \in SUBSET S : g[s] = h[s]
  BY <1>2, <1>3, SumsAgree
<1>5. g \in [SUBSET S -> Int]
  <2>1. g = [s \in SUBSET S |-> SumStep(g, s, f)]
    BY <1>3 DEF Sums
  <2>2. g = [s \in SUBSET S |-> g[s]]
    BY <2>1, Zenon
  <2> QED BY <1>4, <2>2
<1> QED BY <1>1, <1>3, <1>5

LEMMA TotalTyped ==
  ASSUME NEW S, IsFiniteSet(S), NEW f, \A x \in S : f[x] \in Int
  PROVE  Total(S, f) \in Int
<1>1. PICK g \in [SUBSET S -> Int] : Total(S, f) = g[S]
  BY TotalIs
<1>2. S \in SUBSET S
  OBVIOUS
<1> QED BY <1>1, <1>2

LEMMA TotalAgrees ==
  ASSUME NEW S, IsFiniteSet(S), NEW f, NEW g, \A x \in S : f[x] \in Int /\ f[x] = g[x]
  PROVE  Total(S, f) = Total(S, g)
<1>1. PICK a : Sums(a, S, f) /\ Total(S, f) = a[S]
  BY TotalIs
<1>2. PICK b : Sums(b, S, g) /\ Total(S, g) = b[S]
  BY TotalIs
<1>3. \A s \in SUBSET S : a[s] = b[s]
  BY <1>1, <1>2, SumsAgree
<1>4. S \in SUBSET S
  OBVIOUS
<1> QED BY <1>1, <1>2, <1>3, <1>4

LEMMA TotalStep ==
  ASSUME NEW S, IsFiniteSet(S), NEW f, \A x \in S : f[x] \in Int
  PROVE  Total(S, f) = IF S = {} THEN 0 ELSE f[Pick(S)] + Total(S \ {Pick(S)}, f)
<1>1. PICK a : Sums(a, S, f) /\ Total(S, f) = a[S]
  BY TotalIs
<1>2. S \in SUBSET S
  OBVIOUS
<1>3. a[S] = SumStep(a, S, f)
  BY <1>1, <1>2 DEF Sums
<1>4. CASE S = {}
  BY <1>1, <1>3, <1>4 DEF SumStep
<1>5. CASE S # {}
  <2> DEFINE R == S \ {Pick(S)}
  <2>1. R \subseteq S /\ IsFiniteSet(R) /\ R \in SUBSET R
    BY FS_Subset
  <2> HIDE DEF R
  <2>2. PICK b : Sums(b, R, f) /\ Total(R, f) = b[R]
    BY <2>1, TotalIs
  <2>3. \A s \in SUBSET R : b[s] = a[s]
    BY <1>1, <2>1, <2>2, SumsAgree
  <2>4. Total(R, f) = a[R]
    BY <2>1, <2>2, <2>3
  <2> QED BY <1>1, <1>3, <1>5, <2>4 DEF SumStep, R
<1> QED BY <1>4, <1>5

(* One number more, whichever it is.                                        *)
LEMMA TotalAdds ==
  ASSUME NEW S, IsFiniteSet(S), NEW x, x \notin S,
         NEW f, \A y \in S \cup {x} : f[y] \in Int
  PROVE  Total(S \cup {x}, f) = Total(S, f) + f[x]
<1> DEFINE U == S \cup {x}
           Adds(s, y) == Total(s \cup {y}, f) = Total(s, f) + f[y]
           G == {n \in Nat : \A s \in SUBSET U : \A y \in U \ s :
                               Cardinality(s) <= n => Adds(s, y)}
<1>1. IsFiniteSet(U) /\ \A y \in U : f[y] \in Int
  BY FS_AddElement
<1> HIDE DEF U
<1>2. ASSUME NEW s \in SUBSET U
      PROVE  /\ IsFiniteSet(s) /\ Cardinality(s) \in Nat /\ Total(s, f) \in Int
             /\ Cardinality(s) = 0 <=> s = {}
             /\ s # {} => /\ Pick(s) \in s /\ f[Pick(s)] \in Int
                          /\ s \ {Pick(s)} \in SUBSET U
                          /\ Cardinality(s \ {Pick(s)}) = Cardinality(s) - 1
                          /\ Total(s, f) = f[Pick(s)] + Total(s \ {Pick(s)}, f)
  <2>1. /\ IsFiniteSet(s) /\ Cardinality(s) \in Nat /\ (Cardinality(s) = 0 <=> s = {})
        /\ s # {} => /\ Pick(s) \in s /\ s \ {Pick(s)} \in SUBSET U
                     /\ Cardinality(s \ {Pick(s)}) = Cardinality(s) - 1
    BY <1>1, PickTaken, Zenon
  <2>2. \A y \in s : f[y] \in Int
    BY <1>1
  <2>3. Total(s, f) \in Int
    BY <2>1, <2>2, TotalTyped
  <2>4. Total(s, f) = IF s = {} THEN 0 ELSE f[Pick(s)] + Total(s \ {Pick(s)}, f)
    BY <2>1, <2>2, TotalStep, Zenon
  <2> HIDE DEF G, Adds
  <2> QED BY <2>1, <2>2, <2>3, <2>4
<1>3. ASSUME NEW s \in SUBSET U, NEW y \in U \ s, Pick(s \cup {y}) = y
      PROVE  Adds(s, y)
  <2>1. (s \cup {y}) \ {y} = s /\ s \cup {y} # {} /\ s \cup {y} \in SUBSET U
    OBVIOUS
  <2>2. Total(s \cup {y}, f) = f[y] + Total(s, f)
    BY <1>2, <1>3, <2>1
  <2>3. Total(s, f) \in Int /\ f[y] \in Int
    BY <1>1, <1>2
  <2> QED BY <2>2, <2>3
<1>4. ASSUME NEW n \in Nat, NEW s \in SUBSET U, NEW y \in U \ s, Pick(s \cup {y}) # y,
             \A r \in SUBSET U : \A z \in U \ r : Cardinality(r) < Cardinality(s) => Adds(r, z)
      PROVE  Adds(s, y)
  <2> DEFINE z == Pick(s \cup {y})
             r == s \ {z}
  <2>1. s \cup {y} \in SUBSET U /\ s \cup {y} # {}
    OBVIOUS
  <2>2. z \in s \cup {y} /\ Total(s \cup {y}, f) = f[z] + Total((s \cup {y}) \ {z}, f)
    BY <1>2, <2>1
  <2>3. z # y
    BY <1>4
  <2> HIDE DEF z
  <2>4. /\ z \in s /\ (s \cup {y}) \ {z} = r \cup {y} /\ r \cup {z} = s
        /\ r \in SUBSET U /\ y \in U \ r /\ z \in U \ r
    BY <2>2, <2>3
  <2>5. Cardinality(r) < Cardinality(s)
    <3>1. Cardinality(r) = Cardinality(s) - 1
      BY <1>2, <2>4, FS_RemoveElement
    <3>2. Cardinality(s) \in Nat
      BY <1>2
    <3> HIDE DEF G, Adds, r
    <3> QED BY <3>1, <3>2
  <2> HIDE DEF r
  <2>6. Adds(r, y) /\ Adds(r, z)
    BY <1>4, <2>4, <2>5
  <2>7. f[y] \in Int /\ f[z] \in Int /\ Total(r, f) \in Int
    BY <1>1, <1>2, <2>4
  <2>8. /\ Total(s \cup {y}, f) = f[z] + (Total(r, f) + f[y])
        /\ Total(s, f) = Total(r, f) + f[z]
    BY <2>2, <2>4, <2>6
  <2>9. Total(s \cup {y}, f) = Total(s, f) + f[y]
    BY ONLY <2>7, <2>8
  <2> QED BY <2>9
<1> HIDE DEF Adds
<1>5. 0 \in G
  <2>1. ASSUME NEW s \in SUBSET U, NEW y \in U \ s, Cardinality(s) <= 0 PROVE Adds(s, y)
    <3>1. Cardinality(s) \in Nat /\ (Cardinality(s) = 0 <=> s = {})
      BY <1>2, Zenon
    <3>2. s = {}
      BY <2>1, <3>1
    <3>3. Pick(s \cup {y}) = y
      BY <3>2 DEF Pick
    <3> QED BY <1>3, <3>3
  <2> QED BY <2>1
<1>6. ASSUME NEW n \in Nat, n \in G PROVE n + 1 \in G
  <2>1. ASSUME NEW s \in SUBSET U, NEW y \in U \ s, Cardinality(s) <= n + 1 PROVE Adds(s, y)
    <3>1. CASE Pick(s \cup {y}) = y
      BY <1>3, <3>1
    <3>2. CASE Pick(s \cup {y}) # y
      <4>1. ASSUME NEW r \in SUBSET U, NEW z \in U \ r, Cardinality(r) < Cardinality(s)
            PROVE  Adds(r, z)
        <5>1. Cardinality(r) \in Nat /\ Cardinality(s) \in Nat
          BY <1>2
        <5>2. Cardinality(r) <= n
          BY <2>1, <4>1, <5>1
        <5> QED BY <1>6, <5>2
      <4> HIDE DEF G
      <4> QED BY <1>4, <3>2, <4>1
    <3> QED BY <3>1, <3>2
  <2> QED BY <2>1
<1>7. \A n \in Nat : n \in G => n + 1 \in G
  BY <1>6
<1> HIDE DEF G
<1>8. Nat \subseteq G
  BY <1>5, <1>7, CountUp
<1>9. Cardinality(S) \in G /\ S \in SUBSET U /\ x \in U \ S
  BY <1>8, FS_CardinalityType DEF U
<1>10. Adds(S, x)
  BY <1>9, FS_CardinalityType DEF G
<1> QED BY <1>10 DEF Adds

(* One number changed.                                                      *)
LEMMA TotalChanges ==
  ASSUME NEW S, IsFiniteSet(S), NEW f, \A x \in S : f[x] \in Int,
         NEW g, NEW k, NEW p, p \in Int,
         \A x \in S : x # k => g[x] = f[x], k \in S => g[k] = f[k] + p
  PROVE  /\ k \in S => Total(S, g) = Total(S, f) + p
         /\ k \notin S => Total(S, g) = Total(S, f)
<1> DEFINE R == S \ {k}
<1>1. CASE k \notin S
  <2>1. \A x \in S : f[x] \in Int /\ f[x] = g[x]
    BY <1>1
  <2>2. Total(S, f) = Total(S, g)
    BY <2>1, TotalAgrees, Zenon
  <2> QED BY <1>1, <2>2
<1>2. CASE k \in S
  <2>1. IsFiniteSet(R) /\ k \notin R /\ R \cup {k} = S /\ \A x \in R : x \in S /\ x # k
    BY <1>2, FS_RemoveElement
  <2>2. f[k] \in Int /\ g[k] = f[k] + p
    BY <1>2
  <2> HIDE DEF R
  <2>3. /\ \A x \in R \cup {k} : f[x] \in Int
        /\ \A x \in R \cup {k} : g[x] \in Int
        /\ \A x \in R : f[x] \in Int /\ f[x] = g[x]
        /\ \A x \in R : f[x] \in Int
    BY <2>1, <2>2
  <2>4. Total(R \cup {k}, f) = Total(R, f) + f[k] /\ Total(R \cup {k}, g) = Total(R, g) + g[k]
    BY <2>1, <2>3, TotalAdds, Zenon
  <2>5. Total(R, f) = Total(R, g)
    BY <2>1, <2>3, TotalAgrees, Zenon
  <2>6. Total(R, f) \in Int
    BY <2>1, <2>3, TotalTyped, Zenon
  <2>7. Total(S, f) = Total(R, f) + f[k] /\ Total(S, g) = Total(R, f) + (f[k] + p)
    BY <2>1, <2>2, <2>4, <2>5
  <2>8. Total(S, g) = Total(S, f) + p
    BY ONLY <2>2, <2>6, <2>7, p \in Int
  <2> QED BY <1>2, <2>8
<1> QED BY <1>1, <1>2

-----------------------------------------------------------------------------
(* The paths of a tree.                                                     *)

PathStep(g, flame, i) ==
  IF flame[i].up = 0 THEN <<>> ELSE Append(g[flame[i].up], flame[i].name)

LEMMA RootedTyped ==
  ASSUME NEW flame, Rooted(flame)
  PROVE  /\ Len(flame) \in Nat /\ DOMAIN flame = 1..Len(flame) /\ 1 \in DOMAIN flame
         /\ flame[1].up = 0
         /\ \A i \in DOMAIN flame :
              /\ i \in Nat /\ i >= 1
              /\ flame[i].up \in Nat /\ flame[i].name \in Names /\ flame[i].value \in Int
              /\ flame[i].cold \in BOOLEAN
              /\ i # 1 => /\ flame[i].up # 0 /\ flame[i].up \in DOMAIN flame
                          /\ flame[i].up < i
<1>1. /\ flame \in Seq(Elements) /\ 1 \in DOMAIN flame /\ flame[1].up = 0
      /\ \A i \in DOMAIN flame : i > 1 => flame[i].up \in 1..(i - 1)
  BY DEF Rooted
<1>2. Len(flame) \in Nat /\ DOMAIN flame = 1..Len(flame)
  BY <1>1
<1>3. ASSUME NEW i \in DOMAIN flame
      PROVE  /\ i \in Nat /\ i >= 1
             /\ flame[i].up \in Nat /\ flame[i].name \in Names /\ flame[i].value \in Int
             /\ flame[i].cold \in BOOLEAN
  <2>1. flame[i] \in Elements
    BY <1>1
  <2>2. /\ flame[i].up \in Nat /\ flame[i].name \in Names /\ flame[i].value \in Int
        /\ flame[i].cold \in BOOLEAN
    BY <2>1, Zenon DEF Elements
  <2> QED BY <1>2, <2>2
<1>4. ASSUME NEW i \in DOMAIN flame, i # 1
      PROVE  flame[i].up # 0 /\ flame[i].up \in DOMAIN flame /\ flame[i].up < i
  BY <1>1, <1>2, <1>4
<1> QED BY <1>1, <1>2, <1>3, <1>4

LEMMA PathsExist ==
  ASSUME NEW flame, Rooted(flame)
  PROVE  \E g \in [DOMAIN flame -> Seq(Names)] :
           g = [i \in DOMAIN flame |-> PathStep(g, flame, i)]
<1> DEFINE D == DOMAIN flame
           T == Seq(Names)
           Upto(g, n) == \A i \in D : i <= n => g[i] = PathStep(g, flame, i)
           G == {n \in Nat : \E g \in [D -> T] : Upto(g, n)}
<1>1. /\ Len(flame) \in Nat /\ D = 1..Len(flame) /\ flame[1].up = 0
      /\ \A i \in D :
           /\ i \in Nat /\ i >= 1 /\ flame[i].name \in Names
           /\ i # 1 => flame[i].up # 0 /\ flame[i].up \in D /\ flame[i].up < i
  BY RootedTyped, Zenon
<1>2. <<>> \in T /\ \A s \in T, x \in Names : Append(s, x) \in T
  OBVIOUS
<1> HIDE DEF D, T
<1>3. ASSUME NEW g \in [D -> T], NEW i \in D PROVE PathStep(g, flame, i) \in T
  BY <1>1, <1>2 DEF PathStep
<1>4. 0 \in G
  <2>1. [i \in D |-> <<>>] \in [D -> T]
    BY <1>2
  <2>2. \A i \in D : ~(i <= 0)
    BY <1>1
  <2> QED BY <2>1, <2>2
<1>5. ASSUME NEW n \in Nat, n \in G PROVE n + 1 \in G
  <2>1. PICK g \in [D -> T] : Upto(g, n)
    BY <1>5
  <2> DEFINE h == [i \in D |-> IF i <= n THEN g[i] ELSE PathStep(g, flame, i)]
  <2>2. h \in [D -> T]
    BY <1>3
  <2>3. \A i \in D : h[i] = IF i <= n THEN g[i] ELSE PathStep(g, flame, i)
    OBVIOUS
  <2> HIDE DEF h
  <2>4. ASSUME NEW i \in D, i <= n + 1 PROVE h[i] = PathStep(h, flame, i)
    <3>1. h[i] = PathStep(g, flame, i)
      BY <2>1, <2>3
    <3>2. CASE i = 1
      BY <1>1, <3>1, <3>2 DEF PathStep
    <3>3. CASE i # 1
      <4>1. flame[i].up \in D /\ flame[i].up <= n
        BY <1>1, <2>4, <3>3
      <4>2. h[flame[i].up] = g[flame[i].up]
        BY <2>3, <4>1
      <4> QED BY <3>1, <4>2 DEF PathStep
    <3> QED BY <3>2, <3>3
  <2>5. Upto(h, n + 1)
    BY <2>4
  <2> QED BY <2>2, <2>5
<1>6. \A n \in Nat : n \in G => n + 1 \in G
  BY <1>5
<1> HIDE DEF G
<1>7. Nat \subseteq G
  BY <1>4, <1>6, CountUp
<1>8. Len(flame) \in G
  BY <1>1, <1>7
<1>9. PICK g \in [D -> T] : Upto(g, Len(flame))
  BY <1>8 DEF G
<1>10. \A i \in D : g[i] = PathStep(g, flame, i)
  BY <1>1, <1>9
<1>11. g = [i \in D |-> PathStep(g, flame, i)]
  <2>1. g = [i \in D |-> g[i]]
    OBVIOUS
  <2> QED BY <1>10, <2>1
<1> QED BY <1>11 DEF D, T

LEMMA PathsAre ==
  ASSUME NEW flame, Rooted(flame)
  PROVE  /\ Paths(flame) \in [DOMAIN flame -> Seq(Names)]
         /\ Paths(flame)[1] = <<>>
         /\ \A i \in DOMAIN flame \ {1} :
              Paths(flame)[i] = Append(Paths(flame)[flame[i].up], flame[i].name)
<1> DEFINE path == CHOOSE g : g = [i \in DOMAIN flame |-> PathStep(g, flame, i)]
<1>1. Paths(flame) = path
  BY Zenon DEF Paths, PathStep
<1>2. path = [i \in DOMAIN flame |-> PathStep(path, flame, i)]
  BY PathsExist
<1> HIDE DEF path
<1>3. PICK g \in [DOMAIN flame -> Seq(Names)] :
         g = [i \in DOMAIN flame |-> PathStep(g, flame, i)]
  BY PathsExist
<1>4. /\ \A i \in DOMAIN flame : path[i] = PathStep(path, flame, i)
      /\ \A i \in DOMAIN flame : g[i] = PathStep(g, flame, i)
  BY <1>2, <1>3, Zenon
<1>5. 1 \in DOMAIN flame /\ path[1] = <<>>
  BY <1>4, RootedTyped DEF PathStep
<1>6. ASSUME NEW i \in DOMAIN flame \ {1}
      PROVE  path[i] = Append(path[flame[i].up], flame[i].name)
  BY <1>4, RootedTyped DEF PathStep
<1>7. \A i \in DOMAIN flame : path[i] = g[i]
  <2> DEFINE G == {n \in Nat : \A i \in DOMAIN flame : i <= n => path[i] = g[i]}
  <2>1. 0 \in G
    BY RootedTyped
  <2>2. ASSUME NEW n \in Nat, n \in G PROVE n + 1 \in G
    <3>1. ASSUME NEW i \in DOMAIN flame, i <= n + 1 PROVE path[i] = g[i]
      <4>1. CASE i = 1
        BY <1>4, <4>1, RootedTyped DEF PathStep
      <4>2. CASE i # 1
        <5>1. flame[i].up \in DOMAIN flame /\ flame[i].up <= n
          <6>1. flame[i].up \in DOMAIN flame /\ flame[i].up < i /\ flame[i].up \in Nat /\ i \in Nat
            BY <4>2, RootedTyped
          <6> QED BY <3>1, <6>1
        <5>2. path[flame[i].up] = g[flame[i].up]
          BY <2>2, <5>1
        <5> QED BY <1>4, <5>2 DEF PathStep
      <4> QED BY <4>1, <4>2
    <3> QED BY <3>1
  <2>3. \A n \in Nat : n \in G => n + 1 \in G
    BY <2>2
  <2> HIDE DEF G
  <2>4. Nat \subseteq G
    BY <2>1, <2>3, CountUp
  <2>5. ASSUME NEW i \in DOMAIN flame PROVE path[i] = g[i]
    <3>1. i \in Nat /\ i \in G
      BY <2>4, RootedTyped
    <3> QED BY <3>1 DEF G
  <2> QED BY <2>5
<1>8. path \in [DOMAIN flame -> Seq(Names)]
  <2>1. path = [i \in DOMAIN flame |-> path[i]]
    BY <1>2, Zenon
  <2> QED BY <1>7, <2>1
<1> QED BY <1>1, <1>5, <1>6, <1>8

(* Elements that are added change no path.                                  *)
LEMMA PathsStay ==
  ASSUME NEW flame, Rooted(flame), NEW more, Rooted(more), DOMAIN flame \subseteq DOMAIN more,
         \A i \in DOMAIN flame : more[i].up = flame[i].up /\ more[i].name = flame[i].name
  PROVE  \A i \in DOMAIN flame : Paths(more)[i] = Paths(flame)[i]
<1> DEFINE p == Paths(flame)
           q == Paths(more)
           G == {n \in Nat : \A i \in DOMAIN flame : i <= n => q[i] = p[i]}
<1>1. /\ p[1] = <<>> /\ q[1] = <<>>
      /\ \A i \in DOMAIN flame \ {1} : p[i] = Append(p[flame[i].up], flame[i].name)
      /\ \A i \in DOMAIN more \ {1} : q[i] = Append(q[more[i].up], more[i].name)
  BY PathsAre, Zenon
<1>2. \A i \in DOMAIN flame :
        /\ i \in Nat /\ i >= 1
        /\ i # 1 => flame[i].up \in Nat /\ flame[i].up \in DOMAIN flame /\ flame[i].up < i
  BY RootedTyped, Zenon
<1> HIDE DEF p, q
<1>3. 0 \in G
  BY <1>2
<1>4. ASSUME NEW n \in Nat, n \in G PROVE n + 1 \in G
  <2>1. ASSUME NEW i \in DOMAIN flame, i <= n + 1 PROVE q[i] = p[i]
    <3>1. CASE i = 1
      BY <1>1, <3>1
    <3>2. CASE i # 1
      <4>1. flame[i].up \in DOMAIN flame /\ flame[i].up <= n
        BY <1>2, <2>1, <3>2
      <4>2. q[flame[i].up] = p[flame[i].up]
        BY <1>4, <4>1
      <4>3. i \in DOMAIN more /\ more[i].up = flame[i].up /\ more[i].name = flame[i].name
        BY Zenon
      <4>4. i \in DOMAIN flame \ {1} /\ i \in DOMAIN more \ {1}
        BY <3>2, <4>3
      <4>5. /\ p[i] = Append(p[flame[i].up], flame[i].name)
            /\ q[i] = Append(q[more[i].up], more[i].name)
        BY <1>1, <4>4, Zenon
      <4> QED BY <4>2, <4>3, <4>5, Zenon
    <3> QED BY <3>1, <3>2
  <2> QED BY <2>1
<1>5. \A n \in Nat : n \in G => n + 1 \in G
  BY <1>4
<1> HIDE DEF G
<1>6. Nat \subseteq G
  BY <1>3, <1>5, CountUp
<1>7. ASSUME NEW i \in DOMAIN flame PROVE q[i] = p[i]
  <2>1. i \in Nat /\ i \in G
    BY <1>2, <1>6
  <2> QED BY <2>1 DEF G
<1> QED BY <1>7 DEF p, q

-----------------------------------------------------------------------------
(* What elements hold of their own.                                         *)

Top(flame) == Total(Children(flame, 1), Values(flame))

LEMMA OwnTyped ==
  ASSUME NEW flame, Rooted(flame)
  PROVE  /\ Values(flame) \in [DOMAIN flame -> Int] /\ Own(flame) \in [DOMAIN flame -> Int]
         /\ \A S \in SUBSET DOMAIN flame :
              /\ IsFiniteSet(S)
              /\ Total(S, Values(flame)) \in Int /\ Total(S, Own(flame)) \in Int
         /\ \A i : Children(flame, i) \in SUBSET DOMAIN flame
         /\ \A i \in DOMAIN flame :
              Own(flame)[i] = Values(flame)[i] - Total(Children(flame, i), Values(flame))
<1>1. Values(flame) \in [DOMAIN flame -> Int]
  BY RootedTyped DEF Values
<1>2. ASSUME NEW S \in SUBSET DOMAIN flame PROVE IsFiniteSet(S)
  <2>1. IsFiniteSet(1..Len(flame))
    BY RootedTyped, FS_Interval
  <2>2. S \in SUBSET (1..Len(flame))
    BY RootedTyped
  <2> QED BY <2>1, <2>2, FS_Subset
<1>3. \A i : Children(flame, i) \in SUBSET DOMAIN flame
  BY DEF Children
<1>4. ASSUME NEW S \in SUBSET DOMAIN flame, NEW f \in [DOMAIN flame -> Int]
      PROVE  Total(S, f) \in Int
  <2>1. \A x \in S : f[x] \in Int
    OBVIOUS
  <2> QED BY <1>2, <2>1, TotalTyped, Zenon
<1>5. \A i \in DOMAIN flame :
        /\ Own(flame)[i] = flame[i].value - Total(Children(flame, i), Values(flame))
        /\ Values(flame)[i] = flame[i].value
  BY DEF Own, Values
<1>6. Own(flame) \in [DOMAIN flame -> Int]
  <2>1. ASSUME NEW i \in DOMAIN flame
        PROVE  flame[i].value - Total(Children(flame, i), Values(flame)) \in Int
    <3>1. flame[i].value \in Int /\ Total(Children(flame, i), Values(flame)) \in Int
      BY <1>1, <1>3, <1>4, RootedTyped
    <3> QED BY <3>1
  <2> QED BY <2>1 DEF Own
<1> QED BY <1>1, <1>2, <1>3, <1>4, <1>5, <1>6, Zenon

(* Colours do not count.                                                    *)
LEMMA OwnAlike ==
  ASSUME NEW flame, Rooted(flame), NEW warm, DOMAIN warm = DOMAIN flame,
         \A i \in DOMAIN flame : warm[i].up = flame[i].up /\ warm[i].value = flame[i].value
  PROVE  Own(warm) = Own(flame) /\ Top(warm) = Top(flame)
<1>1. \A i : Children(warm, i) = Children(flame, i)
  BY DEF Children
<1>2. Values(warm) = Values(flame)
  BY DEF Values
<1>3. Own(warm) = Own(flame)
  BY <1>1, <1>2, Zenon DEF Own
<1> QED BY <1>1, <1>2, <1>3 DEF Top

(* A new element has nothing yet.                                           *)
LEMMA OwnAppended ==
  ASSUME NEW flame, Rooted(flame), NEW elem, elem.up \in DOMAIN flame, elem.value = 0,
         NEW more, Rooted(more), DOMAIN more = DOMAIN flame \cup {Len(flame) + 1},
         more[Len(flame) + 1] = elem, \A i \in DOMAIN flame : more[i] = flame[i]
  PROVE  /\ Own(more) = [i \in DOMAIN more |-> IF i \in DOMAIN flame THEN Own(flame)[i] ELSE 0]
         /\ Top(more) = Top(flame)
<1> DEFINE n == Len(flame) + 1
<1>1. /\ n \notin DOMAIN flame /\ n \in DOMAIN more
      /\ \A i \in DOMAIN flame : flame[i].up # n
  <2>1. /\ Len(flame) \in Nat /\ DOMAIN flame = 1..Len(flame) /\ flame[1].up = 0
        /\ \A i \in DOMAIN flame : i # 1 => flame[i].up \in DOMAIN flame
    BY RootedTyped, Zenon
  <2> QED BY <2>1
<1> HIDE DEF n
<1>2. ASSUME NEW i \in DOMAIN more
      PROVE  Children(more, i) = IF i = elem.up THEN Children(flame, i) \cup {n}
                                 ELSE Children(flame, i)
  BY <1>1 DEF Children, n
<1>3. /\ Values(more) \in [DOMAIN more -> Int]
      /\ \A i \in DOMAIN flame : Values(more)[i] = Values(flame)[i]
      /\ Values(more)[n] = 0
  BY <1>1, OwnTyped DEF Values, n
<1>4. Children(flame, n) = {} /\ n # elem.up
  BY <1>1 DEF Children
<1>5. ASSUME NEW i \in DOMAIN more
      PROVE  Total(Children(more, i), Values(more)) = Total(Children(flame, i), Values(flame))
  <2> DEFINE S == Children(flame, i)
  <2>1. S \in SUBSET DOMAIN flame /\ IsFiniteSet(S)
    BY OwnTyped
  <2>2. /\ \A x \in S : Values(flame)[x] \in Int /\ Values(flame)[x] = Values(more)[x]
        /\ \A x \in S \cup {n} : Values(more)[x] \in Int
        /\ n \notin S
    BY <1>1, <1>3, <2>1, OwnTyped
  <2> HIDE DEF S
  <2>3. Total(S, Values(flame)) = Total(S, Values(more)) /\ Total(S, Values(flame)) \in Int
    BY <2>1, <2>2, TotalAgrees, TotalTyped, Zenon
  <2>4. Total(S \cup {n}, Values(more)) = Total(S, Values(more)) + Values(more)[n]
    <3>1. IsFiniteSet(S) /\ n \notin S /\ \A x \in S \cup {n} : Values(more)[x] \in Int
      BY <2>1, <2>2
    <3> QED BY <3>1, TotalAdds
  <2>5. Total(S \cup {n}, Values(more)) = Total(S, Values(flame))
    <3>1. Total(S \cup {n}, Values(more)) = Total(S, Values(flame)) + 0
      BY <1>3, <2>3, <2>4, Zenon
    <3> QED BY ONLY <2>3, <3>1
  <2>6. Children(more, i) = S \/ Children(more, i) = S \cup {n}
    BY <1>2 DEF S
  <2> QED BY <2>3, <2>5, <2>6 DEF S
<1>6. ASSUME NEW i \in DOMAIN more
      PROVE  Own(more)[i] = IF i \in DOMAIN flame THEN Own(flame)[i] ELSE 0
  <2>1. Own(more)[i] = Values(more)[i] - Total(Children(flame, i), Values(flame))
    BY <1>5, OwnTyped
  <2>2. CASE i \in DOMAIN flame
    BY <1>3, <2>1, <2>2, OwnTyped
  <2>3. CASE i \notin DOMAIN flame
    <3>1. i = n
      BY <2>3 DEF n
    <3>2. Total({}, Values(flame)) = 0
      BY TotalStep, FS_EmptySet
    <3>3. Own(more)[i] = 0 - 0
      BY <1>3, <1>4, <2>1, <3>1, <3>2, Zenon
    <3> QED BY <2>3, <3>3
  <2> QED BY <2>2, <2>3
<1>7. Own(more) = [i \in DOMAIN more |-> Own(more)[i]]
  BY OwnTyped
<1>8. Own(more) = [i \in DOMAIN more |-> IF i \in DOMAIN flame THEN Own(flame)[i] ELSE 0]
  BY <1>6, <1>7
<1>9. Top(more) = Top(flame)
  BY <1>5, RootedTyped DEF Top
<1> QED BY <1>8, <1>9

(* What is credited to an element is its own, and no longer that of the     *)
(* element above it, which is credited before.                              *)
LEMMA OwnCredited ==
  ASSUME NEW flame, Rooted(flame), NEW k \in DOMAIN flame, k # 1, NEW p \in Int,
         NEW paid, Rooted(paid), DOMAIN paid = DOMAIN flame,
         \A i \in DOMAIN flame : paid[i].up = flame[i].up,
         Values(paid) = [Values(flame) EXCEPT ![k] = @ + p]
  PROVE  LET u == flame[k].up
         IN  /\ Own(paid) = [[Own(flame) EXCEPT ![k] = @ + p] EXCEPT ![u] = @ - p]
             /\ Top(paid) = Top(flame) + (IF u = 1 THEN p ELSE 0)
             /\ u \in DOMAIN flame /\ u # k
<1> DEFINE u == flame[k].up
           vals == Values(flame)
           own == Own(flame)
<1>1. u \in DOMAIN flame /\ u # k
  BY RootedTyped
<1>2. vals \in [DOMAIN flame -> Int] /\ own \in [DOMAIN flame -> Int]
  BY OwnTyped
<1>3. \A i : Children(paid, i) = Children(flame, i)
  BY DEF Children
<1>4. ASSUME NEW i \in DOMAIN flame
      PROVE  /\ Total(Children(paid, i), Values(paid))
                  = Total(Children(flame, i), vals) + (IF i = u THEN p ELSE 0)
             /\ Total(Children(flame, i), vals) \in Int
  <2>1. k \in Children(flame, i) <=> i = u
    BY DEF Children
  <2>2. Children(flame, i) \in SUBSET DOMAIN flame /\ IsFiniteSet(Children(flame, i))
    BY OwnTyped
  <2>3. Total(Children(flame, i), vals) \in Int
    BY <2>2, OwnTyped
  <2>4. /\ \A x \in Children(flame, i) : vals[x] \in Int
        /\ \A x \in Children(flame, i) : x # k => Values(paid)[x] = vals[x]
        /\ k \in Children(flame, i) => Values(paid)[k] = vals[k] + p
        /\ p \in Int
    BY <1>2, <2>2
  <2> HIDE DEF vals
  <2>5. /\ k \in Children(flame, i) =>
             Total(Children(flame, i), Values(paid)) = Total(Children(flame, i), vals) + p
        /\ k \notin Children(flame, i) =>
             Total(Children(flame, i), Values(paid)) = Total(Children(flame, i), vals)
    <3> DEFINE S == Children(flame, i)
               g == Values(paid)
    <3>1. /\ IsFiniteSet(S) /\ p \in Int
          /\ \A x \in S : vals[x] \in Int
          /\ \A x \in S : x # k => g[x] = vals[x]
          /\ k \in S => g[k] = vals[k] + p
      BY <2>2, <2>4
    <3> HIDE DEF S, g
    <3>2. (k \in S => Total(S, g) = Total(S, vals) + p) /\ (k \notin S => Total(S, g) = Total(S, vals))
      BY ONLY <3>1, TotalChanges, ZenonT(60)
    <3> QED BY <3>2 DEF S, g
  <2> QED BY <1>3, <2>1, <2>3, <2>5
<1>5. Values(paid) = [vals EXCEPT ![k] = @ + p]
  OBVIOUS
<1>6. \A i \in DOMAIN flame : /\ own[i] = vals[i] - Total(Children(flame, i), vals)
                             /\ Own(paid)[i] = Values(paid)[i] - Total(Children(paid, i), Values(paid))
  BY OwnTyped
<1>7. Own(paid) \in [DOMAIN flame -> Int]
  BY OwnTyped
<1>8. Top(paid) = Top(flame) + (IF u = 1 THEN p ELSE 0)
  <2>1. 1 \in DOMAIN flame
    BY RootedTyped
  <2> QED BY <1>4, <2>1 DEF Top
<1> HIDE DEF vals, own, u
<1>9. ASSUME NEW i \in DOMAIN flame
      PROVE  Own(paid)[i] = [[own EXCEPT ![k] = @ + p] EXCEPT ![u] = @ - p][i]
  <2>1. /\ Own(paid)[i] = [vals EXCEPT ![k] = @ + p][i]
                            - (Total(Children(flame, i), vals) + (IF i = u THEN p ELSE 0))
        /\ own[i] = vals[i] - Total(Children(flame, i), vals)
        /\ vals[i] \in Int /\ Total(Children(flame, i), vals) \in Int
    BY <1>2, <1>4, <1>5, <1>6
  <2>2. CASE i = k
    BY <1>1, <1>2, <2>1, <2>2
  <2>3. CASE i = u
    BY <1>1, <1>2, <2>1, <2>3
  <2>4. CASE i # k /\ i # u
    BY <1>1, <1>2, <2>1, <2>4
  <2> QED BY <2>2, <2>3, <2>4
<1>10. Own(paid) = [[own EXCEPT ![k] = @ + p] EXCEPT ![u] = @ - p]
  <2>1. [[own EXCEPT ![k] = @ + p] EXCEPT ![u] = @ - p] \in [DOMAIN flame -> Int]
    BY <1>1, <1>2
  <2> QED BY <1>7, <1>9, <2>1
<1> QED BY <1>1, <1>8, <1>10 DEF u, own

(* What a call of recurse does to the sums.                                 *)
Base(flame, i) == IF i \in DOMAIN flame THEN Own(flame)[i] ELSE 0
Target(flame, target) ==
  \/ target \in DOMAIN flame /\ flame[target].up = cur_elem /\ flame[target].name = Frame
  \/ target = Len(flame) + 1
Took(flame, grown, target) ==
  /\ Rooted(grown) /\ DOMAIN grown = DOMAIN flame \cup {target}
  /\ target # 1 /\ target # cur_elem /\ cur_elem \in DOMAIN flame
  /\ grown[target].up = cur_elem /\ grown[target].name = Frame
  /\ target \notin DOMAIN flame => grown[target].cold = sample.offcpu
  /\ Kept(flame, grown)
  /\ Own(grown)[target] = Base(flame, target) + sample.period
  /\ Own(grown)[cur_elem] = Own(flame)[cur_elem] - sample.period
  /\ \A i \in DOMAIN flame : i # target /\ i # cur_elem => Own(grown)[i] = Own(flame)[i]
  /\ Top(grown) = Top(flame) + (IF cur_elem = 1 THEN sample.period ELSE 0)

LEMMA WarmedWorth ==
  ASSUME NEW flame, Rooted(flame), cur_elem \in DOMAIN flame
  PROVE  /\ Rooted(Warmed(flame)) /\ DOMAIN Warmed(flame) = DOMAIN flame
         /\ Len(Warmed(flame)) = Len(flame)
         /\ \A i \in DOMAIN flame : /\ Warmed(flame)[i].up = flame[i].up
                                   /\ Warmed(flame)[i].value = flame[i].value
                                   /\ Warmed(flame)[i].name = flame[i].name
<1>1. /\ Warmed(flame) \in Seq(Elements) /\ Len(Warmed(flame)) = Len(flame)
      /\ Kept(flame, Warmed(flame)) /\ flame \in Seq(Elements)
  BY WarmedKeeps DEF Rooted
<1>2. DOMAIN Warmed(flame) = DOMAIN flame
  BY <1>1
<1>3. Rooted(Warmed(flame))
  BY <1>1, <1>2 DEF Rooted, Kept
<1>4. ASSUME NEW i \in DOMAIN flame PROVE Warmed(flame)[i].value = flame[i].value
  <2>1. flame[i] \in Elements
    BY <1>1
  <2>2. CASE sample.offcpu
    BY <2>2 DEF Warmed
  <2>3. CASE ~sample.offcpu
    <3>1. Warmed(flame)[i] = IF i = cur_elem THEN [flame[i] EXCEPT !.cold = FALSE] ELSE flame[i]
      BY <2>3 DEF Warmed
    <3>2. [flame[i] EXCEPT !.cold = FALSE].value = flame[i].value
      BY <2>1 DEF Elements
    <3> QED BY <3>1, <3>2
  <2> QED BY <2>2, <2>3
<1> QED BY <1>1, <1>2, <1>3, <1>4 DEF Kept

LEMMA CreditWorth ==
  ASSUME NEW flame, Rooted(flame), NEW target \in DOMAIN flame, sample.period \in Int
  PROVE  /\ Rooted(Credit(flame, target)) /\ DOMAIN Credit(flame, target) = DOMAIN flame
         /\ Values(Credit(flame, target)) = [Values(flame) EXCEPT ![target] = @ + sample.period]
         /\ \A i \in DOMAIN flame : /\ Credit(flame, target)[i].up = flame[i].up
                                   /\ Credit(flame, target)[i].name = flame[i].name
                                   /\ Credit(flame, target)[i].cold = flame[i].cold
<1> DEFINE paid == Credit(flame, target)
<1>1. /\ paid \in Seq(Elements) /\ Len(paid) = Len(flame) /\ flame \in Seq(Elements)
      /\ \A i \in DOMAIN flame : /\ paid[i].up = flame[i].up /\ paid[i].name = flame[i].name
                                /\ paid[i].cold = flame[i].cold
  BY CreditKeeps DEF Rooted
<1>2. DOMAIN paid = DOMAIN flame
  BY <1>1
<1>3. Rooted(paid)
  <2> HIDE DEF paid
  <2> QED BY <1>1, <1>2 DEF Rooted
<1>4. ASSUME NEW i \in DOMAIN flame
      PROVE  paid[i].value = IF i = target THEN flame[i].value + sample.period ELSE flame[i].value
  <2>1. flame[i] \in Elements
    BY <1>1
  <2>2. paid[i] = IF i = target THEN [flame[i] EXCEPT !.value = @ + sample.period] ELSE flame[i]
    BY DEF Credit
  <2>3. [flame[i] EXCEPT !.value = @ + sample.period].value = flame[i].value + sample.period
    BY <2>1 DEF Elements
  <2> QED BY <2>2, <2>3
<1> HIDE DEF paid
<1>5. Values(paid) = [Values(flame) EXCEPT ![target] = @ + sample.period]
  <2>1. \A i \in DOMAIN flame : Values(flame)[i] = flame[i].value
    BY DEF Values
  <2>2. Values(paid) = [i \in DOMAIN flame |-> paid[i].value]
    BY <1>2 DEF Values
  <2>3. DOMAIN Values(flame) = DOMAIN flame
    BY DEF Values
  <2> QED BY <1>4, <2>1, <2>2, <2>3
<1> QED BY <1>1, <1>2, <1>3, <1>5 DEF paid

LEMMA GrownTook ==
  ASSUME NEW flame, Rooted(flame), cur_elem \in DOMAIN flame, SampleTypeOK,
         NEW target, Target(flame, target)
  PROVE  Took(flame, Grown(flame, target), target)
<1> DEFINE warm == Warmed(flame)
           more == WithElement(warm, target)
           grown == Grown(flame, target)
           p == sample.period
<1>1. /\ Rooted(warm) /\ DOMAIN warm = DOMAIN flame /\ Len(warm) = Len(flame)
      /\ \A i \in DOMAIN flame : /\ warm[i].up = flame[i].up /\ warm[i].value = flame[i].value
                                /\ warm[i].name = flame[i].name
  BY WarmedWorth
<1>2. Own(warm) = Own(flame) /\ Top(warm) = Top(flame)
  BY <1>1, OwnAlike
<1>3. p \in Int /\ Frame \in Names /\ sample.offcpu \in BOOLEAN
  BY DEF SampleTypeOK, Samples, Frame, Names
<1>4. /\ Len(flame) \in Nat /\ DOMAIN flame = 1..Len(flame) /\ 1 \in DOMAIN flame
      /\ \A i \in DOMAIN flame : i # 1 => flame[i].up < i
      /\ flame[1].up = 0 /\ flame \in Seq(Elements)
  BY RootedTyped DEF Rooted
<1>5. grown = Credit(more, target)
  BY DEF Grown
<1>6. /\ Kept(flame, grown) /\ DOMAIN grown = DOMAIN flame \cup {target}
      /\ grown[target].up = cur_elem /\ grown[target].name = Frame
      /\ target \notin DOMAIN flame => grown[target].cold = sample.offcpu
  <2>1. CASE target \in DOMAIN flame
    <3>1. flame[target].up = cur_elem /\ flame[target].name = Frame
      BY <1>4, <2>1 DEF Target
    <3>2. grown \in Seq(Elements) /\ Len(grown) = Len(flame) /\ Kept(flame, grown)
      BY <2>1, GrownOld
    <3> HIDE DEF grown
    <3>3. DOMAIN grown = DOMAIN flame
      BY <1>4, <3>2
    <3> QED BY <2>1, <3>1, <3>2, <3>3 DEF Kept
  <2>2. CASE target = Len(flame) + 1
    <3>1. /\ grown \in Seq(Elements) /\ Len(grown) = target /\ Kept(flame, grown)
          /\ grown[target].up = cur_elem /\ grown[target].name = Frame
          /\ grown[target].cold = sample.offcpu
      BY <2>2, GrownNew
    <3> HIDE DEF grown
    <3>2. DOMAIN grown = DOMAIN flame \cup {target}
      BY <1>4, <2>2, <3>1
    <3> QED BY <3>1, <3>2
  <2> QED BY <2>1, <2>2 DEF Target
<1>7. target # 1 /\ target # cur_elem
  <2>1. CASE target \in DOMAIN flame
    <3>1. flame[target].up = cur_elem
      BY <1>4, <2>1 DEF Target
    <3> QED BY <1>4, <2>1, <3>1
  <2>2. CASE target = Len(flame) + 1
    BY <1>4, <2>2
  <2> QED BY <2>1, <2>2 DEF Target
<1>8. /\ Rooted(more) /\ target \in DOMAIN more /\ more[target].up = cur_elem
      /\ DOMAIN more = DOMAIN flame \cup {target}
      /\ \A i \in DOMAIN more : Own(more)[i] = Base(flame, i)
      /\ Top(more) = Top(flame)
  <2>1. CASE target \in DOMAIN flame
    <3>1. ~(target > Len(warm))
      BY <1>1, <1>4, <2>1
    <3>2. more = warm
      BY <3>1 DEF WithElement
    <3>3. flame[target].up = cur_elem
      BY <1>4, <2>1 DEF Target
    <3> HIDE DEF more, warm
    <3>4. DOMAIN more = DOMAIN flame \cup {target}
      BY <1>1, <2>1, <3>2
    <3> QED BY <1>1, <1>2, <2>1, <3>2, <3>3, <3>4 DEF Base
  <2>2. CASE target = Len(flame) + 1
    <3> DEFINE elem == Element(cur_elem, Frame, sample.offcpu)
    <3>1. more = Append(warm, elem)
      BY <1>1, <1>4, <2>2 DEF WithElement
    <3>2. elem \in Elements /\ elem.up = cur_elem /\ elem.value = 0
      BY <1>3, <1>4 DEF Element, Elements
    <3>3. warm \in Seq(Elements)
      BY <1>1 DEF Rooted
    <3> HIDE DEF warm, more, elem
    <3>4. /\ more \in Seq(Elements) /\ DOMAIN more = DOMAIN warm \cup {target}
          /\ more[target] = elem /\ \A i \in DOMAIN warm : more[i] = warm[i]
      BY <1>1, <1>4, <2>2, <3>1, <3>2, <3>3
    <3>5. Rooted(more)
      <4>1. 1 \in DOMAIN more /\ more[1].up = 0
        BY <1>1, <1>4, <3>4
      <4>2. ASSUME NEW i \in DOMAIN more, i > 1 PROVE more[i].up \in 1..(i - 1)
        <5>1. CASE i \in DOMAIN warm
          BY <1>1, <3>4, <4>2, <5>1 DEF Rooted
        <5>2. CASE i = target
          BY <1>4, <2>2, <3>2, <3>4, <5>2
        <5> QED BY <3>4, <5>1, <5>2
      <4> QED BY <3>4, <4>1, <4>2 DEF Rooted
    <3>6. /\ Own(more) = [i \in DOMAIN more |-> IF i \in DOMAIN warm THEN Own(warm)[i] ELSE 0]
          /\ Top(more) = Top(warm)
      <4>1. /\ Rooted(warm) /\ elem.up \in DOMAIN warm /\ elem.value = 0 /\ Rooted(more)
            /\ DOMAIN more = DOMAIN warm \cup {Len(warm) + 1} /\ more[Len(warm) + 1] = elem
            /\ \A i \in DOMAIN warm : more[i] = warm[i]
        BY <1>1, <2>2, <3>2, <3>4, <3>5
      <4> QED BY <4>1, OwnAppended
    <3>7. ASSUME NEW i \in DOMAIN more PROVE Own(more)[i] = Base(flame, i)
      BY <1>1, <1>2, <3>6 DEF Base
    <3> QED BY <1>1, <1>2, <3>2, <3>4, <3>5, <3>6, <3>7
  <2> QED BY <2>1, <2>2 DEF Target
<1> HIDE DEF warm, more
<1>9. /\ Rooted(grown) /\ DOMAIN grown = DOMAIN more
      /\ Values(grown) = [Values(more) EXCEPT ![target] = @ + p]
      /\ \A i \in DOMAIN more : grown[i].up = more[i].up
  BY <1>3, <1>5, <1>8, CreditWorth
<1> HIDE DEF grown
<1>10. /\ Own(grown) = [[Own(more) EXCEPT ![target] = @ + p] EXCEPT ![cur_elem] = @ - p]
       /\ Top(grown) = Top(more) + (IF cur_elem = 1 THEN p ELSE 0)
  BY <1>3, <1>7, <1>8, <1>9, OwnCredited
<1>11. Own(more) \in [DOMAIN more -> Int]
  BY <1>8, OwnTyped
<1>12. /\ Own(grown)[target] = Base(flame, target) + p
       /\ Own(grown)[cur_elem] = Own(flame)[cur_elem] - p
       /\ \A i \in DOMAIN flame : i # target /\ i # cur_elem => Own(grown)[i] = Own(flame)[i]
  <2>1. cur_elem \in DOMAIN more /\ target \in DOMAIN more /\ DOMAIN flame \subseteq DOMAIN more
    BY <1>8
  <2>2. \A i \in DOMAIN flame : Own(more)[i] = Own(flame)[i]
    BY <1>8, <2>1 DEF Base
  <2>3. Own(more)[target] = Base(flame, target)
    BY <1>8
  <2> QED BY <1>7, <1>10, <1>11, <2>1, <2>2, <2>3
<1> QED BY <1>6, <1>7, <1>8, <1>9, <1>10, <1>12 DEF Took, grown

LEMMA TookPaths ==
  ASSUME NEW flame, Rooted(flame), NEW target, NEW grown, Took(flame, grown, target)
  PROVE  /\ \A i \in DOMAIN flame : Paths(grown)[i] = Paths(flame)[i]
         /\ Paths(grown)[target] = Append(Paths(flame)[cur_elem], Frame)
<1>1. \A i \in DOMAIN flame : Paths(grown)[i] = Paths(flame)[i]
  BY PathsStay DEF Took, Kept
<1>2. target \in DOMAIN grown \ {1} /\ Rooted(grown) /\ cur_elem \in DOMAIN flame
  BY DEF Took
<1>3. Paths(grown)[target] = Append(Paths(grown)[grown[target].up], grown[target].name)
  BY <1>2, PathsAre
<1> QED BY <1>1, <1>2, <1>3 DEF Took

LEMMA TookTotal ==
  ASSUME NEW flame, Rooted(flame), NEW target, NEW grown, Took(flame, grown, target),
         SampleTypeOK, NEW A \in SUBSET DOMAIN grown
  PROVE  Total(A, Own(grown)) = Total(A \cap DOMAIN flame, Own(flame))
            + (IF target \in A THEN sample.period ELSE 0)
            - (IF cur_elem \in A THEN sample.period ELSE 0)
<1> DEFINE B == A \cap DOMAIN flame
           p == sample.period
           q == 0 - p
           own == Own(flame)
           f == [i \in DOMAIN grown |-> Base(flame, i)]
           g == [i \in DOMAIN grown |-> IF i = target THEN f[i] + p ELSE f[i]]
           h == Own(grown)
<1>1. /\ p \in Int /\ q \in Int /\ own \in [DOMAIN flame -> Int] /\ IsFiniteSet(B)
      /\ Total(B, own) \in Int
  BY OwnTyped DEF SampleTypeOK, Samples
<1>2. /\ Rooted(grown) /\ DOMAIN grown = DOMAIN flame \cup {target} /\ target # cur_elem
      /\ cur_elem \in DOMAIN flame
      /\ h[target] = Base(flame, target) + p
      /\ h[cur_elem] = own[cur_elem] - p
      /\ \A i \in DOMAIN flame : i # target /\ i # cur_elem => h[i] = own[i]
  BY DEF Took
<1>3. IsFiniteSet(A)
  BY <1>2, OwnTyped
<1>4. \A i \in DOMAIN grown : f[i] = Base(flame, i) /\ f[i] \in Int
  BY <1>1 DEF Base
<1>5. \A i \in DOMAIN grown : g[i] \in Int /\ g[i] = IF i = target THEN f[i] + p ELSE f[i]
  BY <1>1, <1>4
<1> HIDE DEF f, g, h, own, q, p
<1>6. Total(A, f) = Total(B, own)
  <2>1. \A x \in B : own[x] \in Int /\ own[x] = f[x]
    BY <1>1, <1>2, <1>4 DEF Base, own
  <2>2. Total(B, own) = Total(B, f)
    <3> HIDE DEF B
    <3> QED BY ONLY <1>1, <2>1, TotalAgrees, ZenonT(60)
  <2>3. CASE A \subseteq DOMAIN flame
    <3>1. A = B
      BY <2>3
    <3> QED BY <2>2, <3>1
  <2>4. CASE ~(A \subseteq DOMAIN flame)
    <3>1. A = B \cup {target} /\ target \notin B /\ target \notin DOMAIN flame
      BY <1>2, <2>4
    <3>2. f[target] = 0 /\ \A x \in B \cup {target} : f[x] \in Int
      BY <1>2, <1>4, <3>1 DEF Base
    <3> HIDE DEF B
    <3>3. Total(B \cup {target}, f) = Total(B, f) + f[target]
      BY ONLY <1>1, <3>1, <3>2, TotalAdds, ZenonT(60)
    <3>4. Total(A, f) = Total(B, own) + 0
      BY <2>2, <3>1, <3>2, <3>3, Zenon
    <3> QED BY ONLY <1>1, <3>4
  <2> QED BY <2>3, <2>4
<1>7. /\ target \in A => Total(A, g) = Total(A, f) + p
      /\ target \notin A => Total(A, g) = Total(A, f)
  <2>1. /\ \A x \in A : f[x] \in Int
        /\ \A x \in A : x # target => g[x] = f[x]
        /\ target \in A => g[target] = f[target] + p
        /\ IsFiniteSet(A) /\ p \in Int
    BY <1>1, <1>3, <1>4, <1>5
  <2> QED BY ONLY <2>1, TotalChanges, ZenonT(60)
<1>8. /\ cur_elem \in A => Total(A, h) = Total(A, g) + q
      /\ cur_elem \notin A => Total(A, h) = Total(A, g)
  <2>1. ASSUME NEW x \in A, x # cur_elem PROVE h[x] = g[x]
    <3>1. CASE x = target
      BY <1>2, <1>4, <1>5, <3>1
    <3>2. CASE x # target
      <4>1. x \in DOMAIN flame /\ h[x] = own[x]
        BY <1>2, <2>1, <3>2
      <4> QED BY <1>4, <1>5, <3>2, <4>1 DEF Base, own
    <3> QED BY <3>1, <3>2
  <2>2. h[cur_elem] = g[cur_elem] + q
    <3>1. g[cur_elem] = own[cur_elem] /\ own[cur_elem] \in Int
      BY <1>1, <1>2, <1>4, <1>5 DEF Base, own
    <3> QED BY <1>1, <1>2, <3>1 DEF q
  <2>3. /\ \A x \in A : g[x] \in Int
        /\ \A x \in A : x # cur_elem => h[x] = g[x]
        /\ cur_elem \in A => h[cur_elem] = g[cur_elem] + q
        /\ IsFiniteSet(A) /\ q \in Int
    BY <1>1, <1>3, <1>5, <2>1, <2>2
  <2> QED BY ONLY <2>3, TotalChanges, ZenonT(60)
<1> HIDE DEF B
<1>9. Total(A, h) = Total(B, own) + (IF target \in A THEN p ELSE 0) - (IF cur_elem \in A THEN p ELSE 0)
  BY <1>1, <1>6, <1>7, <1>8 DEF q
<1> QED BY <1>9 DEF h, B, own, p

-----------------------------------------------------------------------------
(* The times along the paths.                                               *)

Those(h, c, kinds) == {k \in DOMAIN h : h[k].callchain = c /\ h[k].offcpu \in kinds}
TimeOf(h, c, kinds) == Total(Those(h, c, kinds), Periods(h))

LEMMA HistorySummed ==
  ASSUME NEW h \in Seq(Samples), NEW c, NEW kinds
  PROVE  /\ IsFiniteSet(Those(h, c, kinds)) /\ Periods(h) \in [DOMAIN h -> Int]
         /\ TimeOf(h, c, kinds) \in Int
<1> DEFINE S == Those(h, c, kinds)
           f == Periods(h)
<1>1. Len(h) \in Nat /\ DOMAIN h = 1..Len(h)
  OBVIOUS
<1>2. IsFiniteSet(1..Len(h)) /\ S \in SUBSET (1..Len(h))
  BY <1>1, FS_Interval DEF Those
<1>3. IsFiniteSet(S)
  BY <1>2, FS_Subset
<1>4. ASSUME NEW k \in DOMAIN h PROVE h[k].period \in Int
  <2>1. h[k] \in Samples
    OBVIOUS
  <2> QED BY <2>1, Zenon DEF Samples
<1>5. f \in [DOMAIN h -> Int]
  BY <1>4 DEF Periods
<1>6. \A x \in S : f[x] \in Int
  BY <1>5 DEF Those
<1> HIDE DEF S, f
<1>7. Total(S, f) \in Int
  BY <1>3, <1>6, TotalTyped, Zenon
<1> QED BY <1>3, <1>5, <1>7 DEF S, f, TimeOf

LEMMA HistoryGrows ==
  ASSUME NEW h \in Seq(Samples), NEW s \in Samples, NEW c, NEW kinds
  PROVE  TimeOf(Append(h, s), c, kinds)
           = TimeOf(h, c, kinds)
               + (IF s.callchain = c /\ s.offcpu \in kinds THEN s.period ELSE 0)
<1> DEFINE h2 == Append(h, s)
           n == Len(h) + 1
           S == Those(h, c, kinds)
           f == Periods(h)
           S2 == Those(h2, c, kinds)
           f2 == Periods(h2)
<1>1. /\ h2 \in Seq(Samples) /\ DOMAIN h2 = DOMAIN h \cup {n} /\ h2[n] = s
      /\ n \notin DOMAIN h /\ \A k \in DOMAIN h : h2[k] = h[k]
  OBVIOUS
<1>2. /\ IsFiniteSet(S) /\ f \in [DOMAIN h -> Int] /\ f2 \in [DOMAIN h2 -> Int]
      /\ TimeOf(h, c, kinds) = Total(S, f) /\ TimeOf(h2, c, kinds) = Total(S2, f2)
      /\ Total(S, f) \in Int
  <2> HIDE DEF h2
  <2> QED BY <1>1, HistorySummed DEF TimeOf
<1>3. s.period \in Int
  BY DEF Samples
<1> HIDE DEF h2
<1>4. S2 = IF s.callchain = c /\ s.offcpu \in kinds THEN S \cup {n} ELSE S
  BY <1>1 DEF Those
<1>5. f2[n] = s.period /\ \A k \in DOMAIN h : f2[k] = f[k]
  BY <1>1 DEF Periods
<1>6. /\ n \notin S /\ IsFiniteSet(S)
      /\ \A x \in S \cup {n} : f2[x] \in Int
      /\ \A x \in S : f[x] \in Int /\ f[x] = f2[x]
  BY <1>1, <1>2, <1>5 DEF Those
<1> HIDE DEF S, f, S2, f2, n
<1>7. Total(S, f) = Total(S, f2)
  BY ONLY <1>6, TotalAgrees, ZenonT(60)
<1>8. Total(S \cup {n}, f2) = Total(S, f2) + f2[n]
  BY ONLY <1>6, TotalAdds, ZenonT(60)
<1>9. Total(S2, f2) = Total(S, f) + (IF s.callchain = c /\ s.offcpu \in kinds THEN s.period ELSE 0)
  BY <1>2, <1>3, <1>4, <1>5, <1>7, <1>8
<1> QED BY <1>2, <1>9 DEF h2

At(flame, c) == {i \in DOMAIN flame \ {1} : Paths(flame)[i] = c}
Spent(flame, c) == Total(At(flame, c), Own(flame))

(* The chain the calls of recurse have gone along, and what it is with the  *)
(* next frame.  In the place of a chain <<>> stands for none: no sample and *)
(* no element but the root has it.                                         *)
Reached == SubSeq(sample.callchain, 1, callchain_index - 1)
Further == SubSeq(sample.callchain, 1, callchain_index)
Due(c, chain) == IF c = chain THEN sample.period ELSE 0

(* The sums of a tree in which the sample at hand is missing from its own   *)
(* chain, but counted for the one it has passed.                           *)
Tally(flame, t, missing, passed) ==
  \A c : c # <<>> =>
    Spent(flame, c) = Sampled(t, c, BOOLEAN) - Due(c, missing) + Due(c, passed)

LEMMA ChainGoesOn ==
  ASSUME SampleTypeOK
  PROVE  /\ Further = Append(Reached, Frame) /\ Further # <<>>
         /\ LastBlock => Further = sample.callchain
         /\ callchain_index = 1 <=> Reached = <<>>
         /\ sample.callchain # <<>>
<1>1. sample.callchain \in Seq(STRING) /\ callchain_index \in 1..Len(sample.callchain)
  <2>1. sample.callchain \in Seq(STRING) /\ callchain_index \in DOMAIN sample.callchain
    BY DEF SampleTypeOK, Samples
  <2> QED BY <2>1
<1> DEFINE s == sample.callchain
           k == callchain_index
<1> HIDE DEF s, k
<1>2. /\ s \in Seq(STRING) /\ k \in 1..Len(s) /\ Len(s) \in Nat
  BY <1>1 DEF s, k
<1>3. /\ Len(SubSeq(s, 1, k)) = k /\ Len(SubSeq(s, 1, k - 1)) = k - 1
      /\ SubSeq(s, 1, k) \in Seq(STRING) /\ SubSeq(s, 1, k - 1) \in Seq(STRING)
      /\ \A i \in 1..k : SubSeq(s, 1, k)[i] = s[i]
      /\ \A i \in 1..(k - 1) : SubSeq(s, 1, k - 1)[i] = s[i]
  BY <1>2
<1>4. SubSeq(s, 1, k) = Append(SubSeq(s, 1, k - 1), s[k])
  BY <1>2, <1>3
<1>5. k = Len(s) => SubSeq(s, 1, k) = s
  BY <1>2, <1>3
<1>6. SubSeq(s, 1, k) # <<>> /\ s # <<>>
  BY <1>2, <1>3
<1>7. k = 1 <=> SubSeq(s, 1, k - 1) = <<>>
  BY <1>2, <1>3
<1> QED BY <1>4, <1>5, <1>6, <1>7 DEF s, k, Reached, Further, Frame, LastBlock

LEMMA CallTally ==
  ASSUME NEW flame, Rooted(flame), cur_elem \in DOMAIN flame, Paths(flame)[cur_elem] = Reached,
         SampleTypeOK, NEW target, Target(flame, target),
         NEW t \in SampledThreads, history \in [SampledThreads -> Seq(Samples)],
         NEW missing, Tally(flame, t, missing, Reached)
  PROVE  LET grown == Grown(flame, target)
         IN  /\ Rooted(grown) /\ target \in DOMAIN grown /\ Paths(grown)[target] = Further
             /\ Tally(grown, t, missing, Further)
             /\ Top(grown) = Top(flame) + (IF Reached = <<>> THEN sample.period ELSE 0)
             /\ Top(flame) \in Int
<1> DEFINE grown == Grown(flame, target)
<1>1. Took(flame, grown, target)
  BY GrownTook
<1> HIDE DEF grown
<1>2. /\ Rooted(grown) /\ DOMAIN grown = DOMAIN flame \cup {target}
      /\ target # 1 /\ target # cur_elem
      /\ Top(grown) = Top(flame) + (IF cur_elem = 1 THEN sample.period ELSE 0)
  BY <1>1 DEF Took
<1>3. /\ \A i \in DOMAIN flame : Paths(grown)[i] = Paths(flame)[i]
      /\ Paths(grown)[target] = Append(Paths(flame)[cur_elem], Frame)
  BY <1>1, TookPaths
<1>4. Paths(grown)[target] = Further /\ Further # <<>>
  BY <1>3, ChainGoesOn
<1>5. cur_elem = 1 <=> Reached = <<>>
  <2>1. /\ Paths(flame) \in [DOMAIN flame -> Seq(Names)]
        /\ Paths(flame)[1] = <<>>
        /\ \A i \in DOMAIN flame \ {1} :
             Paths(flame)[i] = Append(Paths(flame)[flame[i].up], flame[i].name)
    BY PathsAre
  <2>2. CASE cur_elem = 1
    BY <2>1, <2>2
  <2>3. CASE cur_elem # 1
    <3> DEFINE s == Paths(flame)[flame[cur_elem].up]
    <3>1. s \in Seq(Names) /\ Reached = Append(s, flame[cur_elem].name)
      <4>1. flame[cur_elem].up \in DOMAIN flame
        BY <2>3, RootedTyped
      <4> QED BY <2>1, <2>3, <4>1
    <3> HIDE DEF s
    <3>2. Append(s, flame[cur_elem].name) # <<>>
      BY <3>1
    <3> QED BY <2>3, <3>1, <3>2
  <2> QED BY <2>2, <2>3
<1>6. ASSUME NEW c, c # <<>>
      PROVE  Spent(grown, c) = Sampled(t, c, BOOLEAN) - Due(c, missing) + Due(c, Further)
  <2> DEFINE A == At(grown, c)
  <2>1. A \in SUBSET DOMAIN grown /\ A \cap DOMAIN flame = At(flame, c)
    BY <1>2, <1>3 DEF At
  <2>2. target \in A <=> c = Further
    BY <1>2, <1>4 DEF At
  <2>3. cur_elem \in A <=> c = Reached
    <3>1. cur_elem \in A <=> cur_elem # 1 /\ Paths(flame)[cur_elem] = c
      BY <1>2, <1>3 DEF At
    <3> QED BY <1>5, <1>6, <3>1
  <2> HIDE DEF A
  <2>4. Total(A, Own(grown)) = Total(A \cap DOMAIN flame, Own(flame))
            + (IF target \in A THEN sample.period ELSE 0)
            - (IF cur_elem \in A THEN sample.period ELSE 0)
    BY <1>1, <2>1, TookTotal
  <2>5. Spent(flame, c) = Sampled(t, c, BOOLEAN) - Due(c, missing) + Due(c, Reached)
    BY <1>6 DEF Tally
  <2>6. Spent(grown, c) = Spent(flame, c) + Due(c, Further) - Due(c, Reached)
    BY <2>1, <2>2, <2>3, <2>4 DEF Spent, A, Due
  <2>7. /\ Due(c, Further) \in Int /\ Due(c, Reached) \in Int /\ Due(c, missing) \in Int
    BY DEF Due, SampleTypeOK, Samples
  <2>8. Sampled(t, c, BOOLEAN) \in Int
    <3>1. Sampled(t, c, BOOLEAN) = TimeOf(history[t], c, BOOLEAN)
      BY Zenon DEF Sampled, TimeOf, Those
    <3>2. history[t] \in Seq(Samples)
      OBVIOUS
    <3> QED BY <3>1, <3>2, HistorySummed
  <2> QED BY ONLY <2>5, <2>6, <2>7, <2>8
<1>7. Top(flame) \in Int
  BY OwnTyped DEF Top
<1> QED BY <1>2, <1>4, <1>5, <1>6, <1>7 DEF Tally, grown

Missing(t, pcs) == IF flame_pc \in pcs /\ t = sample.tid THEN sample.callchain ELSE <<>>
Passed(t, at) == IF flame_pc = at /\ t = sample.tid THEN Reached ELSE <<>>

HistoryInv ==
  /\ history \in [SampledThreads -> Seq(Samples)]
  /\ \A t \in SampledThreads : \A k \in DOMAIN history[t] : history[t][k].callchain # <<>>

(* Where recurse stands.                                                    *)
Stands(flame) == cur_elem \in DOMAIN flame /\ Paths(flame)[cur_elem] = Reached
PlaceInv ==
  /\ DOMAIN output = SampledThreads /\ DOMAIN output_time_ordered = SampledThreads
  /\ \A t \in SampledThreads : Rooted(output[t]) /\ Rooted(output_time_ordered[t])
  /\ flame_pc = "merged" => Stands(output[sample.tid])
  /\ flame_pc = "ordered" => Stands(output_time_ordered[sample.tid])

(* The merged tree is done with a sample when its last call returns, the    *)
(* one in time order and the thread's total one tree later.                *)
TallyInv ==
  \A t \in SampledThreads :
    /\ Tally(output[t], t, Missing(t, {"merged"}), Passed(t, "merged"))
    /\ Tally(output_time_ordered[t], t, Missing(t, {"merged", "ordered"}), Passed(t, "ordered"))
TotalInv ==
  \A t \in SampledThreads :
    /\ Top(output[t]) = total_period[t]
         + (IF Passed(t, "merged") # <<>> \/ (flame_pc = "ordered" /\ t = sample.tid)
            THEN sample.period ELSE 0)
    /\ Top(output_time_ordered[t]) = total_period[t]
         + (IF Passed(t, "ordered") # <<>> THEN sample.period ELSE 0)

SumsInv == HistoryInv /\ PlaceInv /\ TallyInv /\ TotalInv

LEMMA AllRooted ==
  /\ Rooted(All) /\ Paths(All)[1] = <<>> /\ Top(All) = 0
  /\ \A c : At(All, c) = {} /\ Spent(All, c) = 0
<1>1. Rooted(All) /\ DOMAIN All = {1}
  <2>1. TRUE \in BOOLEAN /\ 0 \in Nat /\ "all" \in Names
    <3>1. 0 \in Nat
      OBVIOUS
    <3>2. "all" \in Names
      BY DEF Names
    <3> QED BY <3>1, <3>2, Zenon
  <2>2. Element(0, "all", TRUE) \in Elements /\ Element(0, "all", TRUE).up = 0
    BY <2>1, ElementMade, Zenon
  <2>3. DOMAIN All = {1} /\ All[1] = Element(0, "all", TRUE)
    BY DEF All
  <2>4. All \in Seq(Elements)
    BY <2>2, SingletonSeq DEF All
  <2>5. All[1].up = 0
    BY <2>2, <2>3
  <2>6. DOMAIN All = {1}
    BY <2>3
  <2>7. 1 \in DOMAIN All /\ \A i \in DOMAIN All : i > 1 => All[i].up \in 1..(i - 1)
    BY ONLY <2>6
  <2> QED BY <2>4, <2>5, <2>6, <2>7, Zenon DEF Rooted
<1>2. All[1].up = 0
  BY <1>1 DEF Rooted
<1>3. Children(All, 1) = {} /\ \A c : At(All, c) = {}
  BY <1>1, <1>2 DEF Children, At
<1>4. \A f : Total({}, f) = 0
  BY TotalStep, FS_EmptySet
<1>5. Paths(All)[1] = <<>>
  BY <1>1, PathsAre
<1> QED BY <1>1, <1>3, <1>4, <1>5 DEF Top, Spent

(* PathsAddUp is what is left between two samples.                          *)
LEMMA SumsShown ==
  ASSUME SampleTypeOK, SumsInv, Between, NEW t \in SampledThreads
  PROVE  PathTimes(t, output[t]) /\ PathTimes(t, output_time_ordered[t])
<1>1. ASSUME NEW flame, Rooted(flame), Tally(flame, t, <<>>, <<>>), Top(flame) = total_period[t]
      PROVE  PathTimes(t, flame)
  <2> DEFINE chains == {Paths(flame)[i] : i \in DOMAIN flame \ {1}}
                         \cup {history[t][k].callchain : k \in DOMAIN history[t]}
  <2>1. ASSUME NEW c \in chains PROVE c # <<>>
    <3>1. CASE \E i \in DOMAIN flame \ {1} : c = Paths(flame)[i]
      <4>1. PICK i \in DOMAIN flame \ {1} : c = Paths(flame)[i]
        BY <3>1
      <4> DEFINE s == Paths(flame)[flame[i].up]
      <4>2. flame[i].up \in DOMAIN flame
        BY <1>1, <4>1, RootedTyped
      <4>3. s \in Seq(Names) /\ c = Append(s, flame[i].name)
        BY <1>1, <4>1, <4>2, PathsAre
      <4> HIDE DEF s
      <4>4. Append(s, flame[i].name) # <<>>
        BY <4>3
      <4> QED BY <4>3, <4>4
    <3>2. CASE \E k \in DOMAIN history[t] : c = history[t][k].callchain
      BY <3>2 DEF SumsInv, HistoryInv
    <3> QED BY <3>1, <3>2
  <2>2. ASSUME NEW c \in chains PROVE Spent(flame, c) = Sampled(t, c, BOOLEAN)
    <3>1. Spent(flame, c) = Sampled(t, c, BOOLEAN) - 0 + 0
      BY <1>1, <2>1 DEF Tally, Due
    <3>2. Sampled(t, c, BOOLEAN) = TimeOf(history[t], c, BOOLEAN)
      BY Zenon DEF Sampled, TimeOf, Those
    <3>3. history[t] \in Seq(Samples)
      BY DEF SumsInv, HistoryInv
    <3>4. Sampled(t, c, BOOLEAN) \in Int
      BY <3>2, <3>3, HistorySummed
    <3> QED BY ONLY <3>1, <3>4
  <2>3. \A c \in chains : Total({i \in DOMAIN flame \ {1} : Paths(flame)[i] = c}, Own(flame))
                            = Sampled(t, c, BOOLEAN)
    BY <2>2 DEF Spent, At
  <2> QED BY <1>1, <2>3, Zenon DEF PathTimes, Top
<1>2. /\ Missing(t, {"merged"}) = <<>> /\ Missing(t, {"merged", "ordered"}) = <<>>
      /\ Passed(t, "merged") = <<>> /\ Passed(t, "ordered") = <<>>
      /\ flame_pc # "ordered"
  BY DEF Between, Missing, Passed
<1>3. /\ Tally(output[t], t, <<>>, <<>>) /\ Tally(output_time_ordered[t], t, <<>>, <<>>)
      /\ Rooted(output[t]) /\ Rooted(output_time_ordered[t])
  BY <1>2 DEF SumsInv, TallyInv, PlaceInv
<1>4. /\ Top(output[t]) = total_period[t] + 0 /\ Top(output_time_ordered[t]) = total_period[t] + 0
      /\ Top(output[t]) \in Int /\ Top(output_time_ordered[t]) \in Int
  <2>1. Top(output[t]) = total_period[t] + 0 /\ Top(output_time_ordered[t]) = total_period[t] + 0
    BY <1>2 DEF SumsInv, TotalInv
  <2>2. Top(output[t]) \in Int /\ Top(output_time_ordered[t]) \in Int
    BY <1>3, OwnTyped DEF Top
  <2> QED BY <2>1, <2>2
<1>5. total_period[t] \in Int
  BY DEF SampleTypeOK
<1>6. Top(output[t]) = total_period[t] /\ Top(output_time_ordered[t]) = total_period[t]
  BY ONLY <1>4, <1>5
<1> QED BY <1>1, <1>3, <1>6

LEMMA SumsInit == FlameInit => SumsInv
<1> SUFFICES ASSUME FlameInit PROVE SumsInv
  OBVIOUS
<1>1. /\ output = [t \in SampledThreads |-> All]
      /\ output_time_ordered = [t \in SampledThreads |-> All]
      /\ total_period = [t \in SampledThreads |-> 0]
      /\ history = [t \in SampledThreads |-> <<>>]
      /\ flame_pc = "read"
  BY DEF FlameInit
<1>2. \A t \in SampledThreads : /\ output[t] = All /\ output_time_ordered[t] = All
                                /\ total_period[t] = 0 /\ history[t] = <<>>
  BY <1>1
<1>3. HistoryInv
  <2>1. <<>> \in Seq(Samples) /\ DOMAIN <<>> = {}
    OBVIOUS
  <2> QED BY <1>1, <2>1 DEF HistoryInv
<1>4. PlaceInv
  BY <1>1, <1>2, AllRooted DEF PlaceInv
<1>5. ASSUME NEW t \in SampledThreads
      PROVE  /\ Missing(t, {"merged"}) = <<>> /\ Missing(t, {"merged", "ordered"}) = <<>>
             /\ Passed(t, "merged") = <<>> /\ Passed(t, "ordered") = <<>>
             /\ flame_pc # "ordered"
  BY <1>1 DEF Missing, Passed
<1>6. ASSUME NEW t \in SampledThreads PROVE Tally(All, t, <<>>, <<>>)
  <2>1. ASSUME NEW c, c # <<>>
        PROVE  Spent(All, c) = Sampled(t, c, BOOLEAN) - Due(c, <<>>) + Due(c, <<>>)
    <3>1. Sampled(t, c, BOOLEAN) = Total({}, Periods(history[t]))
      <4>1. {k \in DOMAIN history[t] : /\ history[t][k].callchain = c
                                       /\ history[t][k].offcpu \in BOOLEAN} = {}
        BY <1>2
      <4> QED BY <4>1, Zenon DEF Sampled
    <3>2. Total({}, Periods(history[t])) = 0
      BY TotalStep, FS_EmptySet
    <3> QED BY <2>1, <3>1, <3>2, AllRooted DEF Due
  <2> QED BY <2>1 DEF Tally
<1>7. TallyInv
  BY <1>2, <1>5, <1>6 DEF TallyInv
<1>8. TotalInv
  BY <1>2, <1>5, AllRooted DEF TotalInv
<1> QED BY <1>3, <1>4, <1>7, <1>8 DEF SumsInv

(* A sample arrives: it is missing from its thread's trees.                 *)
LEMMA SumsRead ==
  ASSUME SampleTypeOK, SampleTypeOK', SumsInv,
         NEW tid \in SampledThreads, NEW time \in StartTime..MaxTime,
         NEW reported \in 1..MaxTime, NEW offcpu \in BOOLEAN, NEW chain \in Chains,
         ReadSample(tid, time, reported, offcpu, chain)
  PROVE  SumsInv'
<1>1. /\ flame_pc = "read" /\ flame_pc' = "merged" /\ callchain_index' = 1 /\ cur_elem' = 1
      /\ output' = output /\ output_time_ordered' = output_time_ordered
      /\ total_period' = total_period
      /\ history' = [history EXCEPT ![tid] = Append(@, sample')]
      /\ sample'.tid = tid
  BY DEF ReadSample, treeOfVars
<1>2. sample' \in Samples /\ sample'.callchain # <<>> /\ sample'.period \in Int
  BY ChainGoesOn DEF SampleTypeOK, Samples
<1>3. history \in [SampledThreads -> Seq(Samples)] /\ history[tid] \in Seq(Samples)
  BY DEF SumsInv, HistoryInv
<1>4. /\ history'[tid] = Append(history[tid], sample')
      /\ \A t \in SampledThreads : t # tid => history'[t] = history[t]
      /\ history' \in [SampledThreads -> Seq(Samples)]
  BY <1>1, <1>2, <1>3
<1>5. HistoryInv'
  <2>1. ASSUME NEW t \in SampledThreads, NEW k \in DOMAIN history'[t]
        PROVE  history'[t][k].callchain # <<>>
    <3>1. CASE t # tid
      BY <1>4, <2>1, <3>1 DEF SumsInv, HistoryInv
    <3>2. CASE t = tid
      <4>1. \/ k \in DOMAIN history[tid] /\ history'[tid][k] = history[tid][k]
            \/ history'[tid][k] = sample'
        BY <1>2, <1>3, <1>4, <2>1, <3>2
      <4> QED BY <1>2, <3>2, <4>1 DEF SumsInv, HistoryInv
    <3> QED BY <3>1, <3>2
  <2> QED BY <1>4, <2>1 DEF HistoryInv
<1>6. Reached' = <<>>
  <2>1. SubSeq(sample'.callchain, 1, 0) = <<>>
    BY DEF SampleTypeOK, Samples
  <2>2. callchain_index' - 1 = 0
    BY <1>1
  <2> QED BY <2>1, <2>2 DEF Reached
<1>7. PlaceInv'
  <2>1. Rooted(output[tid])
    BY DEF SumsInv, PlaceInv
  <2>2. 1 \in DOMAIN output[tid] /\ Paths(output[tid])[1] = <<>>
    BY <2>1, PathsAre, RootedTyped
  <2> QED BY <1>1, <1>6, <2>2 DEF SumsInv, PlaceInv, Stands
<1>8. ASSUME NEW t \in SampledThreads
      PROVE  /\ Missing(t, {"merged"}) = <<>> /\ Missing(t, {"merged", "ordered"}) = <<>>
             /\ Passed(t, "merged") = <<>> /\ Passed(t, "ordered") = <<>>
             /\ Missing(t, {"merged"})' = IF t = tid THEN sample'.callchain ELSE <<>>
             /\ Missing(t, {"merged", "ordered"})' = IF t = tid THEN sample'.callchain ELSE <<>>
             /\ Passed(t, "merged")' = <<>> /\ Passed(t, "ordered")' = <<>>
  BY <1>1, <1>6 DEF Missing, Passed
<1>9. ASSUME NEW t \in SampledThreads, NEW flame, Rooted(flame), Tally(flame, t, <<>>, <<>>), NEW c, c # <<>>
      PROVE  Spent(flame, c) = TimeOf(history'[t], c, BOOLEAN)
               - (IF t = tid /\ c = sample'.callchain THEN sample'.period ELSE 0)
  <2>1. Spent(flame, c) = Sampled(t, c, BOOLEAN) - 0 + 0
    BY <1>9 DEF Tally, Due
  <2>2. Sampled(t, c, BOOLEAN) = TimeOf(history[t], c, BOOLEAN)
    BY Zenon DEF Sampled, TimeOf, Those
  <2>3. TimeOf(history[t], c, BOOLEAN) \in Int
    BY <1>3, HistorySummed
  <2>4. CASE t # tid
    <3>1. TimeOf(history'[t], c, BOOLEAN) = TimeOf(history[t], c, BOOLEAN)
      BY <1>4, <2>4
    <3> QED BY <2>1, <2>2, <2>3, <2>4, <3>1
  <2>5. CASE t = tid
    <3>1. TimeOf(Append(history[tid], sample'), c, BOOLEAN)
            = TimeOf(history[tid], c, BOOLEAN)
               + (IF sample'.callchain = c /\ sample'.offcpu \in BOOLEAN THEN sample'.period ELSE 0)
      BY <1>2, <1>3, HistoryGrows
    <3>2. sample'.offcpu \in BOOLEAN
      BY <1>2 DEF Samples
    <3>3. TimeOf(history'[t], c, BOOLEAN) = TimeOf(history[t], c, BOOLEAN)
            + (IF c = sample'.callchain THEN sample'.period ELSE 0)
      BY <1>4, <2>5, <3>1, <3>2
    <3> QED BY <1>2, <2>1, <2>2, <2>3, <2>5, <3>3
  <2> QED BY <2>4, <2>5
<1>10. TallyInv'
  <2>1. ASSUME NEW t \in SampledThreads, NEW c, c # <<>>
        PROVE  /\ Spent(output[t], c) = TimeOf(history'[t], c, BOOLEAN)
                    - (IF c = Missing(t, {"merged"})' THEN sample'.period ELSE 0) + 0
               /\ Spent(output_time_ordered[t], c) = TimeOf(history'[t], c, BOOLEAN)
                    - (IF c = Missing(t, {"merged", "ordered"})' THEN sample'.period ELSE 0) + 0
    <3>1. /\ Rooted(output[t]) /\ Tally(output[t], t, <<>>, <<>>)
          /\ Rooted(output_time_ordered[t]) /\ Tally(output_time_ordered[t], t, <<>>, <<>>)
      BY <1>8 DEF SumsInv, PlaceInv, TallyInv
    <3>2. /\ Spent(output[t], c) = TimeOf(history'[t], c, BOOLEAN)
               - (IF t = tid /\ c = sample'.callchain THEN sample'.period ELSE 0)
          /\ Spent(output_time_ordered[t], c) = TimeOf(history'[t], c, BOOLEAN)
               - (IF t = tid /\ c = sample'.callchain THEN sample'.period ELSE 0)
      BY <1>9, <2>1, <3>1
    <3>3. /\ c = Missing(t, {"merged"})' <=> t = tid /\ c = sample'.callchain
          /\ c = Missing(t, {"merged", "ordered"})' <=> t = tid /\ c = sample'.callchain
      BY <1>8, <2>1
    <3>4. TimeOf(history'[t], c, BOOLEAN) \in Int
      BY <1>4, HistorySummed
    <3> QED BY <1>2, <3>2, <3>3, <3>4
  <2>2. ASSUME NEW t \in SampledThreads, NEW c, c # <<>>
        PROVE  /\ (Spent(output[t], c) = Sampled(t, c, BOOLEAN) - Due(c, Missing(t, {"merged"}))
                     + Due(c, Passed(t, "merged")))'
               /\ (Spent(output_time_ordered[t], c) = Sampled(t, c, BOOLEAN)
                     - Due(c, Missing(t, {"merged", "ordered"})) + Due(c, Passed(t, "ordered")))'
    <3>1. Sampled(t, c, BOOLEAN)' = TimeOf(history'[t], c, BOOLEAN)
      BY Zenon DEF Sampled, TimeOf, Those
    <3>2. /\ Due(c, Missing(t, {"merged"}))'
               = IF c = Missing(t, {"merged"})' THEN sample'.period ELSE 0
          /\ Due(c, Missing(t, {"merged", "ordered"}))'
               = IF c = Missing(t, {"merged", "ordered"})' THEN sample'.period ELSE 0
          /\ Due(c, Passed(t, "merged"))' = 0 /\ Due(c, Passed(t, "ordered"))' = 0
      BY <1>8, <2>2 DEF Due
    <3>3. /\ Spent(output[t], c)' = Spent(output[t], c)
          /\ Spent(output_time_ordered[t], c)' = Spent(output_time_ordered[t], c)
      BY <1>1
    <3> QED BY <2>1, <2>2, <3>1, <3>2, <3>3
  <2> QED BY <2>2 DEF TallyInv, Tally
<1>11. TotalInv'
  BY <1>1, <1>8 DEF SumsInv, TotalInv
<1> QED BY <1>5, <1>7, <1>10, <1>11 DEF SumsInv

LEMMA TallyNext ==
  ASSUME UNCHANGED <<sample, history>>, NEW t, NEW flame, NEW missing, NEW passed,
         Tally(flame, t, missing, passed)
  PROVE  /\ output'[t] = flame /\ Missing(t, {"merged"})' = missing /\ Passed(t, "merged")' = passed
              => Tally(output[t], t, Missing(t, {"merged"}), Passed(t, "merged"))'
         /\ output_time_ordered'[t] = flame /\ Missing(t, {"merged", "ordered"})' = missing
              /\ Passed(t, "ordered")' = passed
              => Tally(output_time_ordered[t], t, Missing(t, {"merged", "ordered"}),
                       Passed(t, "ordered"))'
<1>1. \A c : Sampled(t, c, BOOLEAN)' = Sampled(t, c, BOOLEAN)
  BY DEF Sampled, Periods
<1>2. ASSUME output'[t] = flame, Missing(t, {"merged"})' = missing, Passed(t, "merged")' = passed
      PROVE  Tally(output[t], t, Missing(t, {"merged"}), Passed(t, "merged"))'
  <2>1. ASSUME NEW c, c # <<>>
        PROVE  (Spent(output[t], c) = Sampled(t, c, BOOLEAN) - Due(c, Missing(t, {"merged"}))
                  + Due(c, Passed(t, "merged")))'
    <3>1. Spent(flame, c) = Sampled(t, c, BOOLEAN) - Due(c, missing) + Due(c, passed)
      BY <2>1 DEF Tally
    <3>2. /\ Due(c, Missing(t, {"merged"}))' = Due(c, missing)
          /\ Due(c, Passed(t, "merged"))' = Due(c, passed)
      BY <1>2 DEF Due
    <3>3. Spent(output[t], c)' = Spent(flame, c)
      BY <1>2
    <3> QED BY <1>1, <3>1, <3>2, <3>3
  <2> QED BY <2>1 DEF Tally
<1>3. ASSUME output_time_ordered'[t] = flame, Missing(t, {"merged", "ordered"})' = missing,
             Passed(t, "ordered")' = passed
      PROVE  Tally(output_time_ordered[t], t, Missing(t, {"merged", "ordered"}),
                   Passed(t, "ordered"))'
  <2>1. ASSUME NEW c, c # <<>>
        PROVE  (Spent(output_time_ordered[t], c) = Sampled(t, c, BOOLEAN)
                  - Due(c, Missing(t, {"merged", "ordered"})) + Due(c, Passed(t, "ordered")))'
    <3>1. Spent(flame, c) = Sampled(t, c, BOOLEAN) - Due(c, missing) + Due(c, passed)
      BY <2>1 DEF Tally
    <3>2. /\ Due(c, Missing(t, {"merged", "ordered"}))' = Due(c, missing)
          /\ Due(c, Passed(t, "ordered"))' = Due(c, passed)
      BY <1>3 DEF Due
    <3>3. Spent(output_time_ordered[t], c)' = Spent(flame, c)
      BY <1>3
    <3> QED BY <1>1, <3>1, <3>2, <3>3
  <2> QED BY <2>1 DEF Tally
<1> QED BY <1>2, <1>3

(* What the two calls have in common.                                       *)
LEMMA CallGoesOn ==
  ASSUME SampleTypeOK, NEW target, Descend(target), UNCHANGED sample
  PROVE  /\ LastBlock => Reached' = <<>> /\ callchain_index' = 1 /\ cur_elem' = 1
         /\ ~LastBlock => Reached' = Further /\ cur_elem' = target
<1>1. callchain_index \in Int /\ sample.callchain \in Seq(STRING)
  <2>1. sample.callchain \in Seq(STRING) /\ callchain_index \in DOMAIN sample.callchain
    BY DEF SampleTypeOK, Samples
  <2> QED BY <2>1
<1>2. CASE LastBlock
  <2>1. callchain_index' = 1 /\ cur_elem' = 1
    BY <1>2 DEF Descend
  <2>2. Reached' = SubSeq(sample.callchain, 1, 0)
    BY <2>1 DEF Reached
  <2>3. SubSeq(sample.callchain, 1, 0) = <<>>
    BY <1>1
  <2> QED BY <1>2, <2>1, <2>2, <2>3
<1>3. CASE ~LastBlock
  <2>1. callchain_index' = callchain_index + 1 /\ cur_elem' = target
    BY <1>3 DEF Descend
  <2>2. Reached' = SubSeq(sample.callchain, 1, (callchain_index + 1) - 1)
    BY <2>1 DEF Reached
  <2>3. (callchain_index + 1) - 1 = callchain_index
    BY <1>1
  <2> QED BY <1>3, <2>1, <2>2, <2>3 DEF Further
<1> QED BY <1>2, <1>3

(* The last call of a sample settles it.                                    *)
LEMMA Settled ==
  ASSUME SampleTypeOK, LastBlock, NEW flame, NEW t \in SampledThreads,
         history \in [SampledThreads -> Seq(Samples)],
         Tally(flame, t, sample.callchain, Further)
  PROVE  Tally(flame, t, <<>>, <<>>)
<1>1. Further = sample.callchain
  BY ChainGoesOn
<1>2. ASSUME NEW c, c # <<>>
      PROVE  Spent(flame, c) = Sampled(t, c, BOOLEAN) - Due(c, <<>>) + Due(c, <<>>)
  <2>1. Spent(flame, c) = Sampled(t, c, BOOLEAN) - Due(c, Further) + Due(c, Further)
    BY <1>1, <1>2 DEF Tally
  <2>2. Sampled(t, c, BOOLEAN) = TimeOf(history[t], c, BOOLEAN)
    BY Zenon DEF Sampled, TimeOf, Those
  <2>3. history[t] \in Seq(Samples)
    OBVIOUS
  <2>4. Sampled(t, c, BOOLEAN) \in Int
    BY <2>2, <2>3, HistorySummed
  <2>5. Due(c, Further) \in Int /\ Due(c, <<>>) = 0
    BY <1>2 DEF Due, SampleTypeOK, Samples
  <2> QED BY ONLY <2>1, <2>4, <2>5
<1> QED BY <1>2 DEF Tally

LEMMA MergedIsTarget ==
  ASSUME NEW flame, Rooted(flame), NEW target \in MergedTarget(flame)
  PROVE  Target(flame, target)
<1>1. CASE Found(flame) = {}
  BY <1>1 DEF MergedTarget, NewElement, Target
<1>2. CASE Found(flame) # {}
  <2>1. target \in Found(flame)
    BY <1>2 DEF MergedTarget, Preferred, Latest
  <2> QED BY <2>1 DEF Found, Children, Target
<1> QED BY <1>1, <1>2

LEMMA OrderedIsTarget ==
  ASSUME NEW flame, Rooted(flame), NEW target \in OrderedTarget(flame)
  PROVE  Target(flame, target)
<1> DEFINE last == {i \in Latest(Children(flame, cur_elem)) : Continues(flame, i)}
<1>1. CASE last = {}
  BY <1>1 DEF OrderedTarget, NewElement, Target
<1>2. CASE last # {}
  <2>1. target \in last
    BY <1>2 DEF OrderedTarget
  <2> QED BY <2>1 DEF Latest, Children, Continues, Target
<1> QED BY <1>1, <1>2

LEMMA SumsMerged ==
  ASSUME SampleTypeOK, SampleTypeOK', SumsInv, RecurseMerged
  PROVE  SumsInv'
<1> DEFINE tid == sample.tid
           flame == output[tid]
           chain == sample.callchain
<1>1. PICK target \in MergedTarget(flame) :
        /\ output' = [output EXCEPT ![tid] = Grown(@, target)]
        /\ Descend(target)
  BY DEF RecurseMerged
<1> DEFINE grown == Grown(flame, target)
<1>2. /\ flame_pc = "merged" /\ flame_pc' = IF LastBlock THEN "ordered" ELSE "merged"
      /\ UNCHANGED <<sample, history, output_time_ordered, total_period>>
  BY DEF RecurseMerged, sampleVars
<1>3. tid \in SampledThreads /\ sample.period \in Int
  BY DEF SampleTypeOK, Samples
<1>4. /\ Rooted(flame) /\ cur_elem \in DOMAIN flame /\ Paths(flame)[cur_elem] = Reached
      /\ DOMAIN output = SampledThreads
      /\ history \in [SampledThreads -> Seq(Samples)]
  BY <1>2, <1>3 DEF SumsInv, PlaceInv, HistoryInv, Stands
<1>5. Missing(tid, {"merged"}) = chain /\ Passed(tid, "merged") = Reached
  BY <1>2 DEF Missing, Passed
<1>6. Tally(flame, tid, chain, Reached)
  BY <1>3, <1>5 DEF SumsInv, TallyInv
<1>7. /\ Rooted(grown) /\ target \in DOMAIN grown /\ Paths(grown)[target] = Further
      /\ Tally(grown, tid, chain, Further)
      /\ Top(grown) = Top(flame) + (IF Reached = <<>> THEN sample.period ELSE 0)
      /\ Top(flame) \in Int
  BY <1>1, <1>3, <1>4, <1>6, MergedIsTarget, CallTally
<1>8. output'[tid] = grown /\ \A t \in SampledThreads : t # tid => output'[t] = output[t]
  BY <1>1, <1>3, <1>4
<1>9. DOMAIN output' = SampledThreads
  BY <1>1, <1>4
<1>10. /\ LastBlock => Reached' = <<>> /\ callchain_index' = 1 /\ cur_elem' = 1
       /\ ~LastBlock => Reached' = Further /\ cur_elem' = target
  BY <1>1, <1>2, CallGoesOn
<1> HIDE DEF tid, flame, chain, grown
<1>11. HistoryInv'
  BY <1>2 DEF SumsInv, HistoryInv
<1>12. PlaceInv'
  <2>1. \A t \in SampledThreads : Rooted(output'[t]) /\ Rooted(output_time_ordered'[t])
    BY <1>2, <1>7, <1>8 DEF SumsInv, PlaceInv
  <2>2. CASE LastBlock
    <3>1. 1 \in DOMAIN output_time_ordered[tid] /\ Paths(output_time_ordered[tid])[1] = <<>>
      BY <1>3, PathsAre, RootedTyped DEF SumsInv, PlaceInv
    <3>2. flame_pc' = "ordered"
      BY <1>2, <2>2
    <3> QED BY <1>2, <1>9, <1>10, <2>1, <2>2, <3>1, <3>2 DEF SumsInv, PlaceInv, Stands, tid
  <2>3. CASE ~LastBlock
    <3>1. flame_pc' = "merged"
      BY <1>2, <2>3
    <3> QED BY <1>2, <1>7, <1>8, <1>9, <1>10, <2>1, <2>3, <3>1 DEF SumsInv, PlaceInv, Stands, tid
  <2> QED BY <2>2, <2>3
<1>13. ASSUME NEW t \in SampledThreads
       PROVE  /\ Tally(output[t], t, Missing(t, {"merged"}), Passed(t, "merged"))'
              /\ Tally(output_time_ordered[t], t, Missing(t, {"merged", "ordered"}), Passed(t, "ordered"))'
  <2>1. /\ Tally(output_time_ordered[t], t, Missing(t, {"merged", "ordered"}), Passed(t, "ordered"))
        /\ Tally(output[t], t, Missing(t, {"merged"}), Passed(t, "merged"))
    BY DEF SumsInv, TallyInv
  <2>2. /\ Missing(t, {"merged", "ordered"})' = Missing(t, {"merged", "ordered"})
        /\ Passed(t, "ordered") = <<>> /\ Passed(t, "ordered")' = <<>>
    BY <1>2, <1>10 DEF Missing, Passed
  <2>3. Tally(output_time_ordered[t], t, Missing(t, {"merged", "ordered"}), Passed(t, "ordered"))'
    BY <1>2, <2>1, <2>2, TallyNext
  <2>4. CASE t # tid
    <3>1. /\ Missing(t, {"merged"}) = <<>> /\ Missing(t, {"merged"})' = <<>>
          /\ Passed(t, "merged") = <<>> /\ Passed(t, "merged")' = <<>>
      BY <1>2, <2>4 DEF Missing, Passed, tid
    <3>2. output'[t] = output[t]
      BY <1>8, <2>4
    <3> QED BY <1>2, <2>1, <2>3, <3>1, <3>2, TallyNext
  <2>5. CASE t = tid /\ LastBlock
    <3>1. Missing(t, {"merged"})' = <<>> /\ Passed(t, "merged")' = <<>>
      BY <1>2, <2>5 DEF Missing, Passed
    <3>2. Tally(grown, tid, <<>>, <<>>)
      BY <1>3, <1>4, <1>7, <2>5, Settled DEF chain
    <3>3. output'[t] = grown /\ Tally(grown, t, <<>>, <<>>)
      BY <1>8, <2>5, <3>2
    <3> QED BY <1>2, <2>3, <3>1, <3>3, TallyNext
  <2>6. CASE t = tid /\ ~LastBlock
    <3>1. Missing(t, {"merged"})' = chain /\ Passed(t, "merged")' = Further
      BY <1>2, <1>10, <2>6 DEF Missing, Passed, tid, chain
    <3>2. output'[t] = grown /\ Tally(grown, t, chain, Further)
      BY <1>7, <1>8, <2>6
    <3> QED BY <1>2, <2>3, <3>1, <3>2, TallyNext
  <2> QED BY <2>4, <2>5, <2>6
<1>14. TotalInv'
  <2>1. ASSUME NEW t \in SampledThreads
        PROVE  (/\ Top(output[t]) = total_period[t]
                     + (IF Passed(t, "merged") # <<>> \/ (flame_pc = "ordered" /\ t = sample.tid)
                        THEN sample.period ELSE 0)
                /\ Top(output_time_ordered[t]) = total_period[t]
                     + (IF Passed(t, "ordered") # <<>> THEN sample.period ELSE 0))'
    <3>1. /\ Top(output[t]) = total_period[t]
               + (IF Passed(t, "merged") # <<>> \/ (flame_pc = "ordered" /\ t = sample.tid)
                  THEN sample.period ELSE 0)
          /\ Top(output_time_ordered[t]) = total_period[t]
               + (IF Passed(t, "ordered") # <<>> THEN sample.period ELSE 0)
      BY DEF SumsInv, TotalInv
    <3>2. Passed(t, "ordered") = <<>> /\ Passed(t, "ordered")' = <<>>
      BY <1>2, <1>10 DEF Passed
    <3>3. Top(output_time_ordered[t])' = total_period'[t]
               + (IF Passed(t, "ordered")' # <<>> THEN sample'.period ELSE 0)
      BY <1>2, <3>1, <3>2
    <3>4. CASE t # tid
      <4>1. Passed(t, "merged") = <<>> /\ Passed(t, "merged")' = <<>> /\ t # sample.tid /\ t # sample'.tid
        BY <1>2, <3>4 DEF Passed, tid
      <4>2. Top(output[t])' = Top(output[t])
        BY <1>8, <3>4
      <4> QED BY <1>2, <3>1, <3>3, <4>1, <4>2
    <3>5. CASE t = tid
      <4>1. Passed(t, "merged")' # <<>> \/ (flame_pc' = "ordered" /\ t = sample'.tid)
        <5>1. Further # <<>>
          BY ChainGoesOn
        <5> QED BY <1>2, <1>10, <3>5, <5>1 DEF Passed, tid
      <4>2. Top(flame) = total_period[t] + (IF Reached # <<>> THEN sample.period ELSE 0)
        BY <1>2, <1>5, <3>1, <3>5 DEF flame
      <4>3. total_period[t] \in Int
        BY DEF SampleTypeOK
      <4>4. Top(grown) = total_period[t] + sample.period
        BY <1>3, <1>7, <4>2, <4>3
      <4>5. Top(output[t])' = Top(grown)
        BY <1>8, <3>5
      <4> QED BY <1>2, <3>3, <4>1, <4>4, <4>5
    <3> QED BY <3>4, <3>5
  <2> QED BY <2>1 DEF TotalInv
<1>15. TallyInv'
  BY <1>13 DEF TallyInv
<1> QED BY <1>11, <1>12, <1>14, <1>15 DEF SumsInv

LEMMA SumsOrdered ==
  ASSUME SampleTypeOK, SampleTypeOK', SumsInv, RecurseOrdered
  PROVE  SumsInv'
<1> DEFINE tid == sample.tid
           flame == output_time_ordered[tid]
           chain == sample.callchain
<1>1. PICK target \in OrderedTarget(flame) :
        /\ output_time_ordered' = [output_time_ordered EXCEPT ![tid] = Grown(@, target)]
        /\ Descend(target)
  BY DEF RecurseOrdered
<1> DEFINE grown == Grown(flame, target)
<1>2. /\ flame_pc = "ordered" /\ flame_pc' = IF LastBlock THEN "read" ELSE "ordered"
      /\ UNCHANGED <<sample, history, output>>
      /\ LastBlock => total_period' = [total_period EXCEPT ![tid] = @ + sample.period]
      /\ ~LastBlock => total_period' = total_period
  BY DEF RecurseOrdered, sampleVars
<1>3. tid \in SampledThreads /\ sample.period \in Int
  BY DEF SampleTypeOK, Samples
<1>4. /\ Rooted(flame) /\ cur_elem \in DOMAIN flame /\ Paths(flame)[cur_elem] = Reached
      /\ DOMAIN output_time_ordered = SampledThreads
      /\ history \in [SampledThreads -> Seq(Samples)]
  BY <1>2, <1>3 DEF SumsInv, PlaceInv, HistoryInv, Stands
<1>5. Missing(tid, {"merged", "ordered"}) = chain /\ Passed(tid, "ordered") = Reached
  BY <1>2 DEF Missing, Passed
<1>6. Tally(flame, tid, chain, Reached)
  BY <1>3, <1>5 DEF SumsInv, TallyInv
<1>7. /\ Rooted(grown) /\ target \in DOMAIN grown /\ Paths(grown)[target] = Further
      /\ Tally(grown, tid, chain, Further)
      /\ Top(grown) = Top(flame) + (IF Reached = <<>> THEN sample.period ELSE 0)
      /\ Top(flame) \in Int
  BY <1>1, <1>3, <1>4, <1>6, OrderedIsTarget, CallTally
<1>8. /\ output_time_ordered'[tid] = grown
      /\ \A t \in SampledThreads : t # tid => output_time_ordered'[t] = output_time_ordered[t]
  BY <1>1, <1>3, <1>4
<1>9. DOMAIN output_time_ordered' = SampledThreads
  BY <1>1, <1>4
<1>10. /\ LastBlock => Reached' = <<>> /\ callchain_index' = 1 /\ cur_elem' = 1
       /\ ~LastBlock => Reached' = Further /\ cur_elem' = target
  BY <1>1, <1>2, CallGoesOn
<1>11. /\ total_period \in [SampledThreads -> Int]
       /\ LastBlock => total_period'[tid] = total_period[tid] + sample.period
       /\ \A t \in SampledThreads : t # tid => total_period'[t] = total_period[t]
  <2>1. total_period \in [SampledThreads -> Int]
    BY DEF SampleTypeOK
  <2> QED BY <1>2, <1>3, <2>1
<1> HIDE DEF tid, flame, chain, grown
<1>12. HistoryInv'
  BY <1>2 DEF SumsInv, HistoryInv
<1>13. PlaceInv'
  <2>1. \A t \in SampledThreads : Rooted(output'[t]) /\ Rooted(output_time_ordered'[t])
    BY <1>2, <1>7, <1>8 DEF SumsInv, PlaceInv
  <2>2. CASE LastBlock
    <3>1. flame_pc' = "read"
      BY <1>2, <2>2
    <3> QED BY <1>2, <1>9, <2>1, <3>1 DEF SumsInv, PlaceInv
  <2>3. CASE ~LastBlock
    <3>1. flame_pc' = "ordered"
      BY <1>2, <2>3
    <3> QED BY <1>2, <1>7, <1>8, <1>9, <1>10, <2>1, <2>3, <3>1 DEF SumsInv, PlaceInv, Stands, tid
  <2> QED BY <2>2, <2>3
<1>14. ASSUME NEW t \in SampledThreads
       PROVE  /\ Tally(output[t], t, Missing(t, {"merged"}), Passed(t, "merged"))'
              /\ Tally(output_time_ordered[t], t, Missing(t, {"merged", "ordered"}), Passed(t, "ordered"))'
  <2>1. /\ Tally(output_time_ordered[t], t, Missing(t, {"merged", "ordered"}), Passed(t, "ordered"))
        /\ Tally(output[t], t, Missing(t, {"merged"}), Passed(t, "merged"))
    BY DEF SumsInv, TallyInv
  <2>2. /\ Missing(t, {"merged"}) = <<>> /\ Missing(t, {"merged"})' = <<>>
        /\ Passed(t, "merged") = <<>> /\ Passed(t, "merged")' = <<>>
    BY <1>2, <1>10 DEF Missing, Passed
  <2>3. Tally(output[t], t, Missing(t, {"merged"}), Passed(t, "merged"))'
    BY <1>2, <2>1, <2>2, TallyNext
  <2>4. CASE t # tid
    <3>1. /\ Missing(t, {"merged", "ordered"}) = <<>> /\ Missing(t, {"merged", "ordered"})' = <<>>
          /\ Passed(t, "ordered") = <<>> /\ Passed(t, "ordered")' = <<>>
      BY <1>2, <2>4 DEF Missing, Passed, tid
    <3>2. output_time_ordered'[t] = output_time_ordered[t]
      BY <1>8, <2>4
    <3> QED BY <1>2, <2>1, <2>3, <3>1, <3>2, TallyNext
  <2>5. CASE t = tid /\ LastBlock
    <3>1. Missing(t, {"merged", "ordered"})' = <<>> /\ Passed(t, "ordered")' = <<>>
      BY <1>2, <2>5 DEF Missing, Passed
    <3>2. Tally(grown, tid, <<>>, <<>>)
      BY <1>3, <1>4, <1>7, <2>5, Settled DEF chain
    <3>3. output_time_ordered'[t] = grown /\ Tally(grown, t, <<>>, <<>>)
      BY <1>8, <2>5, <3>2
    <3> QED BY <1>2, <2>3, <3>1, <3>3, TallyNext
  <2>6. CASE t = tid /\ ~LastBlock
    <3>1. Missing(t, {"merged", "ordered"})' = chain /\ Passed(t, "ordered")' = Further
      BY <1>2, <1>10, <2>6 DEF Missing, Passed, tid, chain
    <3>2. output_time_ordered'[t] = grown /\ Tally(grown, t, chain, Further)
      BY <1>7, <1>8, <2>6
    <3> QED BY <1>2, <2>3, <3>1, <3>2, TallyNext
  <2> QED BY <2>4, <2>5, <2>6
<1>15. TotalInv'
  <2>1. ASSUME NEW t \in SampledThreads
        PROVE  (/\ Top(output[t]) = total_period[t]
                     + (IF Passed(t, "merged") # <<>> \/ (flame_pc = "ordered" /\ t = sample.tid)
                        THEN sample.period ELSE 0)
                /\ Top(output_time_ordered[t]) = total_period[t]
                     + (IF Passed(t, "ordered") # <<>> THEN sample.period ELSE 0))'
    <3>1. /\ Top(output[t]) = total_period[t]
               + (IF Passed(t, "merged") # <<>> \/ (flame_pc = "ordered" /\ t = sample.tid)
                  THEN sample.period ELSE 0)
          /\ Top(output_time_ordered[t]) = total_period[t]
               + (IF Passed(t, "ordered") # <<>> THEN sample.period ELSE 0)
      BY DEF SumsInv, TotalInv
    <3>2. Passed(t, "merged") = <<>> /\ Passed(t, "merged")' = <<>>
      BY <1>2, <1>10 DEF Passed
    <3>3. Top(output[t])' = Top(output[t])
      BY <1>2
    <3>4. CASE t # tid
      <4>1. Passed(t, "ordered") = <<>> /\ Passed(t, "ordered")' = <<>> /\ t # sample.tid /\ t # sample'.tid
        BY <1>2, <3>4 DEF Passed, tid
      <4>2. Top(output_time_ordered[t])' = Top(output_time_ordered[t]) /\ total_period'[t] = total_period[t]
        BY <1>8, <1>11, <3>4
      <4> QED BY <3>1, <3>2, <3>3, <4>1, <4>2
    <3>5. CASE t = tid
      <4>1. /\ Top(output[t]) = total_period[t] + sample.period
            /\ Top(flame) = total_period[t] + (IF Reached # <<>> THEN sample.period ELSE 0)
        BY <1>2, <1>5, <3>1, <3>5 DEF flame, tid
      <4>2. total_period[t] \in Int /\ total_period'[t] \in Int
        BY DEF SampleTypeOK
      <4>3. Top(grown) = total_period[t] + sample.period
        BY <1>3, <1>7, <4>1, <4>2
      <4>4. Top(output_time_ordered[t])' = Top(grown)
        BY <1>8, <3>5
      <4>5. CASE LastBlock
        <5>1. Passed(t, "ordered")' = <<>> /\ flame_pc' # "ordered"
          BY <1>2, <4>5 DEF Passed
        <5>2. total_period'[t] = total_period[t] + sample.period
          BY <1>11, <3>5, <4>5
        <5> QED BY <3>2, <3>3, <4>1, <4>2, <4>3, <4>4, <5>1, <5>2
      <4>6. CASE ~LastBlock
        <5>1. Further # <<>>
          BY ChainGoesOn
        <5>2. Passed(t, "ordered")' # <<>> /\ flame_pc' = "ordered" /\ t = sample'.tid
          BY <1>2, <1>10, <3>5, <4>6, <5>1 DEF Passed, tid
        <5>3. total_period'[t] = total_period[t]
          BY <1>2, <4>6
        <5> QED BY <1>2, <3>2, <3>3, <4>1, <4>3, <4>4, <5>2, <5>3
      <4> QED BY <4>5, <4>6
    <3> QED BY <3>4, <3>5
  <2> QED BY <2>1 DEF TotalInv
<1>16. TallyInv'
  BY <1>14 DEF TallyInv
<1> QED BY <1>12, <1>13, <1>15, <1>16 DEF SumsInv

LEMMA SumsInvariance == FlameSpec => []SumsInv
<1>1. FlameInit => SumsInv
  BY SumsInit
<1>2. SampleTypeOK /\ SampleTypeOK' /\ SumsInv /\ [FlameNext]_flameVars => SumsInv'
  <2> SUFFICES ASSUME SampleTypeOK, SampleTypeOK', SumsInv, [FlameNext]_flameVars
               PROVE  SumsInv'
    OBVIOUS
  <2>1. ASSUME NEW tid \in SampledThreads, NEW time \in StartTime..MaxTime,
               NEW reported \in 1..MaxTime, NEW offcpu \in BOOLEAN, NEW c \in Chains,
               ReadSample(tid, time, reported, offcpu, c)
        PROVE  SumsInv'
    BY <2>1, SumsRead
  <2>2. CASE RecurseMerged
    BY <2>2, SumsMerged
  <2>3. CASE RecurseOrdered
    BY <2>3, SumsOrdered
  <2>4. CASE UNCHANGED flameVars
    <3>1. /\ UNCHANGED <<history, sample, flame_pc, callchain_index, cur_elem>>
          /\ UNCHANGED <<output, output_time_ordered, total_period>>
      BY <2>4 DEF flameVars, envVars, sampleVars, treeOfVars
    <3>2. HistoryInv' /\ PlaceInv'
      BY <3>1 DEF SumsInv, HistoryInv, PlaceInv, Stands, Reached
    <3>3. \A t : /\ Missing(t, {"merged"})' = Missing(t, {"merged"})
                 /\ Missing(t, {"merged", "ordered"})' = Missing(t, {"merged", "ordered"})
                 /\ Passed(t, "merged")' = Passed(t, "merged")
                 /\ Passed(t, "ordered")' = Passed(t, "ordered")
      BY <3>1 DEF Missing, Passed, Reached
    <3>4. TallyInv'
      <4>1. ASSUME NEW t \in SampledThreads
            PROVE  /\ Tally(output[t], t, Missing(t, {"merged"}), Passed(t, "merged"))'
                   /\ Tally(output_time_ordered[t], t, Missing(t, {"merged", "ordered"}), Passed(t, "ordered"))'
        <5>1. /\ Tally(output[t], t, Missing(t, {"merged"}), Passed(t, "merged"))
              /\ Tally(output_time_ordered[t], t, Missing(t, {"merged", "ordered"}), Passed(t, "ordered"))
          BY DEF SumsInv, TallyInv
        <5>2. output'[t] = output[t] /\ output_time_ordered'[t] = output_time_ordered[t]
          BY <3>1
        <5> QED BY <3>1, <3>3, <5>1, <5>2, TallyNext
      <4> QED BY <4>1 DEF TallyInv
    <3>5. TotalInv'
      BY <3>1, <3>3 DEF SumsInv, TotalInv
    <3> QED BY <3>2, <3>4, <3>5 DEF SumsInv
  <2> QED BY <2>1, <2>2, <2>3, <2>4 DEF FlameNext
<1>3. FlameSpec => []SampleTypeOK
  BY SampleInvariance, PTL
<1> QED BY <1>1, <1>2, <1>3, PTL DEF FlameSpec

(* Between two samples every period is counted once in the thread's total   *)
(* and once on the path of its call chain, in both flame graphs of the      *)
(* thread and over however many elements the path is spread: what           *)
(* StdSubclient::recurse adds to an element it passes through it adds to    *)
(* the next one too (subclient.cpp:82-95), and the total is added up apart  *)
(* from both (304-310).                                                     *)
THEOREM PathsAddUpTheorem == SubclientSpec => []PathsAddUp
<1>1. SampleTypeOK /\ SumsInv => PathsAddUp
  BY SumsShown DEF PathsAddUp
<1>2. FlameSpec => []SampleTypeOK /\ []SumsInv
  BY SampleInvariance, SumsInvariance, PTL
<1> QED BY <1>1, <1>2, SubclientSimulates, PTL

-----------------------------------------------------------------------------
(* The colours of the elements.                                             *)

(* What of a path is cold, and what of it is hot and has no children.       *)
Cold(flame, c) == {i \in At(flame, c) : flame[i].cold}
Bare(flame, c) == {i \in At(flame, c) : ~flame[i].cold /\ Children(flame, i) = {}}

(* The period of the sample at hand, as far as the element on which recurse *)
(* stands is in S; as far as it is missing from chain c and kind.  The root *)
(* in the place of that element stands for none.                           *)
Owing(S, at) == IF at \in S THEN sample.period ELSE 0
Lacking(c, missing, offcpu) ==
  IF c = missing /\ sample.offcpu = offcpu THEN sample.period ELSE 0

Bounded(flame, t, missing, at) ==
  \A c : c # <<>> =>
    /\ Total(Cold(flame, c), Own(flame))
         <= Sampled(t, c, {TRUE}) - Lacking(c, missing, TRUE) + Owing(Cold(flame, c), at)
    /\ Total(Bare(flame, c), Own(flame))
         <= Sampled(t, c, {FALSE}) - Lacking(c, missing, FALSE) + Owing(Bare(flame, c), at)
Worth(flame, at) ==
  \A i \in DOMAIN flame \ {1} : Own(flame)[i] >= Owing({i}, at)
Shaded(flame, at) ==
  \A i \in DOMAIN flame \ {1} :
    /\ flame[flame[i].up].cold => flame[i].cold
    /\ i = at /\ ~sample.offcpu => ~flame[flame[i].up].cold
Tinted(flame, t, missing, at) ==
  Bounded(flame, t, missing, at) /\ Worth(flame, at) /\ Shaded(flame, at)

LEMMA SampledTyped ==
  ASSUME history \in [SampledThreads -> Seq(Samples)], NEW t \in SampledThreads, NEW c, NEW kinds
  PROVE  Sampled(t, c, kinds) \in Int
<1>1. Sampled(t, c, kinds) = TimeOf(history[t], c, kinds)
  BY Zenon DEF Sampled, TimeOf, Those
<1>2. history[t] \in Seq(Samples)
  OBVIOUS
<1> QED BY <1>1, <1>2, HistorySummed

(* What one call does to the own time of a part of the tree, if the element *)
(* it stands on stays in the part or leaves it and nothing but its target   *)
(* comes in.                                                                *)
LEMMA PartMoves ==
  ASSUME SampleTypeOK, NEW flame, Rooted(flame), NEW target, NEW grown,
         Took(flame, grown, target), Worth(flame, cur_elem),
         NEW A \in SUBSET (DOMAIN flame \ {1}), NEW A2 \in SUBSET DOMAIN grown,
         A2 \cap DOMAIN flame = A \/ A2 \cap DOMAIN flame = A \ {cur_elem}
  PROVE  Total(A2, Own(grown))
           <= Total(A, Own(flame)) - Owing(A, cur_elem) + Owing(A2, target)
<1> DEFINE p == sample.period
           own == Own(flame)
           B == A2 \cap DOMAIN flame
           x == Total(A2, Own(grown))
<1>1. /\ own \in [DOMAIN flame -> Int] /\ IsFiniteSet(A) /\ IsFiniteSet(A \ {cur_elem})
      /\ Total(A, own) \in Int /\ Total(A \ {cur_elem}, own) \in Int /\ p \in Int
      /\ Total(B, own) \in Int
  BY OwnTyped DEF SampleTypeOK, Samples
<1>2. x = Total(B, own) + (IF target \in A2 THEN p ELSE 0) - (IF cur_elem \in A2 THEN p ELSE 0)
  BY TookTotal
<1>3. cur_elem \in DOMAIN flame
  BY DEF Took
<1> HIDE DEF own, x
<1>4. CASE B = A
  <2>1. cur_elem \in A2 <=> cur_elem \in A
    BY <1>3, <1>4
  <2> QED BY <1>1, <1>2, <1>4, <2>1 DEF Owing, own, x
<1>5. CASE B = A \ {cur_elem}
  <2>1. cur_elem \notin A2
    BY <1>3, <1>5
  <2>2. CASE cur_elem \notin A
    <3>1. A \ {cur_elem} = A
      BY <2>2
    <3> QED BY <1>1, <1>2, <1>5, <2>1, <2>2, <3>1 DEF Owing, own, x
  <2>3. CASE cur_elem \in A
    <3> DEFINE C == A \ {cur_elem}
    <3>1. /\ IsFiniteSet(C) /\ cur_elem \notin C /\ A = C \cup {cur_elem}
          /\ \A y \in C \cup {cur_elem} : own[y] \in Int
      BY <1>1, <2>3
    <3>2. Total(C \cup {cur_elem}, own) = Total(C, own) + own[cur_elem]
      <4> HIDE DEF C
      <4> QED BY ONLY <3>1, TotalAdds, ZenonT(60)
    <3>3. own[cur_elem] >= p /\ own[cur_elem] \in Int
      BY <1>1, <1>3, <2>3 DEF Worth, Owing, own
    <3>4. Total(A, own) = Total(B, own) + own[cur_elem]
      BY <1>5, <3>1, <3>2
    <3>5. x = Total(B, own) + Owing(A2, target) /\ Owing(A, cur_elem) = p
      <4>1. Owing(A2, target) = IF target \in A2 THEN p ELSE 0
        BY DEF Owing
      <4> QED BY <1>1, <1>2, <2>1, <2>3, <4>1 DEF Owing
    <3>6. Owing(A2, target) \in Int
      BY <1>1 DEF Owing
    <3>7. x <= Total(A, own) - Owing(A, cur_elem) + Owing(A2, target)
      BY ONLY <1>1, <3>3, <3>4, <3>5, <3>6
    <3> QED BY <3>7 DEF own, x
  <2> QED BY <2>2, <2>3
<1> QED BY <1>4, <1>5

LEMMA LessOwed ==
  ASSUME NEW x \in Int, NEW s \in Int, NEW k \in Int, NEW m \in Int
  PROVE  /\ \A y \in Int, o \in Int : x <= y - o + m /\ y <= s - k + o => x <= s - k + m
         /\ x <= s - k + m /\ m <= k => x <= s - 0 + 0
OBVIOUS

(* One call: from the element recurse stands on to its target.              *)
LEMMA CallColours ==
  ASSUME SampleTypeOK, sample.period >= 0,
         NEW flame, Rooted(flame), cur_elem \in DOMAIN flame, Paths(flame)[cur_elem] = Reached,
         NEW target, Target(flame, target),
         LastBlock /\ target \in DOMAIN flame => flame[target].cold = sample.offcpu,
         NEW t \in SampledThreads, history \in [SampledThreads -> Seq(Samples)],
         Tinted(flame, t, sample.callchain, cur_elem)
  PROVE  /\ LastBlock => Tinted(Grown(flame, target), t, <<>>, 1)
         /\ ~LastBlock => Tinted(Grown(flame, target), t, sample.callchain, target)
<1> DEFINE grown == Grown(flame, target)
           p == sample.period
           chain == sample.callchain
<1>1. Took(flame, grown, target)
  BY GrownTook
<1> HIDE DEF grown, chain
<1>2. /\ Rooted(grown) /\ DOMAIN grown = DOMAIN flame \cup {target}
      /\ target # 1 /\ target # cur_elem /\ grown[target].up = cur_elem
      /\ target \notin DOMAIN flame => grown[target].cold = sample.offcpu
      /\ \A i \in DOMAIN flame : grown[i].up = flame[i].up /\ grown[i].cold = Cooled(flame, i)
  BY <1>1 DEF Took, Kept
<1>3. /\ \A i \in DOMAIN flame : Paths(grown)[i] = Paths(flame)[i]
      /\ Paths(grown)[target] = Further
  <2>1. Further = Append(Reached, Frame)
    BY ChainGoesOn
  <2>2. /\ \A i \in DOMAIN flame : Paths(grown)[i] = Paths(flame)[i]
        /\ Paths(grown)[target] = Append(Paths(flame)[cur_elem], Frame)
    BY <1>1, TookPaths
  <2> QED BY <2>1, <2>2
<1>4. p \in Int /\ sample.offcpu \in BOOLEAN
  BY DEF SampleTypeOK, Samples
<1>5. /\ 1 \in DOMAIN flame
      /\ \A i \in DOMAIN flame : flame[i].cold \in BOOLEAN
      /\ \A i \in DOMAIN flame \ {1} : flame[i].up \in DOMAIN flame /\ flame[i].up # i
      /\ \A i \in DOMAIN flame \ {1} : flame[i].up = cur_elem => i # cur_elem
  BY RootedTyped
<1>6. LastBlock => grown[target].cold = sample.offcpu
  <2>1. CASE target \in DOMAIN flame
    BY <1>2, <2>1 DEF Cooled
  <2> QED BY <1>2, <2>1
<1>7. ASSUME NEW c, c # <<>>
      PROVE  /\ Total(Cold(grown, c), Own(grown))
                  <= Sampled(t, c, {TRUE}) - Lacking(c, chain, TRUE) + Owing(Cold(grown, c), target)
             /\ Total(Bare(grown, c), Own(grown))
                  <= Sampled(t, c, {FALSE}) - Lacking(c, chain, FALSE) + Owing(Bare(grown, c), target)
  <2> DEFINE A == Cold(flame, c)
             A2 == Cold(grown, c)
             B == Bare(flame, c)
             B2 == Bare(grown, c)
  <2>1. /\ A \in SUBSET (DOMAIN flame \ {1}) /\ B \in SUBSET (DOMAIN flame \ {1})
        /\ A2 \in SUBSET DOMAIN grown /\ B2 \in SUBSET DOMAIN grown
    BY DEF Cold, Bare, At
  <2>2. A2 \cap DOMAIN flame = A \/ A2 \cap DOMAIN flame = A \ {cur_elem}
    <3>1. CASE sample.offcpu
      BY <1>2, <1>3, <3>1 DEF Cold, At, Cooled
    <3>2. CASE ~sample.offcpu
      BY <1>2, <1>3, <3>2 DEF Cold, At, Cooled
    <3> QED BY <3>1, <3>2
  <2>3. B2 \cap DOMAIN flame = B \ {cur_elem}
    <3>1. ASSUME NEW i \in DOMAIN flame, i # cur_elem
          PROVE  Children(grown, i) = Children(flame, i)
      BY <1>2, <3>1 DEF Children
    <3>2. target \in Children(grown, cur_elem)
      BY <1>2 DEF Children
    <3>3. \A i \in DOMAIN flame : i # cur_elem => grown[i].cold = flame[i].cold
      BY <1>2 DEF Cooled
    <3> QED BY <1>2, <1>3, <3>1, <3>2, <3>3 DEF Bare, At
  <2> HIDE DEF A, A2, B, B2
  <2>4. Worth(flame, cur_elem)
    BY DEF Tinted
  <2>5. /\ Total(A2, Own(grown)) <= Total(A, Own(flame)) - Owing(A, cur_elem) + Owing(A2, target)
        /\ Total(B2, Own(grown)) <= Total(B, Own(flame)) - Owing(B, cur_elem) + Owing(B2, target)
    BY <1>1, <2>1, <2>2, <2>3, <2>4, PartMoves
  <2>6. /\ Total(A, Own(flame)) <= Sampled(t, c, {TRUE}) - Lacking(c, chain, TRUE) + Owing(A, cur_elem)
        /\ Total(B, Own(flame)) <= Sampled(t, c, {FALSE}) - Lacking(c, chain, FALSE) + Owing(B, cur_elem)
    BY <1>7 DEF Tinted, Bounded, A, B, chain
  <2>7. Sampled(t, c, {TRUE}) \in Int /\ Sampled(t, c, {FALSE}) \in Int
    BY SampledTyped
  <2>8. /\ Owing(A, cur_elem) \in Int /\ Owing(B, cur_elem) \in Int
        /\ Owing(A2, target) \in Int /\ Owing(B2, target) \in Int
        /\ Lacking(c, chain, TRUE) \in Int /\ Lacking(c, chain, FALSE) \in Int
    BY <1>4 DEF Owing, Lacking
  <2>9. /\ Total(A, Own(flame)) \in Int /\ Total(B, Own(flame)) \in Int
        /\ Total(A2, Own(grown)) \in Int /\ Total(B2, Own(grown)) \in Int
    <3>1. A \in SUBSET DOMAIN flame /\ B \in SUBSET DOMAIN flame
      BY <2>1
    <3> QED BY <1>2, <2>1, <3>1, OwnTyped
  <2>10. /\ Total(A2, Own(grown)) <= Sampled(t, c, {TRUE}) - Lacking(c, chain, TRUE) + Owing(A2, target)
         /\ Total(B2, Own(grown)) <= Sampled(t, c, {FALSE}) - Lacking(c, chain, FALSE) + Owing(B2, target)
    BY ONLY <2>5, <2>6, <2>7, <2>8, <2>9, LessOwed, ZenonT(60)
  <2> QED BY <2>10 DEF A2, B2
<1>8. Worth(grown, target)
  <2>1. ASSUME NEW i \in DOMAIN grown \ {1} PROVE Own(grown)[i] >= Owing({i}, target)
    <3>1. /\ Own(flame) \in [DOMAIN flame -> Int]
          /\ Own(grown)[target] = Base(flame, target) + p
          /\ Own(grown)[cur_elem] = Own(flame)[cur_elem] - p
          /\ \A j \in DOMAIN flame : j # target /\ j # cur_elem => Own(grown)[j] = Own(flame)[j]
      BY <1>1, OwnTyped DEF Took
    <3>2. ASSUME NEW j \in DOMAIN flame \ {1}
          PROVE  /\ Own(flame)[j] \in Int
                 /\ Own(flame)[j] >= (IF cur_elem = j THEN p ELSE 0)
      BY <3>1 DEF Tinted, Worth, Owing
    <3>3. CASE i = target
      <4>1. Base(flame, target) \in Int /\ Base(flame, target) >= 0
        BY <1>2, <3>2 DEF Base
      <4> QED BY <1>4, <3>1, <3>3, <4>1 DEF Owing
    <3>4. CASE i = cur_elem
      <4>1. Owing({i}, target) = 0
        BY <1>2, <3>4 DEF Owing
      <4> QED BY <1>4, <3>1, <3>2, <3>4, <4>1
    <3>5. CASE i # target /\ i # cur_elem
      <4>1. Owing({i}, target) = 0 /\ i \in DOMAIN flame \ {1}
        BY <1>2, <3>5 DEF Owing
      <4> QED BY <3>1, <3>2, <3>5, <4>1
    <3> QED BY <3>3, <3>4, <3>5
  <2> QED BY <2>1 DEF Worth
<1>9. Shaded(grown, target)
  <2>1. ASSUME NEW i \in DOMAIN grown \ {1}
        PROVE  /\ grown[grown[i].up].cold => grown[i].cold
               /\ i = target /\ ~sample.offcpu => ~grown[grown[i].up].cold
    <3>1. grown[cur_elem].cold = IF ~sample.offcpu THEN FALSE ELSE flame[cur_elem].cold
      BY <1>2 DEF Cooled
    <3>2. ASSUME NEW j \in DOMAIN flame \ {1}
          PROVE  /\ flame[flame[j].up].cold => flame[j].cold
                 /\ j = cur_elem /\ ~sample.offcpu => ~flame[flame[j].up].cold
      BY DEF Tinted, Shaded
    <3>3. \A j \in DOMAIN flame : j # cur_elem => grown[j].cold = flame[j].cold
      BY <1>2 DEF Cooled
    <3>4. CASE i = target
      <4>1. CASE target \notin DOMAIN flame
        BY <1>2, <3>1, <3>4, <4>1
      <4>2. CASE target \in DOMAIN flame
        <5>1. flame[target].up = cur_elem /\ grown[target].cold = flame[target].cold
          BY <1>2, <3>3, <4>2
        <5>2. flame[cur_elem].cold => flame[target].cold
          BY <1>2, <3>2, <4>2, <5>1
        <5> QED BY <1>2, <3>1, <3>4, <5>1, <5>2
      <4> QED BY <4>1, <4>2
    <3>5. CASE i # target /\ i = cur_elem
      <4>1. i \in DOMAIN flame \ {1} /\ grown[i].up = flame[i].up
        BY <1>2, <3>5
      <4>2. flame[i].up \in DOMAIN flame /\ flame[i].up # cur_elem
        BY <1>5, <3>5, <4>1
      <4>3. grown[flame[i].up].cold = flame[flame[i].up].cold
        BY <3>3, <4>2
      <4> QED BY <3>1, <3>2, <3>5, <4>1, <4>3
    <3>6. CASE i # target /\ i # cur_elem
      <4>1. i \in DOMAIN flame \ {1} /\ grown[i].up = flame[i].up /\ grown[i].cold = flame[i].cold
        BY <1>2, <3>3, <3>6
      <4>2. flame[i].up \in DOMAIN flame
        BY <1>5, <4>1
      <4>3. grown[flame[i].up].cold => flame[flame[i].up].cold
        BY <1>2, <4>2 DEF Cooled
      <4> QED BY <3>2, <3>6, <4>1, <4>3
    <3> QED BY <3>4, <3>5, <3>6
  <2> QED BY <2>1 DEF Shaded
<1>10. Tinted(grown, t, chain, target)
  BY <1>7, <1>8, <1>9 DEF Tinted, Bounded
<1>11. ASSUME LastBlock PROVE Tinted(grown, t, <<>>, 1)
  <2>1. Further = chain
    BY <1>11, ChainGoesOn DEF chain
  <2>2. ASSUME NEW c, c # <<>>
        PROVE  /\ Total(Cold(grown, c), Own(grown))
                    <= Sampled(t, c, {TRUE}) - Lacking(c, <<>>, TRUE) + Owing(Cold(grown, c), 1)
               /\ Total(Bare(grown, c), Own(grown))
                    <= Sampled(t, c, {FALSE}) - Lacking(c, <<>>, FALSE) + Owing(Bare(grown, c), 1)
    <3>1. /\ Owing(Cold(grown, c), 1) = 0 /\ Owing(Bare(grown, c), 1) = 0
          /\ Lacking(c, <<>>, TRUE) = 0 /\ Lacking(c, <<>>, FALSE) = 0
      BY <2>2 DEF Owing, Lacking, Cold, Bare, At
    <3>2. /\ target \in Cold(grown, c) => c = chain /\ sample.offcpu
          /\ target \in Bare(grown, c) => c = chain /\ ~sample.offcpu
      BY <1>3, <1>6, <1>11, <2>1 DEF Cold, Bare, At
    <3>3. /\ Owing(Cold(grown, c), target) <= Lacking(c, chain, TRUE)
          /\ Owing(Bare(grown, c), target) <= Lacking(c, chain, FALSE)
      <4>1. 0 <= p /\ p <= p /\ 0 <= 0
        BY <1>4
      <4> QED BY <1>4, <3>2, <4>1 DEF Owing, Lacking
    <3>4. /\ Owing(Cold(grown, c), target) \in Int /\ Owing(Bare(grown, c), target) \in Int
          /\ Lacking(c, chain, TRUE) \in Int /\ Lacking(c, chain, FALSE) \in Int
      BY <1>4 DEF Owing, Lacking
    <3>5. Sampled(t, c, {TRUE}) \in Int /\ Sampled(t, c, {FALSE}) \in Int
      BY SampledTyped
    <3>6. Cold(grown, c) \in SUBSET DOMAIN grown /\ Bare(grown, c) \in SUBSET DOMAIN grown
      BY DEF Cold, Bare, At
    <3>7. Total(Cold(grown, c), Own(grown)) \in Int /\ Total(Bare(grown, c), Own(grown)) \in Int
      BY <1>2, <3>6, OwnTyped
    <3>8. /\ Total(Cold(grown, c), Own(grown))
                <= Sampled(t, c, {TRUE}) - Lacking(c, chain, TRUE) + Owing(Cold(grown, c), target)
          /\ Total(Bare(grown, c), Own(grown))
                <= Sampled(t, c, {FALSE}) - Lacking(c, chain, FALSE) + Owing(Bare(grown, c), target)
      BY <1>7, <2>2
    <3>9. /\ Total(Cold(grown, c), Own(grown)) <= Sampled(t, c, {TRUE}) - 0 + 0
          /\ Total(Bare(grown, c), Own(grown)) <= Sampled(t, c, {FALSE}) - 0 + 0
      BY ONLY <3>3, <3>4, <3>5, <3>7, <3>8, LessOwed, ZenonT(60)
    <3> QED BY ONLY <3>1, <3>9, ZenonT(60)
  <2>3. Worth(grown, 1)
    <3>1. Own(grown) \in [DOMAIN grown -> Int]
      BY <1>2, OwnTyped
    <3>2. ASSUME NEW i \in DOMAIN grown \ {1} PROVE Own(grown)[i] >= Owing({i}, 1)
      <4>1. Own(grown)[i] >= Owing({i}, target) /\ Own(grown)[i] \in Int
        BY <1>8, <3>1 DEF Worth
      <4>2. Owing({i}, target) \in Int /\ Owing({i}, target) >= 0 /\ Owing({i}, 1) = 0
        BY <1>4 DEF Owing
      <4> QED BY ONLY <4>1, <4>2
    <3> QED BY <3>2 DEF Worth
  <2>4. Shaded(grown, 1)
    BY <1>9 DEF Shaded
  <2> QED BY <2>2, <2>3, <2>4 DEF Tinted, Bounded
<1> QED BY <1>10, <1>11 DEF grown, chain

(* Where recurse stands in a tree: nowhere but in the one it works on.      *)
On(t, at) == IF flame_pc = at /\ t = sample.tid THEN cur_elem ELSE 1

TintsInv ==
  \A t \in SampledThreads :
    /\ Tinted(output[t], t, Missing(t, {"merged"}), On(t, "merged"))
    /\ Tinted(output_time_ordered[t], t, Missing(t, {"merged", "ordered"}), On(t, "ordered"))

LEMMA NoneTinted ==
  ASSUME NEW t \in SampledThreads, history = [u \in SampledThreads |-> <<>>]
  PROVE  Tinted(All, t, <<>>, 1)
<1>1. DOMAIN All = {1} /\ \A c : Cold(All, c) = {} /\ Bare(All, c) = {}
  <2>1. DOMAIN All = {1}
    BY DEF All
  <2> QED BY <2>1, AllRooted DEF Cold, Bare
<1>2. \A f : Total({}, f) = 0
  BY TotalStep, FS_EmptySet
<1>3. ASSUME NEW c, c # <<>>, NEW kinds PROVE Sampled(t, c, kinds) = 0 /\ Lacking(c, <<>>, TRUE) = 0 /\ Lacking(c, <<>>, FALSE) = 0
  <2>1. DOMAIN history[t] = {}
    OBVIOUS
  <2>2. Sampled(t, c, kinds) = Total({}, Periods(history[t]))
    BY <2>1 DEF Sampled
  <2> QED BY <1>2, <1>3, <2>2 DEF Lacking
<1>4. Bounded(All, t, <<>>, 1)
  <2>1. ASSUME NEW c, c # <<>>
        PROVE  /\ Total(Cold(All, c), Own(All)) <= Sampled(t, c, {TRUE}) - Lacking(c, <<>>, TRUE) + Owing(Cold(All, c), 1)
               /\ Total(Bare(All, c), Own(All)) <= Sampled(t, c, {FALSE}) - Lacking(c, <<>>, FALSE) + Owing(Bare(All, c), 1)
    <3>1. Owing(Cold(All, c), 1) = 0 /\ Owing(Bare(All, c), 1) = 0
      BY <1>1 DEF Owing
    <3>2. /\ Sampled(t, c, {TRUE}) = 0 /\ Sampled(t, c, {FALSE}) = 0
          /\ Lacking(c, <<>>, TRUE) = 0 /\ Lacking(c, <<>>, FALSE) = 0
      BY <1>3, <2>1
    <3>3. Total(Cold(All, c), Own(All)) = 0 /\ Total(Bare(All, c), Own(All)) = 0
      BY <1>1, <1>2
    <3>4. 0 <= 0 - 0 + 0
      OBVIOUS
    <3> QED BY ONLY <3>1, <3>2, <3>3, <3>4
  <2> QED BY <2>1 DEF Bounded
<1> QED BY <1>1, <1>4 DEF Tinted, Worth, Shaded

LEMMA TintsInit == FlameInit => TintsInv
<1> SUFFICES ASSUME FlameInit PROVE TintsInv
  OBVIOUS
<1>1. /\ output = [t \in SampledThreads |-> All]
      /\ output_time_ordered = [t \in SampledThreads |-> All]
      /\ history = [t \in SampledThreads |-> <<>>]
      /\ flame_pc = "read"
  BY DEF FlameInit
<1>2. ASSUME NEW t \in SampledThreads
      PROVE  /\ Missing(t, {"merged"}) = <<>> /\ Missing(t, {"merged", "ordered"}) = <<>>
             /\ On(t, "merged") = 1 /\ On(t, "ordered") = 1
             /\ output[t] = All /\ output_time_ordered[t] = All
  BY <1>1 DEF Missing, On
<1>3. \A t \in SampledThreads : Tinted(All, t, <<>>, 1)
  BY <1>1, NoneTinted
<1> QED BY <1>2, <1>3 DEF TintsInv

LEMMA TintedNext ==
  ASSUME UNCHANGED <<sample, history>>, NEW t, NEW flame, NEW missing, NEW at,
         Tinted(flame, t, missing, at)
  PROVE  /\ output'[t] = flame /\ Missing(t, {"merged"})' = missing /\ On(t, "merged")' = at
              => Tinted(output[t], t, Missing(t, {"merged"}), On(t, "merged"))'
         /\ output_time_ordered'[t] = flame /\ Missing(t, {"merged", "ordered"})' = missing
              /\ On(t, "ordered")' = at
              => Tinted(output_time_ordered[t], t, Missing(t, {"merged", "ordered"}), On(t, "ordered"))'
<1>1. \A c, kinds : Sampled(t, c, kinds)' = Sampled(t, c, kinds)
  BY DEF Sampled, Periods
<1>2. ASSUME output'[t] = flame, Missing(t, {"merged"})' = missing, On(t, "merged")' = at
      PROVE  Tinted(output[t], t, Missing(t, {"merged"}), On(t, "merged"))'
  <2>1. UNCHANGED sample /\ output'[t] = flame /\ On(t, "merged")' = at
    BY <1>2
  <2>2. ASSUME NEW c, c # <<>>
        PROVE  (/\ Total(Cold(output[t], c), Own(output[t]))
                     <= Sampled(t, c, {TRUE}) - Lacking(c, Missing(t, {"merged"}), TRUE)
                          + Owing(Cold(output[t], c), On(t, "merged"))
                /\ Total(Bare(output[t], c), Own(output[t]))
                     <= Sampled(t, c, {FALSE}) - Lacking(c, Missing(t, {"merged"}), FALSE)
                          + Owing(Bare(output[t], c), On(t, "merged")))'
    <3>1. /\ Total(Cold(flame, c), Own(flame))
               <= Sampled(t, c, {TRUE}) - Lacking(c, missing, TRUE) + Owing(Cold(flame, c), at)
          /\ Total(Bare(flame, c), Own(flame))
               <= Sampled(t, c, {FALSE}) - Lacking(c, missing, FALSE) + Owing(Bare(flame, c), at)
      BY <2>2 DEF Tinted, Bounded
    <3>2. /\ Owing(Cold(output[t], c), On(t, "merged"))' = Owing(Cold(flame, c), at)
          /\ Owing(Bare(output[t], c), On(t, "merged"))' = Owing(Bare(flame, c), at)
      BY <2>1 DEF Owing
    <3>3. /\ Lacking(c, Missing(t, {"merged"}), TRUE)' = Lacking(c, missing, TRUE)
          /\ Lacking(c, Missing(t, {"merged"}), FALSE)' = Lacking(c, missing, FALSE)
      BY <1>2 DEF Lacking
    <3>4. /\ Sampled(t, c, {TRUE})' = Sampled(t, c, {TRUE})
          /\ Sampled(t, c, {FALSE})' = Sampled(t, c, {FALSE})
      BY <1>1
    <3>5. /\ Total(Cold(output[t], c), Own(output[t]))' = Total(Cold(flame, c), Own(flame))
          /\ Total(Bare(output[t], c), Own(output[t]))' = Total(Bare(flame, c), Own(flame))
      BY <2>1
    <3> QED BY <3>1, <3>2, <3>3, <3>4, <3>5
  <2>3. Worth(output[t], On(t, "merged"))'
    BY <2>1 DEF Tinted, Worth, Owing
  <2>4. Shaded(output[t], On(t, "merged"))'
    BY <2>1 DEF Tinted, Shaded
  <2> QED BY <2>2, <2>3, <2>4 DEF Tinted, Bounded
<1>3. ASSUME output_time_ordered'[t] = flame, Missing(t, {"merged", "ordered"})' = missing,
             On(t, "ordered")' = at
      PROVE  Tinted(output_time_ordered[t], t, Missing(t, {"merged", "ordered"}), On(t, "ordered"))'
  <2>1. UNCHANGED sample /\ output_time_ordered'[t] = flame /\ On(t, "ordered")' = at
    BY <1>3
  <2>2. ASSUME NEW c, c # <<>>
        PROVE  (/\ Total(Cold(output_time_ordered[t], c), Own(output_time_ordered[t]))
                     <= Sampled(t, c, {TRUE}) - Lacking(c, Missing(t, {"merged", "ordered"}), TRUE)
                          + Owing(Cold(output_time_ordered[t], c), On(t, "ordered"))
                /\ Total(Bare(output_time_ordered[t], c), Own(output_time_ordered[t]))
                     <= Sampled(t, c, {FALSE}) - Lacking(c, Missing(t, {"merged", "ordered"}), FALSE)
                          + Owing(Bare(output_time_ordered[t], c), On(t, "ordered")))'
    <3>1. /\ Total(Cold(flame, c), Own(flame))
               <= Sampled(t, c, {TRUE}) - Lacking(c, missing, TRUE) + Owing(Cold(flame, c), at)
          /\ Total(Bare(flame, c), Own(flame))
               <= Sampled(t, c, {FALSE}) - Lacking(c, missing, FALSE) + Owing(Bare(flame, c), at)
      BY <2>2 DEF Tinted, Bounded
    <3>2. /\ Owing(Cold(output_time_ordered[t], c), On(t, "ordered"))' = Owing(Cold(flame, c), at)
          /\ Owing(Bare(output_time_ordered[t], c), On(t, "ordered"))' = Owing(Bare(flame, c), at)
      BY <2>1 DEF Owing
    <3>3. /\ Lacking(c, Missing(t, {"merged", "ordered"}), TRUE)' = Lacking(c, missing, TRUE)
          /\ Lacking(c, Missing(t, {"merged", "ordered"}), FALSE)' = Lacking(c, missing, FALSE)
      BY <1>3 DEF Lacking
    <3>4. /\ Sampled(t, c, {TRUE})' = Sampled(t, c, {TRUE})
          /\ Sampled(t, c, {FALSE})' = Sampled(t, c, {FALSE})
      BY <1>1
    <3>5. /\ Total(Cold(output_time_ordered[t], c), Own(output_time_ordered[t]))' = Total(Cold(flame, c), Own(flame))
          /\ Total(Bare(output_time_ordered[t], c), Own(output_time_ordered[t]))' = Total(Bare(flame, c), Own(flame))
      BY <2>1
    <3> QED BY <3>1, <3>2, <3>3, <3>4, <3>5
  <2>3. Worth(output_time_ordered[t], On(t, "ordered"))'
    BY <2>1 DEF Tinted, Worth, Owing
  <2>4. Shaded(output_time_ordered[t], On(t, "ordered"))'
    BY <2>1 DEF Tinted, Shaded
  <2> QED BY <2>2, <2>3, <2>4 DEF Tinted, Bounded
<1> QED BY <1>2, <1>3

(* An element that holds the time of a sample's last frame is of its kind.  *)
LEMMA MergedOfKind ==
  ASSUME NEW flame, Rooted(flame), NEW target \in MergedTarget(flame), LastBlock,
         target \in DOMAIN flame
  PROVE  flame[target].cold = sample.offcpu
<1>1. CASE Found(flame) = {}
  <2>1. target = Len(flame) + 1
    BY <1>1 DEF MergedTarget, NewElement
  <2> QED BY <2>1, RootedTyped
<1>2. CASE Found(flame) # {}
  <2>1. target \in Found(flame)
    BY <1>2 DEF MergedTarget, Preferred, Latest
  <2> QED BY <2>1 DEF Found
<1> QED BY <1>1, <1>2

LEMMA OrderedOfKind ==
  ASSUME NEW flame, Rooted(flame), NEW target \in OrderedTarget(flame), LastBlock,
         target \in DOMAIN flame
  PROVE  flame[target].cold = sample.offcpu
<1> DEFINE last == {i \in Latest(Children(flame, cur_elem)) : Continues(flame, i)}
<1>1. CASE last = {}
  <2>1. target = Len(flame) + 1
    BY <1>1 DEF OrderedTarget, NewElement
  <2> QED BY <2>1, RootedTyped
<1>2. CASE last # {}
  <2>1. target \in last
    BY <1>2 DEF OrderedTarget
  <2> QED BY <2>1 DEF Continues
<1> QED BY <1>1, <1>2

LEMMA TintsRead ==
  ASSUME SampleTypeOK, SampleTypeOK', SumsInv, TintsInv,
         NEW tid \in SampledThreads, NEW time \in StartTime..MaxTime,
         NEW reported \in 1..MaxTime, NEW offcpu \in BOOLEAN, NEW chain \in Chains,
         ReadSample(tid, time, reported, offcpu, chain)
  PROVE  TintsInv'
<1>1. /\ flame_pc = "read" /\ flame_pc' = "merged" /\ cur_elem' = 1
      /\ output' = output /\ output_time_ordered' = output_time_ordered
      /\ history' = [history EXCEPT ![tid] = Append(@, sample')]
      /\ sample'.tid = tid
  BY DEF ReadSample, treeOfVars
<1>2. /\ sample' \in Samples /\ sample'.callchain # <<>> /\ sample'.period \in Int
      /\ sample'.offcpu \in BOOLEAN
  BY ChainGoesOn DEF SampleTypeOK, Samples
<1>3. history \in [SampledThreads -> Seq(Samples)] /\ history[tid] \in Seq(Samples)
  BY DEF SumsInv, HistoryInv
<1>4. /\ history'[tid] = Append(history[tid], sample')
      /\ \A t \in SampledThreads : t # tid => history'[t] = history[t]
  BY <1>1, <1>2, <1>3
<1>5. ASSUME NEW t \in SampledThreads
      PROVE  /\ Missing(t, {"merged"}) = <<>> /\ Missing(t, {"merged", "ordered"}) = <<>>
             /\ On(t, "merged") = 1 /\ On(t, "ordered") = 1
             /\ Missing(t, {"merged"})' = IF t = tid THEN sample'.callchain ELSE <<>>
             /\ Missing(t, {"merged", "ordered"})' = IF t = tid THEN sample'.callchain ELSE <<>>
             /\ On(t, "merged")' = 1 /\ On(t, "ordered")' = 1
  BY <1>1 DEF Missing, On
<1>6. ASSUME NEW flame, NEW c, c # <<>>
      PROVE  /\ 1 \notin Cold(flame, c) /\ 1 \notin Bare(flame, c)
             /\ Owing(Cold(flame, c), 1) = 0 /\ Owing(Bare(flame, c), 1) = 0
             /\ Lacking(c, <<>>, TRUE) = 0 /\ Lacking(c, <<>>, FALSE) = 0
  BY <1>6 DEF Owing, Lacking, Cold, Bare, At
<1>7. ASSUME NEW t \in SampledThreads, NEW c, c # <<>>, NEW pcs,
             Missing(t, pcs)' = IF t = tid THEN sample'.callchain ELSE <<>>
      PROVE  /\ Sampled(t, c, {TRUE})' - Lacking(c, Missing(t, pcs), TRUE)' = Sampled(t, c, {TRUE})
             /\ Sampled(t, c, {FALSE})' - Lacking(c, Missing(t, pcs), FALSE)' = Sampled(t, c, {FALSE})
  <2>1. ASSUME NEW k \in BOOLEAN
        PROVE  Sampled(t, c, {k})' - Lacking(c, Missing(t, pcs), k)' = Sampled(t, c, {k})
    <3>1. /\ Sampled(t, c, {k}) = TimeOf(history[t], c, {k})
          /\ Sampled(t, c, {k})' = TimeOf(history'[t], c, {k})
      BY Zenon DEF Sampled, TimeOf, Those
    <3>2. TimeOf(history[t], c, {k}) \in Int
      BY <1>3, HistorySummed
    <3>3. Lacking(c, Missing(t, pcs), k)'
            = IF t = tid /\ c = sample'.callchain /\ sample'.offcpu = k THEN sample'.period ELSE 0
      BY <1>7 DEF Lacking
    <3>4. CASE t # tid
      <4>1. TimeOf(history'[t], c, {k}) = TimeOf(history[t], c, {k})
        BY <1>4, <3>4
      <4> QED BY <3>1, <3>2, <3>3, <3>4, <4>1
    <3>5. CASE t = tid
      <4>1. TimeOf(Append(history[tid], sample'), c, {k})
              = TimeOf(history[tid], c, {k})
                 + (IF sample'.callchain = c /\ sample'.offcpu \in {k} THEN sample'.period ELSE 0)
        BY <1>2, <1>3, HistoryGrows
      <4>2. TimeOf(history'[t], c, {k}) = TimeOf(history[t], c, {k})
              + (IF c = sample'.callchain /\ sample'.offcpu = k THEN sample'.period ELSE 0)
        BY <1>4, <3>5, <4>1
      <4> QED BY <1>2, <3>1, <3>2, <3>3, <3>5, <4>2
    <3> QED BY <3>4, <3>5
  <2> QED BY <2>1
<1>8. ASSUME NEW t \in SampledThreads
      PROVE  Tinted(output[t], t, Missing(t, {"merged"}), On(t, "merged"))'
  <2>1. Tinted(output[t], t, <<>>, 1) /\ Rooted(output[t])
    BY <1>5 DEF TintsInv, SumsInv, PlaceInv
  <2>2. ASSUME NEW c, c # <<>>
        PROVE  (/\ Total(Cold(output[t], c), Own(output[t]))
                     <= Sampled(t, c, {TRUE}) - Lacking(c, Missing(t, {"merged"}), TRUE)
                          + Owing(Cold(output[t], c), On(t, "merged"))
                /\ Total(Bare(output[t], c), Own(output[t]))
                     <= Sampled(t, c, {FALSE}) - Lacking(c, Missing(t, {"merged"}), FALSE)
                          + Owing(Bare(output[t], c), On(t, "merged")))'
    <3>1. /\ Total(Cold(output[t], c), Own(output[t])) <= Sampled(t, c, {TRUE}) - 0 + 0
          /\ Total(Bare(output[t], c), Own(output[t])) <= Sampled(t, c, {FALSE}) - 0 + 0
      BY <2>1, <2>2, <1>6 DEF Tinted, Bounded
    <3>2. /\ Sampled(t, c, {TRUE})' - Lacking(c, Missing(t, {"merged"}), TRUE)' = Sampled(t, c, {TRUE})
          /\ Sampled(t, c, {FALSE})' - Lacking(c, Missing(t, {"merged"}), FALSE)' = Sampled(t, c, {FALSE})
      BY <1>5, <1>7, <2>2
    <3>3. /\ Owing(Cold(output[t], c), On(t, "merged"))' = 0
          /\ Owing(Bare(output[t], c), On(t, "merged"))' = 0
      BY <1>5, <1>6 DEF Owing, Cold, Bare, At
    <3>4. /\ Total(Cold(output[t], c), Own(output[t]))' = Total(Cold(output[t], c), Own(output[t]))
          /\ Total(Bare(output[t], c), Own(output[t]))' = Total(Bare(output[t], c), Own(output[t]))
      BY <1>1
    <3>5. Sampled(t, c, {TRUE}) \in Int /\ Sampled(t, c, {FALSE}) \in Int
      BY <1>3, SampledTyped
    <3>6. /\ Total(Cold(output[t], c), Own(output[t])) <= Sampled(t, c, {TRUE}) + 0
          /\ Total(Bare(output[t], c), Own(output[t])) <= Sampled(t, c, {FALSE}) + 0
      BY ONLY <3>1, <3>5
    <3> QED BY ONLY <3>2, <3>3, <3>4, <3>6, ZenonT(60)
  <2>3. Worth(output[t], On(t, "merged"))'
    BY <1>1, <1>5, <2>1 DEF Tinted, Worth, Owing
  <2>4. Shaded(output[t], On(t, "merged"))'
    BY <1>1, <1>5, <2>1 DEF Tinted, Shaded
  <2> QED BY <2>2, <2>3, <2>4 DEF Tinted, Bounded
<1>9. ASSUME NEW t \in SampledThreads
      PROVE  Tinted(output_time_ordered[t], t, Missing(t, {"merged", "ordered"}), On(t, "ordered"))'
  <2>1. Tinted(output_time_ordered[t], t, <<>>, 1) /\ Rooted(output_time_ordered[t])
    BY <1>5 DEF TintsInv, SumsInv, PlaceInv
  <2>2. ASSUME NEW c, c # <<>>
        PROVE  (/\ Total(Cold(output_time_ordered[t], c), Own(output_time_ordered[t]))
                     <= Sampled(t, c, {TRUE}) - Lacking(c, Missing(t, {"merged", "ordered"}), TRUE)
                          + Owing(Cold(output_time_ordered[t], c), On(t, "ordered"))
                /\ Total(Bare(output_time_ordered[t], c), Own(output_time_ordered[t]))
                     <= Sampled(t, c, {FALSE}) - Lacking(c, Missing(t, {"merged", "ordered"}), FALSE)
                          + Owing(Bare(output_time_ordered[t], c), On(t, "ordered")))'
    <3>1. /\ Total(Cold(output_time_ordered[t], c), Own(output_time_ordered[t])) <= Sampled(t, c, {TRUE}) - 0 + 0
          /\ Total(Bare(output_time_ordered[t], c), Own(output_time_ordered[t])) <= Sampled(t, c, {FALSE}) - 0 + 0
      BY <2>1, <2>2, <1>6 DEF Tinted, Bounded
    <3>2. /\ Sampled(t, c, {TRUE})' - Lacking(c, Missing(t, {"merged", "ordered"}), TRUE)' = Sampled(t, c, {TRUE})
          /\ Sampled(t, c, {FALSE})' - Lacking(c, Missing(t, {"merged", "ordered"}), FALSE)' = Sampled(t, c, {FALSE})
      BY <1>5, <1>7, <2>2
    <3>3. /\ Owing(Cold(output_time_ordered[t], c), On(t, "ordered"))' = 0
          /\ Owing(Bare(output_time_ordered[t], c), On(t, "ordered"))' = 0
      BY <1>5, <1>6 DEF Owing, Cold, Bare, At
    <3>4. /\ Total(Cold(output_time_ordered[t], c), Own(output_time_ordered[t]))' = Total(Cold(output_time_ordered[t], c), Own(output_time_ordered[t]))
          /\ Total(Bare(output_time_ordered[t], c), Own(output_time_ordered[t]))' = Total(Bare(output_time_ordered[t], c), Own(output_time_ordered[t]))
      BY <1>1
    <3>5. Sampled(t, c, {TRUE}) \in Int /\ Sampled(t, c, {FALSE}) \in Int
      BY <1>3, SampledTyped
    <3>6. /\ Total(Cold(output_time_ordered[t], c), Own(output_time_ordered[t])) <= Sampled(t, c, {TRUE}) + 0
          /\ Total(Bare(output_time_ordered[t], c), Own(output_time_ordered[t])) <= Sampled(t, c, {FALSE}) + 0
      BY ONLY <3>1, <3>5
    <3> QED BY ONLY <3>2, <3>3, <3>4, <3>6, ZenonT(60)
  <2>3. Worth(output_time_ordered[t], On(t, "ordered"))'
    BY <1>1, <1>5, <2>1 DEF Tinted, Worth, Owing
  <2>4. Shaded(output_time_ordered[t], On(t, "ordered"))'
    BY <1>1, <1>5, <2>1 DEF Tinted, Shaded
  <2> QED BY <2>2, <2>3, <2>4 DEF Tinted, Bounded
<1> QED BY <1>8, <1>9 DEF TintsInv

LEMMA TintsMerged ==
  ASSUME SampleTypeOK, sample.period >= 0, SumsInv, TintsInv, RecurseMerged
  PROVE  TintsInv'
<1> DEFINE tid == sample.tid
           flame == output[tid]
           chain == sample.callchain
<1>1. PICK target \in MergedTarget(flame) :
        /\ output' = [output EXCEPT ![tid] = Grown(@, target)]
        /\ Descend(target)
  BY DEF RecurseMerged
<1> DEFINE grown == Grown(flame, target)
<1>2. /\ flame_pc = "merged" /\ flame_pc' = IF LastBlock THEN "ordered" ELSE "merged"
      /\ UNCHANGED <<sample, history, output_time_ordered>>
  BY DEF RecurseMerged, sampleVars
<1>3. tid \in SampledThreads
  BY DEF SampleTypeOK, Samples
<1>4. /\ Rooted(flame) /\ cur_elem \in DOMAIN flame /\ Paths(flame)[cur_elem] = Reached
      /\ DOMAIN output = SampledThreads
      /\ history \in [SampledThreads -> Seq(Samples)]
  BY <1>2, <1>3 DEF SumsInv, PlaceInv, HistoryInv, Stands
<1>5. Missing(tid, {"merged"}) = chain /\ On(tid, "merged") = cur_elem
  BY <1>2 DEF Missing, On
<1>6. Tinted(flame, tid, chain, cur_elem)
  BY <1>3, <1>5 DEF TintsInv
<1>7. Target(flame, target)
  BY <1>1, <1>4, MergedIsTarget
<1>8. LastBlock /\ target \in DOMAIN flame => flame[target].cold = sample.offcpu
  BY <1>1, <1>4, MergedOfKind
<1>9. /\ LastBlock => Tinted(grown, tid, <<>>, 1)
      /\ ~LastBlock => Tinted(grown, tid, chain, target)
  BY <1>3, <1>4, <1>6, <1>7, <1>8, CallColours
<1>10. output'[tid] = grown /\ \A t \in SampledThreads : t # tid => output'[t] = output[t]
  BY <1>1, <1>3, <1>4
<1>11. /\ LastBlock => cur_elem' = 1
       /\ ~LastBlock => cur_elem' = target
  BY <1>1, <1>2, CallGoesOn
<1> HIDE DEF tid, flame, chain, grown
<1>12. ASSUME NEW t \in SampledThreads
       PROVE  /\ Tinted(output[t], t, Missing(t, {"merged"}), On(t, "merged"))'
              /\ Tinted(output_time_ordered[t], t, Missing(t, {"merged", "ordered"}), On(t, "ordered"))'
  <2>1. /\ Tinted(output[t], t, Missing(t, {"merged"}), On(t, "merged"))
        /\ Tinted(output_time_ordered[t], t, Missing(t, {"merged", "ordered"}), On(t, "ordered"))
    BY DEF TintsInv
  <2>2. /\ Missing(t, {"merged", "ordered"})' = Missing(t, {"merged", "ordered"})
        /\ On(t, "ordered")' = On(t, "ordered")
    BY <1>2, <1>11 DEF Missing, On
  <2>3. Tinted(output_time_ordered[t], t, Missing(t, {"merged", "ordered"}), On(t, "ordered"))'
    BY <1>2, <2>1, <2>2, TintedNext
  <2>4. CASE t # tid
    <3>1. /\ Missing(t, {"merged"})' = Missing(t, {"merged"})
          /\ On(t, "merged")' = On(t, "merged")
      BY <1>2, <2>4 DEF Missing, On, tid
    <3>2. output'[t] = output[t]
      BY <1>10, <2>4
    <3> QED BY <1>2, <2>1, <2>3, <3>1, <3>2, TintedNext
  <2>5. CASE t = tid /\ LastBlock
    <3>1. Missing(t, {"merged"})' = <<>> /\ On(t, "merged")' = 1
      BY <1>2, <1>11, <2>5 DEF Missing, On
    <3>2. output'[t] = grown /\ Tinted(grown, t, <<>>, 1)
      BY <1>9, <1>10, <2>5
    <3> QED BY <1>2, <2>3, <3>1, <3>2, TintedNext
  <2>6. CASE t = tid /\ ~LastBlock
    <3>1. Missing(t, {"merged"})' = chain /\ On(t, "merged")' = target
      BY <1>2, <1>11, <2>6 DEF Missing, On, tid, chain
    <3>2. output'[t] = grown /\ Tinted(grown, t, chain, target)
      BY <1>9, <1>10, <2>6
    <3> QED BY <1>2, <2>3, <3>1, <3>2, TintedNext
  <2> QED BY <2>4, <2>5, <2>6
<1> QED BY <1>12 DEF TintsInv

LEMMA TintsOrdered ==
  ASSUME SampleTypeOK, sample.period >= 0, SumsInv, TintsInv, RecurseOrdered
  PROVE  TintsInv'
<1> DEFINE tid == sample.tid
           flame == output_time_ordered[tid]
           chain == sample.callchain
<1>1. PICK target \in OrderedTarget(flame) :
        /\ output_time_ordered' = [output_time_ordered EXCEPT ![tid] = Grown(@, target)]
        /\ Descend(target)
  BY DEF RecurseOrdered
<1> DEFINE grown == Grown(flame, target)
<1>2. /\ flame_pc = "ordered" /\ flame_pc' = IF LastBlock THEN "read" ELSE "ordered"
      /\ UNCHANGED <<sample, history, output>>
  BY DEF RecurseOrdered, sampleVars
<1>3. tid \in SampledThreads
  BY DEF SampleTypeOK, Samples
<1>4. /\ Rooted(flame) /\ cur_elem \in DOMAIN flame /\ Paths(flame)[cur_elem] = Reached
      /\ DOMAIN output_time_ordered = SampledThreads
      /\ history \in [SampledThreads -> Seq(Samples)]
  BY <1>2, <1>3 DEF SumsInv, PlaceInv, HistoryInv, Stands
<1>5. Missing(tid, {"merged", "ordered"}) = chain /\ On(tid, "ordered") = cur_elem
  BY <1>2 DEF Missing, On
<1>6. Tinted(flame, tid, chain, cur_elem)
  BY <1>3, <1>5 DEF TintsInv
<1>7. Target(flame, target)
  BY <1>1, <1>4, OrderedIsTarget
<1>8. LastBlock /\ target \in DOMAIN flame => flame[target].cold = sample.offcpu
  BY <1>1, <1>4, OrderedOfKind
<1>9. /\ LastBlock => Tinted(grown, tid, <<>>, 1)
      /\ ~LastBlock => Tinted(grown, tid, chain, target)
  BY <1>3, <1>4, <1>6, <1>7, <1>8, CallColours
<1>10. output_time_ordered'[tid] = grown /\ \A t \in SampledThreads : t # tid => output_time_ordered'[t] = output_time_ordered[t]
  BY <1>1, <1>3, <1>4
<1>11. /\ LastBlock => cur_elem' = 1
       /\ ~LastBlock => cur_elem' = target
  BY <1>1, <1>2, CallGoesOn
<1> HIDE DEF tid, flame, chain, grown
<1>12. ASSUME NEW t \in SampledThreads
       PROVE  /\ Tinted(output_time_ordered[t], t, Missing(t, {"merged", "ordered"}), On(t, "ordered"))'
              /\ Tinted(output[t], t, Missing(t, {"merged"}), On(t, "merged"))'
  <2>1. /\ Tinted(output_time_ordered[t], t, Missing(t, {"merged", "ordered"}), On(t, "ordered"))
        /\ Tinted(output[t], t, Missing(t, {"merged"}), On(t, "merged"))
    BY DEF TintsInv
  <2>2. /\ Missing(t, {"merged"})' = Missing(t, {"merged"})
        /\ On(t, "merged")' = On(t, "merged")
    BY <1>2, <1>11 DEF Missing, On
  <2>3. Tinted(output[t], t, Missing(t, {"merged"}), On(t, "merged"))'
    BY <1>2, <2>1, <2>2, TintedNext
  <2>4. CASE t # tid
    <3>1. /\ Missing(t, {"merged", "ordered"})' = Missing(t, {"merged", "ordered"})
          /\ On(t, "ordered")' = On(t, "ordered")
      BY <1>2, <2>4 DEF Missing, On, tid
    <3>2. output_time_ordered'[t] = output_time_ordered[t]
      BY <1>10, <2>4
    <3> QED BY <1>2, <2>1, <2>3, <3>1, <3>2, TintedNext
  <2>5. CASE t = tid /\ LastBlock
    <3>1. Missing(t, {"merged", "ordered"})' = <<>> /\ On(t, "ordered")' = 1
      BY <1>2, <1>11, <2>5 DEF Missing, On
    <3>2. output_time_ordered'[t] = grown /\ Tinted(grown, t, <<>>, 1)
      BY <1>9, <1>10, <2>5
    <3> QED BY <1>2, <2>3, <3>1, <3>2, TintedNext
  <2>6. CASE t = tid /\ ~LastBlock
    <3>1. Missing(t, {"merged", "ordered"})' = chain /\ On(t, "ordered")' = target
      BY <1>2, <1>11, <2>6 DEF Missing, On, tid, chain
    <3>2. output_time_ordered'[t] = grown /\ Tinted(grown, t, chain, target)
      BY <1>9, <1>10, <2>6
    <3> QED BY <1>2, <2>3, <3>1, <3>2, TintedNext
  <2> QED BY <2>4, <2>5, <2>6
<1> QED BY <1>12 DEF TintsInv

LEMMA TintsInvariance == FlameSpec => []TintsInv
<1>1. FlameInit => TintsInv
  BY TintsInit
<1>2. SampleTypeOK /\ SampleTypeOK' /\ TimeInv /\ SumsInv /\ TintsInv /\ [FlameNext]_flameVars
        => TintsInv'
  <2> SUFFICES ASSUME SampleTypeOK, SampleTypeOK', TimeInv, SumsInv, TintsInv,
                      [FlameNext]_flameVars
               PROVE  TintsInv'
    OBVIOUS
  <2>1. ASSUME NEW tid \in SampledThreads, NEW time \in StartTime..MaxTime,
               NEW reported \in 1..MaxTime, NEW offcpu \in BOOLEAN, NEW c \in Chains,
               ReadSample(tid, time, reported, offcpu, c)
        PROVE  TintsInv'
    BY <2>1, TintsRead
  <2>2. flame_pc # "read" => sample.period >= 0
    BY DEF TimeInv, Pending, SampleTypeOK, Samples
  <2>3. CASE RecurseMerged
    <3>1. sample.period >= 0
      BY <2>2, <2>3 DEF RecurseMerged
    <3> QED BY <2>3, <3>1, TintsMerged
  <2>4. CASE RecurseOrdered
    <3>1. sample.period >= 0
      BY <2>2, <2>4 DEF RecurseOrdered
    <3> QED BY <2>4, <3>1, TintsOrdered
  <2>5. CASE UNCHANGED flameVars
    <3>1. UNCHANGED <<history, sample, flame_pc, cur_elem, output, output_time_ordered>>
      BY <2>5 DEF flameVars, envVars, sampleVars, treeOfVars
    <3>2. ASSUME NEW t \in SampledThreads
          PROVE  /\ Tinted(output[t], t, Missing(t, {"merged"}), On(t, "merged"))'
                 /\ Tinted(output_time_ordered[t], t, Missing(t, {"merged", "ordered"}), On(t, "ordered"))'
      <4>1. /\ Missing(t, {"merged"})' = Missing(t, {"merged"})
            /\ Missing(t, {"merged", "ordered"})' = Missing(t, {"merged", "ordered"})
            /\ On(t, "merged")' = On(t, "merged") /\ On(t, "ordered")' = On(t, "ordered")
        BY <3>1 DEF Missing, On
      <4>2. /\ Tinted(output[t], t, Missing(t, {"merged"}), On(t, "merged"))
            /\ Tinted(output_time_ordered[t], t, Missing(t, {"merged", "ordered"}), On(t, "ordered"))
        BY DEF TintsInv
      <4>3. output'[t] = output[t] /\ output_time_ordered'[t] = output_time_ordered[t]
        BY <3>1
      <4> QED BY <3>1, <4>1, <4>2, <4>3, TintedNext
    <3> QED BY <3>2 DEF TintsInv
  <2> QED BY <2>1, <2>3, <2>4, <2>5 DEF FlameNext
<1>3. FlameSpec => []SampleTypeOK /\ []TimeInv
  BY SampleInvariance, PTL
<1> QED BY <1>1, <1>2, <1>3, SumsInvariance, PTL DEF FlameSpec

(* ColoursTrue is what is left between two samples.                         *)
LEMMA TintsShown ==
  ASSUME SampleTypeOK, NEW t \in SampledThreads, history \in [SampledThreads -> Seq(Samples)],
         NEW flame, Rooted(flame), Tinted(flame, t, <<>>, 1)
  PROVE  ColoursOf(t, flame)
<1>1. \A i \in DOMAIN flame \ {1} : flame[flame[i].up].cold => flame[i].cold
  BY DEF Tinted, Shaded
<1>2. ASSUME NEW c \in {Paths(flame)[i] : i \in DOMAIN flame \ {1}}
      PROVE  /\ Total({i \in DOMAIN flame \ {1} : Paths(flame)[i] = c /\ flame[i].cold}, Own(flame))
                  <= Sampled(t, c, {TRUE})
             /\ Total({i \in DOMAIN flame \ {1} : /\ Paths(flame)[i] = c /\ ~flame[i].cold
                                                 /\ Children(flame, i) = {}}, Own(flame))
                  <= Sampled(t, c, {FALSE})
  <2>1. c # <<>>
    <3>1. PICK i \in DOMAIN flame \ {1} : c = Paths(flame)[i]
      OBVIOUS
    <3> DEFINE s == Paths(flame)[flame[i].up]
    <3>2. flame[i].up \in DOMAIN flame
      BY <3>1, RootedTyped
    <3>3. s \in Seq(Names) /\ c = Append(s, flame[i].name)
      BY <3>1, <3>2, PathsAre
    <3> HIDE DEF s
    <3>4. Append(s, flame[i].name) # <<>>
      BY <3>3
    <3> QED BY <3>3, <3>4
  <2>2. /\ Owing(Cold(flame, c), 1) = 0 /\ Owing(Bare(flame, c), 1) = 0
        /\ Lacking(c, <<>>, TRUE) = 0 /\ Lacking(c, <<>>, FALSE) = 0
    BY <2>1 DEF Owing, Lacking, Cold, Bare, At
  <2>3. /\ Total(Cold(flame, c), Own(flame)) <= Sampled(t, c, {TRUE}) - 0 + 0
        /\ Total(Bare(flame, c), Own(flame)) <= Sampled(t, c, {FALSE}) - 0 + 0
    BY <2>1, <2>2 DEF Tinted, Bounded
  <2>4. Sampled(t, c, {TRUE}) \in Int /\ Sampled(t, c, {FALSE}) \in Int
    BY SampledTyped
  <2>5. /\ Total(Cold(flame, c), Own(flame)) <= Sampled(t, c, {TRUE})
        /\ Total(Bare(flame, c), Own(flame)) <= Sampled(t, c, {FALSE})
    BY ONLY <2>3, <2>4
  <2>6. /\ Cold(flame, c) = {i \in DOMAIN flame \ {1} : Paths(flame)[i] = c /\ flame[i].cold}
        /\ Bare(flame, c) = {i \in DOMAIN flame \ {1} : /\ Paths(flame)[i] = c /\ ~flame[i].cold
                                                        /\ Children(flame, i) = {}}
    BY DEF Cold, Bare, At
  <2> QED BY <2>5, <2>6
<1> QED BY <1>1, <1>2, Zenon DEF ColoursOf

(* Between two samples no on-CPU time of a path is in cold elements, no     *)
(* off-CPU time in hot ones without children, and nothing hot lies under a  *)
(* cold one, in both flame graphs: StdSubclient::recurse recolours what an  *)
(* on-CPU sample passes through (subclient.cpp:21-23), and that only ever   *)
(* takes time of its own from the cold.                                     *)
THEOREM ColoursTrueTheorem == SubclientSpec => []ColoursTrue
<1>1. SampleTypeOK /\ SumsInv /\ TintsInv => ColoursTrue
  <2> SUFFICES ASSUME SampleTypeOK, SumsInv, TintsInv, Between, NEW t \in SampledThreads
               PROVE  ColoursOf(t, output[t]) /\ ColoursOf(t, output_time_ordered[t])
    BY DEF ColoursTrue
  <2>1. /\ Missing(t, {"merged"}) = <<>> /\ Missing(t, {"merged", "ordered"}) = <<>>
        /\ On(t, "merged") = 1 /\ On(t, "ordered") = 1
    BY DEF Between, Missing, On
  <2>2. Tinted(output[t], t, <<>>, 1) /\ Tinted(output_time_ordered[t], t, <<>>, 1)
    BY <2>1 DEF TintsInv
  <2>3. /\ Rooted(output[t]) /\ Rooted(output_time_ordered[t])
        /\ history \in [SampledThreads -> Seq(Samples)]
    BY DEF SumsInv, PlaceInv, HistoryInv
  <2> QED BY <2>2, <2>3, TintsShown
<1>2. FlameSpec => []SampleTypeOK /\ []SumsInv /\ []TintsInv
  BY SampleInvariance, SumsInvariance, TintsInvariance, PTL
<1> QED BY <1>1, <1>2, SubclientSimulates, PTL

-----------------------------------------------------------------------------
(* The tree in time order.                                                  *)

(* The place of a number in a finite set.                                   *)
LEMMA Ranks ==
  ASSUME NEW S \in SUBSET Nat, IsFiniteSet(S), NEW i \in Nat
  PROVE  /\ Cardinality(S) \in Nat /\ Rank(S, i) \in Nat /\ Rank(S, i) <= Cardinality(S)
         /\ (\A j \in S : j <= i) => Rank(S, i) = Cardinality(S)
         /\ \A x \in S : i < x => Rank(S, i) < Cardinality(S)
<1> DEFINE R == {j \in S : j <= i}
<1>1. R \subseteq S /\ IsFiniteSet(R)
  BY FS_Subset
<1>2. Cardinality(S) \in Nat /\ Cardinality(R) \in Nat /\ Cardinality(R) <= Cardinality(S)
  BY <1>1, FS_CardinalityType, FS_Subset
<1>3. (\A j \in S : j <= i) => R = S
  OBVIOUS
<1>4. ASSUME NEW x \in S, i < x PROVE Cardinality(R) < Cardinality(S)
  <2>1. IsFiniteSet(S \ {x}) /\ Cardinality(S \ {x}) = Cardinality(S) - 1
    BY <1>4, FS_RemoveElement
  <2>2. R \subseteq S \ {x}
    BY <1>4
  <2>3. Cardinality(R) <= Cardinality(S \ {x})
    <3> HIDE DEF R
    <3> QED BY <2>1, <2>2, FS_Subset
  <2> QED BY <1>2, <2>1, <2>3
<1> QED BY <1>2, <1>3, <1>4 DEF Rank

(* A number beyond the set gets the next place and leaves the others.       *)
LEMMA RankGrows ==
  ASSUME NEW S \in SUBSET Nat, IsFiniteSet(S), NEW x \in Nat, \A j \in S : j < x
  PROVE  /\ IsFiniteSet(S \cup {x}) /\ Cardinality(S \cup {x}) = Cardinality(S) + 1
         /\ Rank(S \cup {x}, x) = Cardinality(S) + 1
         /\ \A i \in Nat : i < x => Rank(S \cup {x}, i) = Rank(S, i)
<1>1. x \notin S
  OBVIOUS
<1>2. IsFiniteSet(S \cup {x}) /\ Cardinality(S \cup {x}) = Cardinality(S) + 1
  BY <1>1, FS_AddElement
<1>3. S \cup {x} \in SUBSET Nat /\ \A j \in S \cup {x} : j <= x
  OBVIOUS
<1>4. Rank(S \cup {x}, x) = Cardinality(S \cup {x})
  BY <1>2, <1>3, Ranks
<1>5. ASSUME NEW i \in Nat, i < x PROVE Rank(S \cup {x}, i) = Rank(S, i)
  <2>1. {j \in S \cup {x} : j <= i} = {j \in S : j <= i}
    BY <1>5
  <2> QED BY <2>1 DEF Rank
<1> QED BY <1>2, <1>4, <1>5

(* The runs when a sample is added: it joins the last or begins one.        *)
LEMMA RunsGrow ==
  ASSUME NEW h \in Seq(Samples), NEW s \in Samples
  PROVE  LET h2 == Append(h, s)
             n == Len(h) + 1
         IN  /\ Runs(h) \in SUBSET Nat /\ IsFiniteSet(Runs(h))
             /\ Runs(h2) = IF Joins(h2, n) THEN Runs(h) ELSE Runs(h) \cup {n}
             /\ \A k \in Runs(h) : k \in DOMAIN h /\ k < n
             /\ \A k \in DOMAIN h : h2[k] = h[k]
             /\ h2[n] = s /\ DOMAIN h2 = DOMAIN h \cup {n} /\ h2 \in Seq(Samples)
<1> DEFINE h2 == Append(h, s)
           n == Len(h) + 1
<1>1. /\ h2 \in Seq(Samples) /\ DOMAIN h2 = DOMAIN h \cup {n} /\ h2[n] = s
      /\ Len(h) \in Nat /\ DOMAIN h = 1..Len(h)
      /\ \A k \in DOMAIN h : h2[k] = h[k]
  OBVIOUS
<1> HIDE DEF h2
<1>2. n \notin DOMAIN h /\ \A k \in DOMAIN h : k < n /\ k \in Nat
  BY <1>1
<1>3. ASSUME NEW k \in DOMAIN h PROVE Joins(h2, k) <=> Joins(h, k)
  <2>1. k > 1 => k - 1 \in DOMAIN h
    BY <1>1
  <2> QED BY <1>1, <2>1 DEF Joins
<1>4. Runs(h2) = IF Joins(h2, n) THEN Runs(h) ELSE Runs(h) \cup {n}
  BY <1>1, <1>2, <1>3 DEF Runs
<1>5. IsFiniteSet(Runs(h))
  <2>1. IsFiniteSet(1..Len(h)) /\ Runs(h) \subseteq 1..Len(h)
    BY <1>1, FS_Interval DEF Runs
  <2> QED BY <2>1, FS_Subset
<1>6. Runs(h) \in SUBSET Nat /\ \A k \in Runs(h) : k \in DOMAIN h /\ k < n
  BY <1>2 DEF Runs
<1> QED BY <1>1, <1>4, <1>5, <1>6 DEF h2

LEMMA PeriodsGrow ==
  ASSUME NEW h \in Seq(Samples), NEW s \in Samples, NEW S \in SUBSET DOMAIN h
  PROVE  LET h2 == Append(h, s)
             n == Len(h) + 1
         IN  /\ Total(S, Periods(h)) \in Int
             /\ Total(S, Periods(h2)) = Total(S, Periods(h))
             /\ Total(S \cup {n}, Periods(h2)) = Total(S, Periods(h)) + s.period
             /\ Total({n}, Periods(h2)) = s.period
<1> DEFINE h2 == Append(h, s)
           n == Len(h) + 1
           f == Periods(h)
           g == Periods(h2)
<1>1. /\ DOMAIN h2 = DOMAIN h \cup {n} /\ h2[n] = s /\ h2 \in Seq(Samples)
      /\ \A k \in DOMAIN h : h2[k] = h[k]
      /\ n \notin DOMAIN h
  OBVIOUS
<1>2. /\ Len(h) \in Nat /\ DOMAIN h = 1..Len(h) /\ IsFiniteSet(1..Len(h))
  BY FS_Interval
<1>3. IsFiniteSet(S) /\ n \notin S
  BY <1>1, <1>2, FS_Subset
<1>4. s.period \in Int /\ \A k \in DOMAIN h : h[k].period \in Int
  <2>1. \A e \in Samples : e.period \in Int
    BY Zenon DEF Samples
  <2>2. \A k \in DOMAIN h : h[k] \in Samples
    OBVIOUS
  <2> QED BY <2>1, <2>2
<1> HIDE DEF h2
<1>5. /\ \A k \in DOMAIN h : f[k] = h[k].period /\ g[k] = h[k].period
      /\ g[n] = s.period
  BY <1>1 DEF Periods
<1> HIDE DEF f, g, n
<1>6. \A k \in S : f[k] \in Int /\ f[k] = g[k]
  BY <1>4, <1>5
<1>7. \A k \in S \cup {n} : g[k] \in Int
  BY <1>4, <1>5
<1>8. Total(S, f) \in Int /\ Total(S, f) = Total(S, g)
  <2>1. \A k \in S : f[k] \in Int
    BY <1>6
  <2>2. Total(S, f) \in Int
    BY ONLY <1>3, <2>1, TotalTyped, ZenonT(60)
  <2> QED BY ONLY <1>3, <1>6, <2>2, TotalAgrees, ZenonT(60)
<1>9. Total(S \cup {n}, g) = Total(S, g) + g[n]
  BY ONLY <1>3, <1>7, TotalAdds, ZenonT(60)
<1>10. Total({n}, g) = s.period
  <2>1. IsFiniteSet({}) /\ n \notin {} /\ \A k \in {} \cup {n} : g[k] \in Int
    BY <1>7, FS_EmptySet
  <2>2. Total({} \cup {n}, g) = Total({}, g) + g[n]
    BY ONLY <2>1, TotalAdds, ZenonT(60)
  <2>3. Total({}, g) = 0
    BY TotalStep, FS_EmptySet
  <2>4. {} \cup {n} = {n}
    OBVIOUS
  <2> QED BY <1>4, <1>5, <2>2, <2>3, <2>4
<1> QED BY <1>5, <1>8, <1>9, <1>10 DEF h2, f, g, n

(* A sample that joins makes the last run longer; another leaves all as     *)
(* they are.                                                               *)
LEMMA RunGrows ==
  ASSUME NEW h \in Seq(Samples), NEW s \in Samples, NEW k \in Runs(h)
  PROVE  LET h2 == Append(h, s)
             n == Len(h) + 1
         IN  /\ Run(h, k) \in SUBSET DOMAIN h
             /\ Rank(Runs(h2), k) = Rank(Runs(h), k)
             /\ Rank(Runs(h), k) <= Cardinality(Runs(h)) /\ Rank(Runs(h), k) \in Nat
             /\ Joins(h2, n) =>
                  Run(h2, k) = IF Rank(Runs(h), k) = Cardinality(Runs(h))
                               THEN Run(h, k) \cup {n} ELSE Run(h, k)
             /\ ~Joins(h2, n) => Run(h2, k) = Run(h, k)
<1> DEFINE h2 == Append(h, s)
           n == Len(h) + 1
           R == Runs(h)
           R2 == Runs(h2)
<1>1. /\ R \in SUBSET Nat /\ IsFiniteSet(R)
      /\ R2 = IF Joins(h2, n) THEN R ELSE R \cup {n}
      /\ \A j \in R : j \in DOMAIN h /\ j < n
      /\ DOMAIN h2 = DOMAIN h \cup {n}
  BY RunsGrow
<1>2. n \in Nat /\ \A m \in DOMAIN h : m \in Nat /\ m < n
  OBVIOUS
<1> HIDE DEF h2, n, R, R2
<1>3. \A m \in DOMAIN h : Rank(R2, m) = Rank(R, m)
  BY <1>1, <1>2, RankGrows
<1>4. Rank(R, k) \in Nat /\ Rank(R, k) <= Cardinality(R) /\ Cardinality(R) \in Nat
  BY <1>1, <1>2, Ranks DEF R
<1>5. Rank(R2, n) = IF Joins(h2, n) THEN Cardinality(R) ELSE Cardinality(R) + 1
  <2>1. CASE Joins(h2, n)
    <3>1. \A j \in R : j <= n
      BY <1>1, <1>2
    <3> QED BY <1>1, <1>2, <2>1, <3>1, Ranks
  <2>2. CASE ~Joins(h2, n)
    BY <1>1, <1>2, <2>2, RankGrows
  <2> QED BY <2>1, <2>2
<1>6. k \in DOMAIN h
  BY <1>1 DEF R
<1>7. /\ Run(h, k) = {m \in DOMAIN h : Rank(R, m) = Rank(R, k)}
      /\ Run(h2, k) = {m \in DOMAIN h \cup {n} : Rank(R2, m) = Rank(R2, k)}
  BY <1>1 DEF Run, R, R2
<1>8. n \notin DOMAIN h
  BY <1>2
<1>9. n \in Run(h2, k) <=> Rank(R2, n) = Rank(R, k)
  BY <1>3, <1>6, <1>7
<1>10. Run(h2, k) = IF Rank(R2, n) = Rank(R, k) THEN Run(h, k) \cup {n} ELSE Run(h, k)
  BY <1>3, <1>6, <1>7, <1>8
<1>11. ~Joins(h2, n) => Rank(R2, n) # Rank(R, k)
  BY <1>4, <1>5
<1>12. Run(h, k) \in SUBSET DOMAIN h
  BY <1>7
<1>13. Rank(R2, k) = Rank(R, k)
  BY <1>3, <1>6
<1>14. Joins(h2, n) => Run(h2, k) = IF Rank(R, k) = Cardinality(R) THEN Run(h, k) \cup {n} ELSE Run(h, k)
  BY <1>5, <1>10
<1>15. ~Joins(h2, n) => Run(h2, k) = Run(h, k)
  BY <1>10, <1>11
<1> QED BY <1>4, <1>12, <1>13, <1>14, <1>15 DEF h2, n, R, R2

(* A sample that does not join is a run of its own.                         *)
LEMMA NewRun ==
  ASSUME NEW h \in Seq(Samples), NEW s \in Samples, ~Joins(Append(h, s), Len(h) + 1)
  PROVE  LET h2 == Append(h, s)
             n == Len(h) + 1
         IN  /\ Run(h2, n) = {n} /\ Rank(Runs(h2), n) = Cardinality(Runs(h)) + 1
             /\ Cardinality(Runs(h2)) = Cardinality(Runs(h)) + 1
             /\ Cardinality(Runs(h)) \in Nat
<1> DEFINE h2 == Append(h, s)
           n == Len(h) + 1
           R == Runs(h)
           R2 == Runs(h2)
<1>1. /\ R \in SUBSET Nat /\ IsFiniteSet(R) /\ R2 = R \cup {n}
      /\ \A j \in R : j < n
      /\ DOMAIN h2 = DOMAIN h \cup {n}
  BY RunsGrow
<1>2. n \in Nat /\ \A m \in DOMAIN h : m \in Nat /\ m < n
  OBVIOUS
<1> HIDE DEF h2, n, R, R2
<1>3. /\ Cardinality(R2) = Cardinality(R) + 1 /\ Rank(R2, n) = Cardinality(R) + 1
      /\ \A m \in DOMAIN h : Rank(R2, m) = Rank(R, m)
  BY <1>1, <1>2, RankGrows
<1>4. /\ Cardinality(R) \in Nat
      /\ \A m \in DOMAIN h : Rank(R, m) \in Nat /\ Rank(R, m) <= Cardinality(R)
  BY <1>1, <1>2, Ranks
<1>5. \A m \in DOMAIN h : Rank(R2, m) # Rank(R2, n)
  BY <1>3, <1>4
<1>6. Run(h2, n) = {m \in DOMAIN h \cup {n} : Rank(R2, m) = Rank(R2, n)}
  BY <1>1 DEF Run, R2
<1>7. Run(h2, n) = {n}
  BY <1>5, <1>6
<1> QED BY <1>3, <1>4, <1>7 DEF h2, n, R, R2

(* What an element is to the tree that a property sees of it.               *)
Alike(flame, grown, i) ==
  /\ Paths(grown)[i] = Paths(flame)[i]
  /\ grown[i].cold = flame[i].cold /\ grown[i].value = flame[i].value

LEMMA MatchKept ==
  ASSUME NEW L, NEW flame, NEW grown, NEW h, Matches(L, flame, h),
         \A i \in L : Alike(flame, grown, i)
  PROVE  Matches(L, grown, h)
BY DEF Matches, Alike

(* A new element for a sample that begins a run.                            *)
LEMMA MatchNew ==
  ASSUME NEW h \in Seq(Samples), NEW s \in Samples, ~Joins(Append(h, s), Len(h) + 1),
         NEW L \in SUBSET Nat, IsFiniteSet(L), NEW x \in Nat, \A i \in L : i < x,
         NEW flame, NEW grown, Matches(L, flame, h),
         \A i \in L : Alike(flame, grown, i),
         Paths(grown)[x] = s.callchain, grown[x].cold = s.offcpu, grown[x].value = s.period
  PROVE  Matches(L \cup {x}, grown, Append(h, s))
<1> DEFINE h2 == Append(h, s)
           n == Len(h) + 1
           R == Runs(h)
           R2 == Runs(h2)
<1>1. /\ R2 = R \cup {n} /\ \A k \in R : k \in DOMAIN h
      /\ \A k \in DOMAIN h : h2[k] = h[k]
      /\ h2[n] = s
  BY RunsGrow
<1>2. /\ Run(h2, n) = {n} /\ Rank(R2, n) = Cardinality(R) + 1
      /\ Cardinality(R2) = Cardinality(R) + 1 /\ Cardinality(R) \in Nat
  BY NewRun
<1>3. ASSUME NEW k \in R
      PROVE  /\ Run(h, k) \in SUBSET DOMAIN h /\ Run(h2, k) = Run(h, k)
             /\ Rank(R2, k) = Rank(R, k) /\ Rank(R, k) \in Nat /\ Rank(R, k) <= Cardinality(R)
             /\ Total(Run(h2, k), Periods(h2)) = Total(Run(h, k), Periods(h))
  <2>1. /\ Run(h, k) \in SUBSET DOMAIN h /\ Run(h2, k) = Run(h, k)
        /\ Rank(R2, k) = Rank(R, k) /\ Rank(R, k) \in Nat /\ Rank(R, k) <= Cardinality(R)
    BY RunGrows
  <2>2. Total(Run(h, k), Periods(h2)) = Total(Run(h, k), Periods(h))
    BY <2>1, PeriodsGrow
  <2> QED BY <2>1, <2>2
<1>4. Total({n}, Periods(h2)) = s.period
  <2>1. {} \in SUBSET DOMAIN h
    OBVIOUS
  <2> QED BY <2>1, PeriodsGrow
<1> HIDE DEF h2, n, R, R2
<1>5. /\ Cardinality(L \cup {x}) = Cardinality(L) + 1 /\ Rank(L \cup {x}, x) = Cardinality(L) + 1
      /\ \A i \in L : Rank(L \cup {x}, i) = Rank(L, i)
  BY RankGrows
<1>6. \A i \in L : Rank(L, i) \in Nat /\ Rank(L, i) <= Cardinality(L)
  BY Ranks
<1>7. Cardinality(L) = Cardinality(R)
  BY DEF Matches, R
<1>8. ASSUME NEW i \in L \cup {x}, NEW k \in R2, Rank(L \cup {x}, i) = Rank(R2, k)
      PROVE  /\ Paths(grown)[i] = h2[k].callchain /\ grown[i].cold = h2[k].offcpu
             /\ grown[i].value = Total(Run(h2, k), Periods(h2))
  <2>1. CASE i \in L /\ k \in R
    <3>1. Rank(L, i) = Rank(R, k)
      BY <1>3, <1>5, <1>8, <2>1
    <3>2. /\ Paths(flame)[i] = h[k].callchain /\ flame[i].cold = h[k].offcpu
          /\ flame[i].value = Total(Run(h, k), Periods(h))
      BY <2>1, <3>1 DEF Matches, R
    <3>3. h2[k] = h[k]
      BY <1>1, <2>1
    <3> QED BY <1>3, <2>1, <3>2, <3>3 DEF Alike
  <2>2. CASE i = x /\ k = n
    BY <1>1, <1>2, <1>4, <2>2
  <2>3. CASE i \in L /\ k = n
    BY <1>2, <1>5, <1>6, <1>7, <1>8, <2>3
  <2>4. CASE i = x /\ k \in R
    BY <1>2, <1>3, <1>5, <1>7, <1>8, <2>4
  <2> QED BY <1>1, <2>1, <2>2, <2>3, <2>4
<1>9. Cardinality(L \cup {x}) = Cardinality(R2)
  BY <1>2, <1>5, <1>7
<1> QED BY <1>8, <1>9 DEF Matches, h2, R2

(* The last element for a sample that joins.                                *)
LEMMA MatchJoined ==
  ASSUME NEW h \in Seq(Samples), NEW s \in Samples, Joins(Append(h, s), Len(h) + 1),
         NEW L \in SUBSET Nat, IsFiniteSet(L), NEW x \in L, \A i \in L : i <= x,
         NEW flame, NEW grown, Matches(L, flame, h),
         \A i \in L : i # x => Alike(flame, grown, i),
         Paths(grown)[x] = Paths(flame)[x], grown[x].cold = flame[x].cold,
         grown[x].value = flame[x].value + s.period
  PROVE  Matches(L, grown, Append(h, s))
<1> DEFINE h2 == Append(h, s)
           n == Len(h) + 1
           R == Runs(h)
           R2 == Runs(h2)
<1>1. /\ R2 = R /\ \A k \in R : k \in DOMAIN h
      /\ \A k \in DOMAIN h : h2[k] = h[k]
      /\ h2[n] = s
  BY RunsGrow
<1>2. ASSUME NEW k \in R
      PROVE  Total(Run(h2, k), Periods(h2))
               = IF Rank(R, k) = Cardinality(R) THEN Total(Run(h, k), Periods(h)) + s.period
                 ELSE Total(Run(h, k), Periods(h))
  <2>1. /\ Run(h, k) \in SUBSET DOMAIN h
        /\ Run(h2, k) = IF Rank(R, k) = Cardinality(R) THEN Run(h, k) \cup {n} ELSE Run(h, k)
    BY RunGrows
  <2>2. /\ Total(Run(h, k), Periods(h2)) = Total(Run(h, k), Periods(h))
        /\ Total(Run(h, k) \cup {n}, Periods(h2)) = Total(Run(h, k), Periods(h)) + s.period
    BY <2>1, PeriodsGrow
  <2> QED BY <2>1, <2>2
<1> HIDE DEF h2, n, R, R2
<1>3. Cardinality(L) = Cardinality(R)
  BY DEF Matches, R
<1>4. ASSUME NEW i \in L PROVE Rank(L, i) = Cardinality(L) <=> i = x
  <2>1. i = x => Rank(L, i) = Cardinality(L)
    BY Ranks
  <2>2. i # x => Rank(L, i) < Cardinality(L) /\ Rank(L, i) \in Nat /\ Cardinality(L) \in Nat
    <3>1. i # x => i < x
      <4>1. i \in Nat /\ x \in Nat /\ i <= x
        OBVIOUS
      <4> QED BY ONLY <4>1
    <3> QED BY <3>1, Ranks
  <2> QED BY <2>1, <2>2
<1>5. ASSUME NEW i \in L, NEW k \in R, Rank(L, i) = Rank(R, k)
      PROVE  /\ Paths(grown)[i] = h2[k].callchain /\ grown[i].cold = h2[k].offcpu
             /\ grown[i].value = Total(Run(h2, k), Periods(h2))
  <2>1. /\ Paths(flame)[i] = h[k].callchain /\ flame[i].cold = h[k].offcpu
        /\ flame[i].value = Total(Run(h, k), Periods(h))
    BY <1>5 DEF Matches, R
  <2>2. h2[k] = h[k]
    BY <1>1
  <2>3. Rank(R, k) = Cardinality(R) <=> i = x
    BY <1>3, <1>4, <1>5
  <2>4. CASE i = x
    BY <1>2, <2>1, <2>2, <2>3, <2>4
  <2>5. CASE i # x
    BY <1>2, <2>1, <2>2, <2>3, <2>5 DEF Alike
  <2> QED BY <2>4, <2>5
<1> QED BY <1>1, <1>3, <1>5 DEF Matches, h2, R2

(* Elements are created in depth-first order: all between an element and    *)
(* its parent lie below the parent.  An element is on the spine if all      *)
(* created after it lie below it.                                          *)
DepthFirst(flame) ==
  \A j \in DOMAIN flame : \A m \in DOMAIN flame :
    flame[j].up < m /\ m < j => flame[m].up >= flame[j].up
Spine(flame, i) ==
  i \in DOMAIN flame /\ \A j \in DOMAIN flame : j > i => flame[j].up >= i

(* The last element is the end of the last chain.                           *)
EndsWith(flame, h) ==
  IF h = <<>> THEN Len(flame) = 1
  ELSE /\ Len(flame) # 1
       /\ Paths(flame)[Len(flame)] = h[Len(h)].callchain
       /\ flame[Len(flame)].cold = h[Len(h)].offcpu

(* What has been sampled before the sample at hand.                         *)
Before(h) == SubSeq(h, 1, Len(h) - 1)

Reads(flame, h) == Matches(Leaves(flame), flame, h) /\ EndsWith(flame, h)

(* On its way down recurse follows the spine until a frame differs; from    *)
(* there on every element is new, and the one it stands on has no children  *)
(* yet.                                                                    *)
Follows(flame, h, at) == (at = 1 \/ at < Len(flame)) /\ EndsWith(flame, Before(h))
Branched(flame, h, at) == at = Len(flame) /\ at # 1 /\ ~Joins(h, Len(h))
Descends(flame, h, at) ==
  /\ Spine(flame, at)
  /\ Matches(Leaves(flame) \ {at}, flame, Before(h))
  /\ Follows(flame, h, at) \/ Branched(flame, h, at)

OrderInv ==
  \A t \in SampledThreads :
    LET flame == output_time_ordered[t]
        h == history[t]
    IN  /\ DepthFirst(flame)
        /\ flame_pc = "read" \/ t # sample.tid => Reads(flame, h)
        /\ flame_pc # "read" /\ t = sample.tid => h # <<>> /\ h[Len(h)] = sample
        /\ flame_pc = "merged" /\ t = sample.tid => Reads(flame, Before(h))
        /\ flame_pc = "ordered" /\ t = sample.tid => Descends(flame, h, cur_elem)

LEMMA LatestIs ==
  ASSUME NEW n \in Nat, NEW S \in SUBSET (1..n), S # {}
  PROVE  Latest(S) # {}
<1> DEFINE G == {m \in Nat : \A T \in SUBSET (1..m) : T # {} => Latest(T) # {}}
<1>1. 0 \in G
  <2>1. ASSUME NEW T \in SUBSET (1..0) PROVE T = {}
    OBVIOUS
  <2> QED BY <2>1
<1>2. ASSUME NEW m \in Nat, m \in G PROVE m + 1 \in G
  <2>1. ASSUME NEW T \in SUBSET (1..(m + 1)), T # {} PROVE Latest(T) # {}
    <3>1. CASE m + 1 \in T
      <4>1. m + 1 \in Latest(T)
        BY <3>1 DEF Latest
      <4> QED BY <4>1
    <3>2. CASE m + 1 \notin T
      <4>1. T \in SUBSET (1..m)
        BY <3>2
      <4> QED BY <1>2, <2>1, <4>1
    <3> QED BY <3>1, <3>2
  <2> QED BY <2>1
<1>3. \A m \in Nat : m \in G => m + 1 \in G
  BY <1>2
<1> HIDE DEF G
<1>4. n \in G
  BY <1>1, <1>3, CountUp
<1> QED BY <1>4 DEF G

(* What lies below an element begins with its path.                         *)
LEMMA SpineBegins ==
  ASSUME NEW flame, Rooted(flame), NEW i, Spine(flame, i)
  PROVE  \A j \in DOMAIN flame : j >= i =>
           /\ Len(Paths(flame)[i]) <= Len(Paths(flame)[j])
           /\ j # i => Len(Paths(flame)[i]) < Len(Paths(flame)[j])
           /\ \A m \in 1..Len(Paths(flame)[i]) : Paths(flame)[j][m] = Paths(flame)[i][m]
<1> DEFINE p == Paths(flame)
           Begins(j) == /\ Len(p[i]) <= Len(p[j])
                        /\ j # i => Len(p[i]) < Len(p[j])
                        /\ \A m \in 1..Len(p[i]) : p[j][m] = p[i][m]
           G == {n \in Nat : \A j \in DOMAIN flame : j >= i /\ j <= n => Begins(j)}
<1>1. /\ p \in [DOMAIN flame -> Seq(Names)]
      /\ \A j \in DOMAIN flame \ {1} : p[j] = Append(p[flame[j].up], flame[j].name)
  BY PathsAre, Zenon
<1>2. \A j \in DOMAIN flame :
        /\ j \in Nat /\ j >= 1 /\ flame[j].name \in Names
        /\ j # 1 => flame[j].up \in Nat /\ flame[j].up \in DOMAIN flame /\ flame[j].up < j
  BY RootedTyped, Zenon
<1>3. i \in DOMAIN flame /\ i \in Nat /\ \A j \in DOMAIN flame : j > i => flame[j].up >= i
  BY <1>2 DEF Spine
<1> HIDE DEF p
<1>4. \A j \in DOMAIN flame : Len(p[j]) \in Nat
  BY <1>1
<1>5. 0 \in G
  BY <1>2
<1>6. ASSUME NEW n \in Nat, n \in G PROVE n + 1 \in G
  <2>1. ASSUME NEW j \in DOMAIN flame, j >= i, j <= n + 1 PROVE Begins(j)
    <3>1. CASE j = i
      BY <1>4, <3>1
    <3>2. CASE j # i
      <4> DEFINE u == flame[j].up
      <4>1. j # 1 /\ u \in DOMAIN flame /\ u >= i /\ u <= n
        BY <1>2, <1>3, <2>1, <3>2
      <4>2. Begins(u)
        BY <1>6, <4>1
      <4>3. p[j] = Append(p[u], flame[j].name) /\ p[u] \in Seq(Names) /\ flame[j].name \in Names
        BY <1>1, <1>2, <4>1
      <4> HIDE DEF u
      <4>4. Len(p[j]) = Len(p[u]) + 1 /\ \A m \in 1..Len(p[u]) : p[j][m] = p[u][m]
        BY <4>3
      <4> QED BY <1>3, <1>4, <4>1, <4>2, <4>4
    <3> QED BY <3>1, <3>2
  <2> QED BY <2>1
<1>7. \A n \in Nat : n \in G => n + 1 \in G
  BY <1>6
<1> HIDE DEF G
<1>8. Nat \subseteq G
  BY <1>5, <1>7, CountUp
<1>9. ASSUME NEW j \in DOMAIN flame, j >= i PROVE Begins(j)
  <2>1. j \in Nat /\ j \in G
    BY <1>2, <1>8
  <2> QED BY <1>9, <2>1 DEF G
<1> QED BY <1>9 DEF p

(* The spine is where each element's last child leads.                      *)
LEMMA SpineGoesOn ==
  ASSUME NEW flame, Rooted(flame), DepthFirst(flame), NEW i, Spine(flame, i)
  PROVE  /\ i \in Nat /\ i <= Len(flame)
         /\ Children(flame, i) = {} <=> i = Len(flame)
         /\ i # Len(flame) => Latest(Children(flame, i)) # {}
         /\ \A k \in Latest(Children(flame, i)) : Spine(flame, k) /\ k > i /\ flame[k].up = i
<1>1. /\ Len(flame) \in Nat /\ DOMAIN flame = 1..Len(flame)
      /\ \A j \in DOMAIN flame : flame[j].up \in Nat /\ (j # 1 => flame[j].up < j)
      /\ flame[1].up = 0
  BY RootedTyped
<1>2. i \in 1..Len(flame) /\ \A j \in DOMAIN flame : j > i => flame[j].up >= i
  BY <1>1 DEF Spine
<1>3. ASSUME i # Len(flame) PROVE i + 1 \in Children(flame, i)
  <2>1. i + 1 \in DOMAIN flame /\ i + 1 > i /\ i + 1 # 1
    <3> DEFINE N == Len(flame)
               D == DOMAIN flame
    <3>1. i \in 1..N /\ i # N /\ N \in Nat /\ D = 1..N
      BY <1>1, <1>2, <1>3
    <3> HIDE DEF N, D
    <3>2. i + 1 \in D /\ i + 1 > i /\ i + 1 # 1
      BY ONLY <3>1
    <3> QED BY <3>2 DEF D
  <2>2. flame[i + 1].up >= i /\ flame[i + 1].up < i + 1 /\ flame[i + 1].up \in Nat
    BY <1>1, <1>2, <2>1
  <2>3. flame[i + 1].up = i
    BY <1>2, <2>2
  <2> QED BY <2>1, <2>3 DEF Children
<1>4. ASSUME i = Len(flame) PROVE Children(flame, i) = {}
  <2>1. ASSUME NEW j \in DOMAIN flame PROVE flame[j].up # i
    BY <1>1, <1>2, <1>4, <2>1
  <2> QED BY <2>1 DEF Children
<1>5. Children(flame, i) \in SUBSET (1..Len(flame))
  BY <1>1 DEF Children
<1>6. i # Len(flame) => Latest(Children(flame, i)) # {}
  BY <1>1, <1>3, <1>5, LatestIs
<1>7. ASSUME NEW k \in Latest(Children(flame, i)) PROVE Spine(flame, k) /\ k > i /\ flame[k].up = i
  <2>1. k \in DOMAIN flame /\ flame[k].up = i /\ \A j \in DOMAIN flame : flame[j].up = i => j <= k
    BY <1>7 DEF Latest, Children
  <2>2. k \in Nat /\ k > i
    BY <1>1, <1>2, <2>1
  <2>3. ASSUME NEW j \in DOMAIN flame, j > k PROVE flame[j].up >= k
    <3>1. j \in Nat /\ flame[j].up \in Nat /\ flame[j].up >= i /\ flame[j].up # i
      BY <1>1, <1>2, <2>1, <2>2, <2>3
    <3>2. flame[j].up < k => flame[k].up >= flame[j].up
      BY <2>1, <2>3 DEF DepthFirst
    <3> QED BY <1>2, <2>1, <2>2, <3>1, <3>2
  <2> QED BY <2>1, <2>2, <2>3 DEF Spine
<1> QED BY <1>2, <1>3, <1>4, <1>6, <1>7

LEMMA LeavesTyped ==
  ASSUME NEW flame, Rooted(flame)
  PROVE  /\ Leaves(flame) \in SUBSET Nat /\ Leaves(flame) \in SUBSET DOMAIN flame
         /\ IsFiniteSet(Leaves(flame))
         /\ \A i \in DOMAIN flame : i <= Len(flame) /\ i \in Nat
         /\ \A i \in Leaves(flame) :
              flame[i].value \in Int /\ Own(flame)[i] = flame[i].value
<1>1. /\ Len(flame) \in Nat /\ DOMAIN flame = 1..Len(flame)
      /\ \A i \in DOMAIN flame : flame[i].value \in Int
  BY RootedTyped
<1>2. Leaves(flame) \in SUBSET DOMAIN flame
  BY DEF Leaves
<1>3. IsFiniteSet(Leaves(flame))
  <2>1. IsFiniteSet(1..Len(flame))
    BY <1>1, FS_Interval
  <2> QED BY <1>1, <1>2, <2>1, FS_Subset
<1>4. ASSUME NEW i \in Leaves(flame) PROVE Own(flame)[i] = flame[i].value
  <2>1. i \in DOMAIN flame /\ Children(flame, i) = {}
    BY <1>4 DEF Leaves
  <2>2. Own(flame)[i] = Values(flame)[i] - Total({}, Values(flame))
    BY <2>1, OwnTyped
  <2>3. Total({}, Values(flame)) = 0
    BY TotalStep, FS_EmptySet
  <2>4. Values(flame)[i] = flame[i].value /\ flame[i].value \in Int
    BY <1>1, <2>1 DEF Values
  <2> QED BY <2>2, <2>3, <2>4
<1> QED BY <1>1, <1>2, <1>3, <1>4

(* What one call does to the elements without children.                     *)
LEMMA LeavesGrow ==
  ASSUME SampleTypeOK, NEW flame, Rooted(flame), NEW target, NEW grown, Took(flame, grown, target)
  PROVE  /\ target \in DOMAIN flame => Leaves(grown) = Leaves(flame) \ {cur_elem}
         /\ target \notin DOMAIN flame =>
              Leaves(grown) = (Leaves(flame) \ {cur_elem}) \cup {target}
         /\ \A i \in Leaves(flame) \ {cur_elem, target} : Alike(flame, grown, i)
         /\ \A i \in DOMAIN flame : i # cur_elem => grown[i].cold = flame[i].cold
         /\ target \in Leaves(flame) => grown[target].value = flame[target].value + sample.period
         /\ target \notin DOMAIN flame => grown[target].value = sample.period
<1>1. /\ Rooted(grown) /\ DOMAIN grown = DOMAIN flame \cup {target}
      /\ target # 1 /\ target # cur_elem /\ cur_elem \in DOMAIN flame
      /\ grown[target].up = cur_elem
      /\ \A i \in DOMAIN flame : grown[i].up = flame[i].up /\ grown[i].cold = Cooled(flame, i)
      /\ Own(grown)[target] = Base(flame, target) + sample.period
      /\ \A i \in DOMAIN flame : i # target /\ i # cur_elem => Own(grown)[i] = Own(flame)[i]
  BY DEF Took, Kept
<1>2. \A i \in DOMAIN flame \ {1} : flame[i].up \in DOMAIN flame
  BY RootedTyped
<1>3. 1 \in DOMAIN flame /\ flame[1].up = 0 /\ 0 \notin DOMAIN flame /\ sample.period \in Int
  BY RootedTyped DEF SampleTypeOK, Samples
<1>4. \A i \in DOMAIN flame : i # cur_elem => Children(grown, i) = Children(flame, i)
  BY <1>1 DEF Children
<1>5. target \in Children(grown, cur_elem)
  BY <1>1 DEF Children
<1>6. ASSUME target \notin DOMAIN flame PROVE Children(grown, target) = {}
  <2>1. target # 0
    <3>1. target \in DOMAIN grown
      BY <1>1
    <3> QED BY <1>1, <3>1, RootedTyped
  <2>2. ASSUME NEW j \in DOMAIN grown PROVE grown[j].up # target
    <3>1. CASE j = target
      BY <1>1, <3>1
    <3>2. CASE j = 1
      BY <1>1, <1>3, <2>1, <3>2
    <3>3. CASE j # target /\ j # 1
      BY <1>1, <1>2, <1>6, <3>3
    <3> QED BY <3>1, <3>2, <3>3
  <2> QED BY <2>2 DEF Children
<1>7. /\ target \in DOMAIN flame => Leaves(grown) = Leaves(flame) \ {cur_elem}
      /\ target \notin DOMAIN flame =>
           Leaves(grown) = (Leaves(flame) \ {cur_elem}) \cup {target}
  BY <1>1, <1>4, <1>5, <1>6 DEF Leaves
<1>8. \A i \in DOMAIN flame : i # cur_elem => grown[i].cold = flame[i].cold
  BY <1>1 DEF Cooled
<1>9. ASSUME NEW i \in Leaves(flame), i # cur_elem
      PROVE  /\ i \in DOMAIN flame /\ flame[i].value \in Int
             /\ Own(flame)[i] = flame[i].value /\ Own(grown)[i] = grown[i].value
  <2>1. i \in Leaves(grown)
    BY <1>7, <1>9
  <2> QED BY <1>1, <1>9, <2>1, LeavesTyped
<1>10. ASSUME NEW i \in Leaves(flame) \ {cur_elem, target} PROVE Alike(flame, grown, i)
  <2>1. Paths(grown)[i] = Paths(flame)[i]
    BY <1>9, TookPaths
  <2>2. grown[i].value = flame[i].value
    BY <1>1, <1>9
  <2> QED BY <1>8, <1>9, <2>1, <2>2 DEF Alike
<1>11. target \in Leaves(flame) => grown[target].value = flame[target].value + sample.period
  BY <1>1, <1>9 DEF Base
<1>12. ASSUME target \notin DOMAIN flame PROVE grown[target].value = sample.period
  <2>1. target \in Leaves(grown)
    BY <1>7, <1>12
  <2>2. Own(grown)[target] = grown[target].value
    BY <1>1, <2>1, LeavesTyped
  <2> QED BY <1>1, <1>3, <1>12, <2>2 DEF Base
<1> QED BY <1>7, <1>8, <1>10, <1>11, <1>12

LEMMA BeforeIs ==
  ASSUME NEW h \in Seq(Samples), h # <<>>
  PROVE  /\ Before(h) \in Seq(Samples) /\ Len(h) = Len(Before(h)) + 1
         /\ h = Append(Before(h), h[Len(h)])
         /\ \A k \in DOMAIN Before(h) : Before(h)[k] = h[k]
<1>1. Len(h) \in Nat /\ Len(h) >= 1 /\ DOMAIN h = 1..Len(h)
  OBVIOUS
<1> DEFINE n == Len(h) - 1
<1>2. n \in Nat /\ n <= Len(h) /\ Len(h) = n + 1
  BY <1>1
<1>3. /\ SubSeq(h, 1, n) \in Seq(Samples) /\ Len(SubSeq(h, 1, n)) = n
      /\ \A k \in 1..n : SubSeq(h, 1, n)[k] = h[k]
  BY <1>1, <1>2
<1>4. h = Append(SubSeq(h, 1, n), h[Len(h)])
  BY <1>1, <1>2, <1>3
<1> QED BY <1>2, <1>3, <1>4 DEF Before

LEMMA BeforeAppended ==
  ASSUME NEW h \in Seq(Samples), NEW s \in Samples
  PROVE  Before(Append(h, s)) = h /\ Append(h, s) # <<>> /\ Append(h, s)[Len(Append(h, s))] = s
<1> DEFINE h2 == Append(h, s)
           n == Len(h)
<1>1. n \in Nat /\ Len(h2) = n + 1 /\ h2 \in Seq(Samples) /\ h2[n + 1] = s /\ h2 # <<>>
  OBVIOUS
<1>2. SubSeq(h2, 1, n) = h
  OBVIOUS
<1> HIDE DEF h2, n
<1>3. Len(h2) - 1 = n
  BY <1>1
<1> QED BY <1>1, <1>2, <1>3 DEF Before, h2

(* The last child of the element recurse stands on, if it may go on there.  *)
Ahead(flame) == {i \in Latest(Children(flame, cur_elem)) : Continues(flame, i)}

(* A sample that joins is followed to the end.                              *)
LEMMA JoinsContinues ==
  ASSUME SampleTypeOK, NEW flame, Rooted(flame), DepthFirst(flame), Spine(flame, cur_elem),
         Paths(flame)[cur_elem] = Reached,
         NEW h \in Seq(Samples), h # <<>>, h[Len(h)] = sample,
         Follows(flame, h, cur_elem), Joins(h, Len(h))
  PROVE  Ahead(flame) # {}
<1> DEFINE N == Len(flame)
           chain == sample.callchain
           d == callchain_index
           p == Paths(flame)
           g == Before(h)
<1>1. /\ g \in Seq(Samples) /\ Len(h) = Len(g) + 1
      /\ \A k \in DOMAIN g : g[k] = h[k]
  BY BeforeIs
<1>2. Len(h) > 1 /\ h[Len(h) - 1].callchain = chain /\ h[Len(h) - 1].offcpu = sample.offcpu
  BY DEF Joins
<1>3. g # <<>> /\ Len(g) \in DOMAIN g /\ Len(g) = Len(h) - 1
  BY <1>1, <1>2
<1>4. N # 1 /\ p[N] = chain /\ flame[N].cold = sample.offcpu
  BY <1>1, <1>2, <1>3 DEF Follows, EndsWith
<1>5. N \in Nat /\ N \in DOMAIN flame /\ cur_elem # N
  <2>1. /\ N \in Nat /\ DOMAIN flame = 1..N /\ 1 \in DOMAIN flame
        /\ cur_elem \in DOMAIN flame /\ (cur_elem = 1 \/ cur_elem < N)
    BY RootedTyped DEF Follows, Spine
  <2> DEFINE D == DOMAIN flame
             e == cur_elem
  <2>2. N \in Nat /\ D = 1..N /\ 1 \in D /\ e \in D /\ (e = 1 \/ e < N)
    BY <2>1
  <2> HIDE DEF N, D, e
  <2>3. N \in D /\ (e < N => e # N)
    BY ONLY <2>2
  <2> QED BY <1>4, <2>2, <2>3 DEF D, e
<1>6. PICK k \in Latest(Children(flame, cur_elem)) : TRUE
  BY <1>5, SpineGoesOn
<1>7. Spine(flame, k) /\ k > cur_elem /\ flame[k].up = cur_elem /\ k \in DOMAIN flame
  BY <1>6, SpineGoesOn DEF Spine
<1>8. /\ k \in Nat /\ k <= N /\ (Children(flame, k) = {} <=> k = N)
  BY <1>7, SpineGoesOn
<1>9. k # 1 /\ p[k] = Append(Reached, flame[k].name)
  <2>1. k # 1
    BY <1>7, RootedTyped DEF Spine
  <2> QED BY <1>7, <2>1, PathsAre
<1>10. /\ chain \in Seq(STRING) /\ d \in 1..Len(chain) /\ Len(chain) \in Nat
       /\ Len(Reached) = d - 1 /\ Reached \in Seq(STRING)
  <2>1. chain \in Seq(STRING) /\ d \in DOMAIN chain
    BY DEF SampleTypeOK, Samples
  <2> HIDE DEF chain, d
  <2>2. d \in 1..Len(chain) /\ Len(chain) \in Nat
    BY <2>1
  <2>3. Len(SubSeq(chain, 1, d - 1)) = d - 1 /\ SubSeq(chain, 1, d - 1) \in Seq(STRING)
    BY <2>1, <2>2
  <2> QED BY <2>1, <2>2, <2>3 DEF Reached, chain, d
<1>11. Len(p[k]) = d /\ p[k][d] = flame[k].name
  <2> HIDE DEF d, chain, p
  <2> QED BY <1>9, <1>10
<1>12. N >= k
  BY <1>5, <1>8
<1>13. /\ k # N => Len(p[k]) < Len(p[N])
       /\ \A m \in 1..Len(p[k]) : p[N][m] = p[k][m]
  BY <1>5, <1>7, <1>12, SpineBegins
<1>14. flame[k].name = chain[d] /\ (d = Len(chain) <=> k = N)
  <2>1. d \in 1..Len(p[k])
    BY <1>10, <1>11
  <2>2. p[N][d] = p[k][d]
    BY <1>13, <2>1
  <2>3. k = N => d = Len(chain)
    BY <1>4, <1>11
  <2>4. k # N => d < Len(chain)
    BY <1>4, <1>11, <1>13
  <2>5. d \in Int
    BY <1>10
  <2> QED BY <1>4, <1>10, <1>11, <2>2, <2>3, <2>4, <2>5
<1>15. Continues(flame, k)
  <2>1. flame[k].name = Frame
    BY <1>14 DEF Frame
  <2>2. LastBlock <=> k = N
    BY <1>14 DEF LastBlock
  <2> QED BY <1>4, <1>8, <2>1, <2>2 DEF Continues
<1> QED BY <1>6, <1>15 DEF Ahead

(* One call in the tree in time order.                                      *)
LEMMA CallOrders ==
  ASSUME SampleTypeOK, NEW flame, Rooted(flame), DepthFirst(flame),
         Paths(flame)[cur_elem] = Reached,
         NEW h \in Seq(Samples), h # <<>>, h[Len(h)] = sample,
         Descends(flame, h, cur_elem), NEW target \in OrderedTarget(flame)
  PROVE  /\ DepthFirst(Grown(flame, target))
         /\ LastBlock => Reads(Grown(flame, target), h)
         /\ ~LastBlock => Descends(Grown(flame, target), h, target)
<1> DEFINE grown == Grown(flame, target)
           N == Len(flame)
           L == Leaves(flame) \ {cur_elem}
           g == Before(h)
<1>1. Spine(flame, cur_elem) /\ cur_elem \in DOMAIN flame
  BY DEF Descends, Spine
<1>2. Took(flame, grown, target)
  BY <1>1, OrderedIsTarget, GrownTook
<1> HIDE DEF grown
<1>3. /\ Rooted(grown) /\ DOMAIN grown = DOMAIN flame \cup {target} /\ target # 1 /\ target # cur_elem
      /\ grown[target].up = cur_elem
      /\ target \notin DOMAIN flame => grown[target].cold = sample.offcpu
      /\ \A i \in DOMAIN flame : grown[i].up = flame[i].up
  BY <1>2 DEF Took, Kept
<1>4. /\ N \in Nat /\ DOMAIN flame = 1..N /\ N \in DOMAIN flame
      /\ Len(grown) \in Nat /\ DOMAIN grown = 1..Len(grown)
  BY <1>3, RootedTyped
<1>5. /\ target \in DOMAIN flame => Leaves(grown) = L
      /\ target \notin DOMAIN flame => Leaves(grown) = L \cup {target}
      /\ \A i \in L \ {target} : Alike(flame, grown, i)
      /\ \A i \in DOMAIN flame : i # cur_elem => grown[i].cold = flame[i].cold
      /\ target \in Leaves(flame) => grown[target].value = flame[target].value + sample.period
      /\ target \notin DOMAIN flame => grown[target].value = sample.period
  BY <1>2, LeavesGrow
<1>6. L \in SUBSET Nat /\ L \in SUBSET DOMAIN flame /\ IsFiniteSet(L)
  <2>1. /\ Leaves(flame) \in SUBSET Nat /\ Leaves(flame) \in SUBSET DOMAIN flame
        /\ IsFiniteSet(Leaves(flame))
    BY LeavesTyped
  <2> QED BY <2>1, FS_Subset
<1>7. /\ g \in Seq(Samples) /\ Len(h) = Len(g) + 1 /\ h = Append(g, sample)
      /\ \A k \in DOMAIN g : g[k] = h[k]
  BY BeforeIs
<1>8. Matches(L, flame, g)
  BY DEF Descends
<1>9. /\ \A i \in DOMAIN flame : Paths(grown)[i] = Paths(flame)[i]
      /\ LastBlock => Paths(grown)[target] = sample.callchain
  <2>1. LastBlock => Further = sample.callchain
    BY ChainGoesOn
  <2>2. Further = Append(Reached, Frame)
    BY ChainGoesOn
  <2> QED BY <1>2, <2>1, <2>2, TookPaths
<1>10. /\ Ahead(flame) = {} => target = N + 1
       /\ Ahead(flame) # {} => target \in Ahead(flame)
  BY DEF OrderedTarget, NewElement, Ahead
<1> HIDE DEF L, g, N
<1>11. CASE Ahead(flame) = {}
  <2>1. target = N + 1 /\ target \notin DOMAIN flame
    BY <1>4, <1>10, <1>11
  <2>2. Len(grown) = N + 1
    BY <1>3, <1>4, <2>1
  <2>3. ~Joins(h, Len(h))
    BY <1>1, <1>11, JoinsContinues DEF Descends, Branched
  <2>4. DepthFirst(grown)
    <3>1. ASSUME NEW j \in DOMAIN grown, NEW m \in DOMAIN grown, grown[j].up < m, m < j
          PROVE  grown[m].up >= grown[j].up
      <4>1. m \in DOMAIN flame
        BY <1>3, <1>4, <2>1, <3>1
      <4>2. CASE j = target
        <5>1. grown[j].up = cur_elem /\ grown[m].up = flame[m].up /\ m > cur_elem
          BY <1>1, <1>3, <1>4, <3>1, <4>1, <4>2
        <5> QED BY <1>1, <4>1, <5>1 DEF Spine
      <4>3. CASE j # target
        <5>1. j \in DOMAIN flame
          BY <1>3, <4>3
        <5> QED BY <1>3, <3>1, <4>1, <5>1 DEF DepthFirst
      <4> QED BY <4>2, <4>3
    <3> QED BY <3>1 DEF DepthFirst
  <2>5. Leaves(grown) = L \cup {target} /\ target \notin L
    BY <1>5, <1>6, <2>1
  <2>6. \A i \in L : Alike(flame, grown, i)
    BY <1>5, <2>5
  <2>7. ASSUME ~LastBlock PROVE Descends(grown, h, target)
    <3>1. Spine(grown, target)
      BY <1>3, <1>4, <2>1, <2>2 DEF Spine
    <3>2. Leaves(grown) \ {target} = L
      BY <2>5
    <3>3. Matches(L, grown, g)
      BY <1>8, <2>6, MatchKept
    <3>4. Branched(grown, h, target)
      BY <1>3, <2>1, <2>2, <2>3 DEF Branched
    <3> QED BY <3>1, <3>2, <3>3, <3>4 DEF Descends, g
  <2>8. ASSUME LastBlock PROVE Reads(grown, h)
    <3>1. \A i \in L : i < target
      BY <1>4, <1>6, <2>1
    <3>2. /\ Paths(grown)[target] = sample.callchain /\ grown[target].cold = sample.offcpu
          /\ grown[target].value = sample.period /\ target \in Nat
      BY <1>3, <1>4, <1>5, <1>9, <2>1, <2>8
    <3>3. sample \in Samples /\ ~Joins(Append(g, sample), Len(g) + 1)
      BY <1>7, <2>3 DEF SampleTypeOK
    <3>4. Matches(L \cup {target}, grown, Append(g, sample))
      BY <1>6, <1>7, <1>8, <2>6, <3>1, <3>2, <3>3, MatchNew
    <3>5. EndsWith(grown, h)
      <4>1. Len(grown) = target
        BY <2>1, <2>2
      <4> QED BY <1>3, <3>2, <4>1 DEF EndsWith
    <3> QED BY <1>7, <2>5, <3>4, <3>5 DEF Reads
  <2> QED BY <2>4, <2>7, <2>8 DEF grown
<1>12. CASE Ahead(flame) # {}
  <2>1. target \in Latest(Children(flame, cur_elem)) /\ Continues(flame, target)
    BY <1>10, <1>12 DEF Ahead
  <2>2. target \in DOMAIN flame /\ target \in Children(flame, cur_elem)
    BY <2>1 DEF Latest, Children
  <2>3. Spine(flame, target) /\ cur_elem # N
    BY <1>1, <2>1, <2>2, SpineGoesOn DEF N
  <2>4. Follows(flame, h, cur_elem)
    BY <2>3 DEF Descends, Branched, N
  <2>5. DOMAIN grown = DOMAIN flame /\ Len(grown) = N
    BY <1>3, <1>4, <2>2
  <2>6. DepthFirst(grown) /\ Spine(grown, target)
    BY <1>3, <2>3, <2>5 DEF DepthFirst, Spine
  <2>7. Leaves(grown) = L /\ L = Leaves(flame)
    <3>1. cur_elem \notin Leaves(flame)
      BY <2>2 DEF Leaves
    <3> QED BY <1>5, <2>2, <3>1 DEF L
  <2>8. Children(flame, target) = {} <=> target = N
    BY <2>3, SpineGoesOn DEF N
  <2>9. target <= N /\ target \in Nat
    BY <1>4, <2>2
  <2>10. EndsWith(flame, g)
    BY <2>4 DEF Follows, g
  <2>11. ASSUME ~LastBlock PROVE Descends(grown, h, target)
    <3>1. target # N /\ target \notin L
      BY <2>1, <2>7, <2>8, <2>11 DEF Continues, Leaves
    <3>2. Leaves(grown) \ {target} = L
      BY <2>7, <3>1
    <3>3. \A i \in L : Alike(flame, grown, i)
      BY <1>5, <3>1
    <3>4. Matches(L, grown, g)
      BY <1>8, <3>3, MatchKept
    <3>5. EndsWith(grown, g)
      <4>1. Paths(grown)[N] = Paths(flame)[N] /\ grown[N].cold = flame[N].cold
        BY <1>4, <1>5, <1>9, <2>3
      <4> QED BY <2>5, <2>10, <4>1 DEF EndsWith, N
    <3>6. Follows(grown, h, target)
      BY <1>4, <2>5, <2>9, <3>1, <3>5 DEF Follows, g
    <3> QED BY <2>6, <3>2, <3>4, <3>6 DEF Descends, g
  <2>12. ASSUME LastBlock PROVE Reads(grown, h)
    <3>1. target = N /\ target \in L /\ flame[N].cold = sample.offcpu
      BY <1>3, <2>1, <2>2, <2>7, <2>8, <2>12 DEF Continues, Leaves
    <3>2. Paths(grown)[N] = sample.callchain /\ Paths(flame)[N] = sample.callchain
      BY <1>4, <1>9, <2>12, <3>1
    <3>3. g # <<>> /\ g[Len(g)].callchain = sample.callchain /\ g[Len(g)].offcpu = sample.offcpu
      <4>1. N # 1
        BY <1>3, <3>1
      <4> QED BY <2>10, <3>1, <3>2, <4>1 DEF EndsWith, N
    <3>4. Joins(h, Len(h))
      <4>1. Len(g) \in Nat /\ Len(g) >= 1 /\ Len(g) \in DOMAIN g /\ Len(h) - 1 = Len(g) /\ Len(h) > 1
        BY <1>7, <3>3
      <4>2. h[Len(h) - 1] = g[Len(g)]
        BY <1>7, <4>1
      <4> QED BY <3>3, <4>1, <4>2 DEF Joins
    <3>5. \A i \in L : i <= N
      BY <1>4, <1>6
    <3>6. /\ \A i \in L : i # N => Alike(flame, grown, i)
          /\ grown[N].cold = flame[N].cold
          /\ grown[N].value = flame[N].value + sample.period
          /\ Paths(grown)[N] = Paths(flame)[N]
      BY <1>4, <1>5, <2>3, <2>7, <3>1, <3>2
    <3>7. sample \in Samples /\ Joins(Append(g, sample), Len(g) + 1) /\ N \in L
      BY <1>7, <3>1, <3>4 DEF SampleTypeOK
    <3>8. Matches(L, grown, Append(g, sample))
      BY <1>6, <1>7, <1>8, <3>5, <3>6, <3>7, MatchJoined
    <3>9. EndsWith(grown, h)
      <4>1. N # 1
        BY <1>3, <3>1
      <4> QED BY <2>5, <3>1, <3>2, <3>6, <4>1 DEF EndsWith
    <3> QED BY <1>7, <2>7, <3>8, <3>9 DEF Reads
  <2> QED BY <2>6, <2>11, <2>12 DEF grown
<1> QED BY <1>11, <1>12

(* The first call stands on the root.                                       *)
LEMMA DescentBegins ==
  ASSUME NEW flame, Rooted(flame), NEW h, Reads(flame, Before(h))
  PROVE  Descends(flame, h, 1)
<1>1. /\ 1 \in DOMAIN flame
      /\ \A j \in DOMAIN flame : j > 1 => flame[j].up \in 1..(j - 1)
  BY DEF Rooted
<1>2. Spine(flame, 1)
  <2>1. \A j \in DOMAIN flame : j \in Nat
    BY RootedTyped
  <2> QED BY <1>1, <2>1 DEF Spine
<1>3. Leaves(flame) \ {1} = Leaves(flame)
  BY DEF Leaves
<1> QED BY <1>2, <1>3 DEF Reads, Descends, Follows

LEMMA OrderInit == FlameInit => OrderInv
<1>1. DOMAIN All = {1} /\ Len(All) = 1
  BY DEF All
<1>2. DepthFirst(All)
  BY <1>1 DEF DepthFirst
<1>3. Leaves(All) = {} /\ Runs(<<>>) = {}
  BY <1>1 DEF Leaves, Runs
<1>4. Matches(Leaves(All), All, <<>>)
  BY <1>3 DEF Matches
<1>5. Reads(All, <<>>)
  BY <1>1, <1>4 DEF Reads, EndsWith
<1>6. ASSUME FlameInit PROVE OrderInv
  <2>1. /\ output_time_ordered = [t \in SampledThreads |-> All]
        /\ history = [t \in SampledThreads |-> <<>>] /\ flame_pc = "read"
    BY <1>6 DEF FlameInit
  <2>2. \A t \in SampledThreads : output_time_ordered[t] = All /\ history[t] = <<>>
    BY <2>1
  <2> QED BY <1>2, <1>5, <2>1, <2>2 DEF OrderInv
<1> QED BY <1>6

(* A sample arrives: its thread's tree ends with the sample before.         *)
LEMMA OrderRead ==
  ASSUME SampleTypeOK, SampleTypeOK', SumsInv, OrderInv,
         NEW tid \in SampledThreads, NEW time \in StartTime..MaxTime,
         NEW reported \in 1..MaxTime, NEW offcpu \in BOOLEAN, NEW chain \in Chains,
         ReadSample(tid, time, reported, offcpu, chain)
  PROVE  OrderInv'
<1>1. /\ flame_pc = "read" /\ flame_pc' = "merged"
      /\ output_time_ordered' = output_time_ordered
      /\ history' = [history EXCEPT ![tid] = Append(@, sample')]
      /\ sample'.tid = tid
  BY DEF ReadSample, treeOfVars
<1>2. sample' \in Samples
  BY DEF SampleTypeOK
<1>3. history \in [SampledThreads -> Seq(Samples)] /\ history[tid] \in Seq(Samples)
  BY DEF SumsInv, HistoryInv
<1>4. /\ history'[tid] = Append(history[tid], sample')
      /\ \A t \in SampledThreads : t # tid => history'[t] = history[t]
  BY <1>1, <1>3
<1>5. /\ Before(history'[tid]) = history[tid] /\ history'[tid] # <<>>
      /\ history'[tid][Len(history'[tid])] = sample'
  BY <1>2, <1>3, <1>4, BeforeAppended
<1>6. \A t \in SampledThreads :
        /\ DepthFirst(output_time_ordered'[t]) /\ Reads(output_time_ordered'[t], history[t])
  BY <1>1 DEF OrderInv
<1>7. /\ flame_pc' # "read" /\ flame_pc' # "ordered"
  BY <1>1
<1> QED BY <1>1, <1>4, <1>5, <1>6, <1>7 DEF OrderInv

LEMMA OrderMerged ==
  ASSUME SampleTypeOK, SumsInv, OrderInv, RecurseMerged
  PROVE  OrderInv'
<1>1. /\ flame_pc = "merged" /\ flame_pc' = IF LastBlock THEN "ordered" ELSE "merged"
      /\ output_time_ordered' = output_time_ordered
      /\ UNCHANGED <<sample, history>>
      /\ \E target : Descend(target)
  BY DEF RecurseMerged, sampleVars
<1>2. LastBlock => cur_elem' = 1
  BY <1>1 DEF Descend
<1>3. \A t \in SampledThreads :
        LET flame == output_time_ordered[t]
            h == history[t]
        IN  /\ DepthFirst(flame)
            /\ t # sample.tid => Reads(flame, h)
            /\ t = sample.tid => h # <<>> /\ h[Len(h)] = sample /\ Reads(flame, Before(h))
  BY <1>1 DEF OrderInv
<1>4. \A t \in SampledThreads : Rooted(output_time_ordered[t])
  BY DEF SumsInv, PlaceInv
<1>5. CASE LastBlock
  <2>1. flame_pc' = "ordered" /\ cur_elem' = 1
    BY <1>1, <1>2, <1>5
  <2>2. Descends(output_time_ordered[sample.tid], history[sample.tid], 1)
    <3>1. sample.tid \in SampledThreads
      BY DEF SampleTypeOK, Samples
    <3> QED BY <1>3, <1>4, <3>1, DescentBegins
  <2> QED BY <1>1, <1>3, <2>1, <2>2 DEF OrderInv
<1>6. CASE ~LastBlock
  <2>1. flame_pc' = "merged"
    BY <1>1, <1>6
  <2> QED BY <1>1, <1>3, <2>1 DEF OrderInv
<1> QED BY <1>5, <1>6

LEMMA OrderOrdered ==
  ASSUME SampleTypeOK, SumsInv, OrderInv, RecurseOrdered
  PROVE  OrderInv'
<1> DEFINE tid == sample.tid
           flame == output_time_ordered[tid]
           h == history[tid]
<1>1. PICK target \in OrderedTarget(flame) :
        /\ output_time_ordered' = [output_time_ordered EXCEPT ![tid] = Grown(@, target)]
        /\ Descend(target)
  BY DEF RecurseOrdered
<1> DEFINE grown == Grown(flame, target)
<1>2. /\ flame_pc = "ordered" /\ flame_pc' = IF LastBlock THEN "read" ELSE "ordered"
      /\ UNCHANGED <<sample, history>>
  BY DEF RecurseOrdered, sampleVars
<1>3. tid \in SampledThreads
  BY DEF SampleTypeOK, Samples
<1>4. /\ Rooted(flame) /\ Paths(flame)[cur_elem] = Reached
      /\ DOMAIN output_time_ordered = SampledThreads
      /\ history \in [SampledThreads -> Seq(Samples)] /\ h \in Seq(Samples)
  BY <1>2, <1>3 DEF SumsInv, PlaceInv, HistoryInv, Stands
<1>5. DepthFirst(flame) /\ h # <<>> /\ h[Len(h)] = sample /\ Descends(flame, h, cur_elem)
  BY <1>2, <1>3 DEF OrderInv
<1>6. /\ DepthFirst(grown)
      /\ LastBlock => Reads(grown, h)
      /\ ~LastBlock => Descends(grown, h, target)
  BY <1>1, <1>4, <1>5, CallOrders
<1>7. /\ output_time_ordered'[tid] = grown
      /\ \A t \in SampledThreads : t # tid => output_time_ordered'[t] = output_time_ordered[t]
  BY <1>1, <1>3, <1>4
<1>8. \A t \in SampledThreads : t # tid =>
        DepthFirst(output_time_ordered[t]) /\ Reads(output_time_ordered[t], history[t])
  BY DEF OrderInv
<1>9. ~LastBlock => cur_elem' = target
  BY <1>1 DEF Descend
<1> HIDE DEF tid, flame, h, grown
<1>10. /\ h = history'[tid] /\ tid = sample'.tid /\ history' = history /\ sample' = sample
  BY <1>2 DEF h, tid
<1>11. CASE LastBlock
  <2>1. flame_pc' = "read"
    BY <1>2, <1>11
  <2>2. Reads(output_time_ordered'[tid], history'[tid]) /\ DepthFirst(output_time_ordered'[tid])
    BY <1>6, <1>7, <1>10, <1>11
  <2> QED BY <1>7, <1>8, <1>10, <2>1, <2>2 DEF OrderInv
<1>12. CASE ~LastBlock
  <2>1. flame_pc' = "ordered"
    BY <1>2, <1>12
  <2>2. /\ Descends(output_time_ordered'[tid], history'[tid], cur_elem')
        /\ DepthFirst(output_time_ordered'[tid])
    BY <1>6, <1>7, <1>9, <1>10, <1>12
  <2>3. h # <<>> /\ h[Len(h)] = sample
    BY <1>5
  <2> QED BY <1>7, <1>8, <1>10, <2>1, <2>2, <2>3 DEF OrderInv
<1> QED BY <1>11, <1>12

LEMMA OrderInvariance == FlameSpec => []OrderInv
<1>1. FlameInit => OrderInv
  BY OrderInit
<1>2. SampleTypeOK /\ SampleTypeOK' /\ SumsInv /\ OrderInv /\ [FlameNext]_flameVars => OrderInv'
  <2> SUFFICES ASSUME SampleTypeOK, SampleTypeOK', SumsInv, OrderInv, [FlameNext]_flameVars
               PROVE  OrderInv'
    OBVIOUS
  <2>1. ASSUME NEW tid \in SampledThreads, NEW time \in StartTime..MaxTime,
               NEW reported \in 1..MaxTime, NEW offcpu \in BOOLEAN, NEW c \in Chains,
               ReadSample(tid, time, reported, offcpu, c)
        PROVE  OrderInv'
    BY <2>1, OrderRead
  <2>2. CASE RecurseMerged
    BY <2>2, OrderMerged
  <2>3. CASE RecurseOrdered
    BY <2>3, OrderOrdered
  <2>4. CASE UNCHANGED flameVars
    <3>1. UNCHANGED <<history, sample, flame_pc, cur_elem, output_time_ordered>>
      BY <2>4 DEF flameVars, envVars, sampleVars, treeOfVars
    <3> QED BY <3>1 DEF OrderInv
  <2> QED BY <2>1, <2>2, <2>3, <2>4 DEF FlameNext
<1>3. FlameSpec => []SampleTypeOK
  BY SampleInvariance, PTL
<1> QED BY <1>1, <1>2, <1>3, SumsInvariance, PTL DEF FlameSpec

(* Between two samples the elements without children of a thread's flame    *)
(* graph in time order, in the order of their creation, are the runs of its *)
(* samples, one each, with the run's call chain, its kind and the sum of    *)
(* its periods: StdSubclient::recurse goes on only where the last sample    *)
(* ended (subclient.cpp:25-39), so no later sample of the same chain lands  *)
(* in an element that another has been reported after.                      *)
THEOREM ReadsBackInOrderTheorem == SubclientSpec => []ReadsBackInOrder
<1>1. OrderInv => ReadsBackInOrder
  BY DEF OrderInv, Between, Reads, ReadsBackInOrder
<1>2. FlameSpec => []OrderInv
  BY OrderInvariance
<1> QED BY <1>1, <1>2, SubclientSimulates, PTL
=============================================================================
