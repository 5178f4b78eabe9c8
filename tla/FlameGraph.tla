----------------------------- MODULE FlameGraph -----------------------------
(***************************************************************************)
(* What StdSubclient::process makes of the samples of one stream once it   *)
(* knows that profiling has started: for every thread a flame graph in     *)
(* which equal call chains are merged and one in time order, its time      *)
(* sampled, and its off-CPU regions.  One action takes a sample; after it  *)
(* each call of StdSubclient::recurse is an action.                        *)
(*                                                                         *)
(* A tree is the sequence of its elements as they are created, each with   *)
(* the position of the element whose "children" hold it; 1 is "all".  Left *)
(* out as data: the offsets counted next to every value.  What the client  *)
(* does with lines of a wrong kind or form is in module Client.            *)
(***************************************************************************)
EXTENDS Integers, Sequences, FiniteSetsExt

CONSTANTS
  SampledThreads, \* threads whose samples come through the stream
  MainThread,     \* the profiled command's first thread
  Chains,         \* call chains, outermost frame first
  JustThread,     \* "(just thread/process)", the frame of an empty chain
  StartTime,      \* profile_start_tstamp
  MaxTime,        \* bound on the clock
  MaxSamples      \* bound on the length of the stream

ASSUME SampledThreadsAssumption == MainThread \in SampledThreads
ASSUME ChainsAssumption == \A c \in Chains : c \in Seq(STRING)
ASSUME JustThreadAssumption == JustThread \in STRING
ASSUME TimeAssumption == StartTime \in Nat /\ MaxTime \in Nat

VARIABLES
  now,        \* the time of the latest sample
  busy,       \* the end of the time already reported of each thread
  taken,      \* samples taken from the stream
  first_event_received,
  flame_pc,   \* "read", or the tree that recurse works on
  sample,     \* the sample at hand
  callchain_index, cur_elem, \* the arguments of recurse
  output, output_time_ordered, total_period, offcpu_regions,
  history     \* what was sampled of each thread, for the properties

envVars   == <<now, busy, taken>>
sampleVars == <<sample, first_event_received, history>>
treeOfVars == <<output, output_time_ordered, total_period>>
flameVars == <<envVars, sampleVars, treeOfVars, flame_pc, callchain_index,
               cur_elem, offcpu_regions>>

Element(up, name, cold) == [up |-> up, name |-> name, value |-> 0, cold |-> cold]
All == <<Element(0, "all", TRUE)>>
NoSample == [tid |-> MainThread, callchain |-> <<JustThread>>, offcpu |-> FALSE,
             period |-> 0]

FlameInit ==
  /\ now = 0 /\ taken = 0
  /\ busy = [t \in SampledThreads |-> IF t = MainThread THEN 0 ELSE StartTime]
  /\ first_event_received = FALSE
  /\ flame_pc = "read" /\ sample = NoSample
  /\ callchain_index = 1 /\ cur_elem = 1
  /\ output = [t \in SampledThreads |-> All]
  /\ output_time_ordered = [t \in SampledThreads |-> All]
  /\ total_period = [t \in SampledThreads |-> 0]
  /\ offcpu_regions = [t \in SampledThreads |-> <<>>]
  /\ history = [t \in SampledThreads |-> <<>>]

-----------------------------------------------------------------------------
(* A line of type "sample".                                                 *)

(* The samples perf can report: those of one thread do not overlap, and all *)
(* come in time order.  Only the first thread lives before the start; it is *)
(* asleep in the wrapper from before perf attaches to it, so its first     *)
(* sample, the first of the stream, alone can reach back beyond the start. *)
Reported(tid, time, period) ==
  /\ time > StartTime /\ time >= now
  /\ period > 0 /\ time - period >= busy[tid]
  /\ time - period < StartTime => tid = MainThread /\ ~first_event_received

(* The period of the very first event is cut at the start. *)
KeepPeriod(time, period) == period
Clamp(time, period) ==
  IF ~first_event_received /\ time - period < StartTime
  THEN time - StartTime ELSE period

CallChain(chain) == IF chain = <<>> THEN <<JustThread>> ELSE chain

ReadSample(tid, time, reported, offcpu, chain) ==
  LET period == Clamp(time, reported)
  IN  /\ flame_pc = "read" /\ taken < MaxSamples
      /\ Reported(tid, time, reported)
      /\ now' = time /\ busy' = [busy EXCEPT ![tid] = time]
      /\ taken' = taken + 1
      /\ first_event_received' = TRUE
      /\ sample' = [tid |-> tid, callchain |-> CallChain(chain),
                    offcpu |-> offcpu, period |-> period]
      /\ history' = [history EXCEPT ![tid] = Append(@, sample')]
      /\ offcpu_regions' =
           IF offcpu
           THEN [offcpu_regions EXCEPT ![tid] =
                   Append(@, [timestamp |-> time - period, period |-> period])]
           ELSE offcpu_regions
      /\ flame_pc' = "merged" /\ callchain_index' = 1 /\ cur_elem' = 1
      /\ UNCHANGED treeOfVars

-----------------------------------------------------------------------------
(* StdSubclient::recurse.                                                   *)

Frame == sample.callchain[callchain_index]
LastBlock == callchain_index = Len(sample.callchain)
Children(tree, up) == {i \in DOMAIN tree : tree[i].up = up}
Latest(S) == {i \in S : \A j \in S : j <= i}
NewElement(tree) == {Len(tree) + 1}

(* The merged tree has room for a frame twice: with on-CPU activity below  *)
(* it and without.                                                         *)
Found(tree) ==
  {i \in Children(tree, cur_elem) :
     tree[i].name = Frame /\ (LastBlock => tree[i].cold = sample.offcpu)}

(* Of a cold and a hot element the one of the sample's kind is taken. *)
ColdFirst(S, tree) ==
  LET cold == {i \in S : tree[i].cold}
  IN  Latest(IF cold # {} THEN cold ELSE S)
Preferred(S, tree) ==
  LET same == {i \in S : tree[i].cold = sample.offcpu}
  IN  Latest(IF same # {} THEN same ELSE S)

MergedTarget(tree) ==
  IF Found(tree) = {} THEN NewElement(tree) ELSE Preferred(Found(tree), tree)

(* In time order only the last child can be continued, and an element holds *)
(* either time of its own or children.                                     *)
ContinuesAnyway(tree, i) ==
  tree[i].name = Frame /\ (LastBlock => tree[i].cold = sample.offcpu)
Continues(tree, i) ==
  /\ tree[i].name = Frame
  /\ LastBlock => tree[i].cold = sample.offcpu
  /\ LastBlock <=> Children(tree, i) = {}

OrderedTarget(tree) ==
  LET last == {i \in Latest(Children(tree, cur_elem)) : Continues(tree, i)}
  IN  IF last = {} THEN NewElement(tree) ELSE last

(* On-CPU activity makes the element it passes through hot. *)
KeepColour(tree) == tree
Warmed(tree) ==
  IF sample.offcpu THEN tree ELSE [tree EXCEPT ![cur_elem].cold = FALSE]

CreditLast(tree, target) ==
  IF LastBlock THEN [tree EXCEPT ![target].value = @ + sample.period] ELSE tree
Credit(tree, target) == [tree EXCEPT ![target].value = @ + sample.period]

WithElement(tree, target) ==
  IF target > Len(tree)
  THEN Append(tree, Element(cur_elem, Frame, sample.offcpu)) ELSE tree

Grown(tree, target) == Credit(WithElement(Warmed(tree), target), target)

Descend(target) ==
  /\ callchain_index' = IF LastBlock THEN 1 ELSE callchain_index + 1
  /\ cur_elem' = IF LastBlock THEN 1 ELSE target

RecurseMerged ==
  /\ flame_pc = "merged"
  /\ \E target \in MergedTarget(output[sample.tid]) :
       /\ output' = [output EXCEPT ![sample.tid] = Grown(@, target)]
       /\ Descend(target)
  /\ flame_pc' = IF LastBlock THEN "ordered" ELSE "merged"
  /\ UNCHANGED <<envVars, sampleVars, output_time_ordered, total_period,
                 offcpu_regions>>

(* The last call is followed by the sum of the thread's periods. *)
RecurseOrdered ==
  /\ flame_pc = "ordered"
  /\ \E target \in OrderedTarget(output_time_ordered[sample.tid]) :
       /\ output_time_ordered' =
            [output_time_ordered EXCEPT ![sample.tid] = Grown(@, target)]
       /\ Descend(target)
  /\ IF LastBlock
     THEN /\ total_period' = [total_period EXCEPT ![sample.tid] = @ + sample.period]
          /\ flame_pc' = "read"
     ELSE UNCHANGED <<total_period, flame_pc>>
  /\ UNCHANGED <<envVars, sampleVars, output, offcpu_regions>>

FlameNext ==
  \/ \E tid \in SampledThreads, time \in StartTime..MaxTime, reported \in 1..MaxTime,
        offcpu \in BOOLEAN, chain \in Chains :
       ReadSample(tid, time, reported, offcpu, chain)
  \/ RecurseMerged
  \/ RecurseOrdered

FlameSpec == FlameInit /\ [][FlameNext]_flameVars

-----------------------------------------------------------------------------
(* Properties.                                                              *)

(* The frames from the root to an element. *)
Paths(tree) ==
  LET path[i \in DOMAIN tree] ==
        IF tree[i].up = 0 THEN <<>> ELSE Append(path[tree[i].up], tree[i].name)
  IN  path

Total(S, value) == SumFunctionOnSet(value, S)

(* What elements hold, and what of it is their own, not their children's. *)
Values(tree) == [i \in DOMAIN tree |-> tree[i].value]
Own(tree) ==
  [i \in DOMAIN tree |-> tree[i].value - Total(Children(tree, i), Values(tree))]

(* The time spent in exactly this chain, by whether it is off-CPU time.    *)
Periods(h) == [k \in DOMAIN h |-> h[k].period]
Sampled(t, chain, kinds) ==
  Total({k \in DOMAIN history[t] : /\ history[t][k].callchain = chain
                                   /\ history[t][k].offcpu \in kinds},
        Periods(history[t]))

Between == flame_pc = "read"

(* The merged tree never holds a frame twice in the same place with the     *)
(* same colour: elements that are recoloured (subclient.cpp:21-23) do not  *)
(* meet one that is already there, so the choice of 53-72 is unambiguous.  *)
HotColdUnique ==
  \A t \in SampledThreads : \A i, j \in DOMAIN output[t] :
    /\ i # j /\ output[t][i].up = output[t][j].up
    /\ output[t][i].name = output[t][j].name
    => output[t][i].cold # output[t][j].cold

PathTimes(t, tree) ==
  LET path == Paths(tree)
      chains == {path[i] : i \in DOMAIN tree \ {1}}
                \cup {history[t][k].callchain : k \in DOMAIN history[t]}
  IN  /\ total_period[t] = Total(Children(tree, 1), Values(tree))
      /\ \A c \in chains :
           Total({i \in DOMAIN tree \ {1} : path[i] = c}, Own(tree))
             = Sampled(t, c, BOOLEAN)

(* Every period is counted once in the total and once on its own path,     *)
(* whatever elements a path has been spread over (subclient.cpp:82-95,     *)
(* 304-310).                                                               *)
PathsAddUp ==
  Between => \A t \in SampledThreads :
    PathTimes(t, output[t]) /\ PathTimes(t, output_time_ordered[t])

ColoursOf(t, tree) ==
  LET path == Paths(tree)
      own == Own(tree)
      places == {path[i] : i \in DOMAIN tree \ {1}}
  IN  /\ \A i \in DOMAIN tree \ {1} : tree[tree[i].up].cold => tree[i].cold
      /\ \A c \in places :
           /\ Total({i \in DOMAIN tree \ {1} : path[i] = c /\ tree[i].cold}, own)
                <= Sampled(t, c, {TRUE})
           /\ Total({i \in DOMAIN tree \ {1} : /\ path[i] = c /\ ~tree[i].cold
                                               /\ Children(tree, i) = {}}, own)
                <= Sampled(t, c, {FALSE})

(* No on-CPU time is shown as cold, and nothing hot lies under a cold       *)
(* element; a hot element without children holds on-CPU time only.  (One   *)
(* with children may hold off-CPU time of its own: subclient.cpp:21-23     *)
(* recolours an element that already has some.)                            *)
ColoursTrue ==
  Between => \A t \in SampledThreads :
    ColoursOf(t, output[t]) /\ ColoursOf(t, output_time_ordered[t])

(* A sample is one with the previous one if chain and kind are the same; a  *)
(* run is named by its first sample.                                       *)
Joins(h, k) ==
  k > 1 /\ h[k].callchain = h[k - 1].callchain /\ h[k].offcpu = h[k - 1].offcpu
Runs(h) == {k \in DOMAIN h : ~Joins(h, k)}
Rank(S, i) == Cardinality({j \in S : j <= i})
Run(h, k) == {m \in DOMAIN h : Rank(Runs(h), m) = Rank(Runs(h), k)}

Leaves(tree) == {i \in DOMAIN tree \ {1} : Children(tree, i) = {}}
Matches(leaves, tree, h) ==
  /\ Cardinality(leaves) = Cardinality(Runs(h))
  /\ \A i \in leaves, k \in Runs(h) : Rank(leaves, i) = Rank(Runs(h), k) =>
       /\ Paths(tree)[i] = h[k].callchain
       /\ tree[i].cold = h[k].offcpu
       /\ tree[i].value = Total(Run(h, k), Periods(h))

(* The elements without children of the time-ordered tree, in the order of *)
(* their creation, are the samples of the thread, neighbours of the same   *)
(* chain and kind in one (subclient.cpp:25-39).                            *)
ReadsBackInOrder ==
  Between => \A t \in SampledThreads :
    Matches(Leaves(output_time_ordered[t]), output_time_ordered[t], history[t])

(* No region begins before the start, so the unsigned subtraction of        *)
(* client.cpp:170 does not wrap around, and no thread has more time than   *)
(* has passed since.                                                       *)
NothingBeforeStart ==
  \A t \in SampledThreads :
    /\ \A k \in DOMAIN offcpu_regions[t] : offcpu_regions[t][k].timestamp >= StartTime
    /\ total_period[t] > 0 => total_period[t] <= now - StartTime
=============================================================================
