----------------------------- MODULE ThreadTree -----------------------------
(***************************************************************************)
(* The thread tree: the events of threads as                               *)
(* adaptiveperf-syscall-process.py reports them, what StdSubclient::process *)
(* notes down of each ("syscall_meta"), and the list of threads it makes   *)
(* of its notes after <STOP>.                                              *)
(*                                                                         *)
(* The line of an event is handled in the step in which the event happens: *)
(* one stream carries them all, in order, and nothing else touches the     *)
(* notes.  The kernel may lose events, and may use a thread number again.  *)
(* Call chains of the creating thread ("syscall") are data.                *)
(***************************************************************************)
EXTENDS Integers, Sequences, FiniteSets, Functions

CONSTANTS
  Tids,         \* thread numbers
  FirstTid,     \* the profiled command's first thread
  Comms,        \* command names
  FirstComm,    \* the name it starts with
  MaxClock,     \* bound on the clock
  MaxMetas,     \* bound on the number of events
  MaxLost,      \* bound on the number of events lost
  MaxReused,    \* bound on the number of thread numbers used again
  IntBits,      \* width of an int
  InsertionLimit \* up to this length std::sort keeps the order of equals

ASSUME TidsAssumption ==
  FirstTid \in Tids /\ FirstComm \in Comms /\ {"root", "unknown"} \cap Tids = {}
ASSUME WidthAssumption == IntBits \in Nat \ {0}
(* Arithmetic that holds of any width but that the provers know nothing of. *)
ASSUME PowersAssumption ==
  2^(IntBits - 1) \in Nat \ {0} /\ 2^IntBits = 2 * 2^(IntBits - 1)
ASSUME LimitsAssumption == MaxClock \in Nat /\ InsertionLimit \in Nat

VARIABLES
  clock, metas, lost,  \* time, events and lost events so far
  thread,     \* each thread: its life, its name, the time of its last event
  reused,     \* thread numbers used again
  tree, added_list, name_time_dict, exit_time_dict, \* notes of the subclient
  next_added, \* the next entry of the sorted list; 0 before <STOP>
  shown       \* the result, in order: threads, their parents and names

worldVars == <<clock, metas, lost, thread, reused>>
noteVars  == <<tree, added_list, name_time_dict, exit_time_dict>>
resultVars == <<next_added, shown>>
treeVars  == <<worldVars, noteVars, resultVars>>

Root == "root"        \* tree[tid] = ""
Unknown == "unknown"  \* no entry in tree

TreeInit ==
  /\ clock = 0 /\ metas = 0 /\ lost = 0 /\ reused = {}
  /\ thread = [t \in Tids |-> [life |-> IF t = FirstTid THEN "alive" ELSE "unborn",
                               comm |-> FirstComm, last |-> 0]]
  /\ tree = [t \in Tids |-> Unknown]
  /\ added_list = <<>>
  /\ name_time_dict = [t \in Tids |-> <<>>]
  /\ exit_time_dict = [t \in Tids |-> {}]
  /\ next_added = 0 /\ shown = <<>>

-----------------------------------------------------------------------------
(* A line of type "syscall_meta".                                           *)

Named(dict, tid, comm, time) ==
  [dict EXCEPT ![tid] = Append(@, [comm |-> comm, time |-> time])]

(* The thread an event comes from is a root if it has not been heard of. *)
FirstHeard(tid) == tree[tid] = Unknown

NoteSelf(tid, comm, time) ==
  [tree  |-> IF FirstHeard(tid) THEN [tree EXCEPT ![tid] = Root] ELSE tree,
   added |-> IF FirstHeard(tid)
             THEN Append(added_list, [time |-> time, tid |-> tid]) ELSE added_list,
   names |-> IF FirstHeard(tid)
             THEN Named(name_time_dict, tid, comm, time) ELSE name_time_dict]

Parented(self, tid, comm, time, ret) ==
  /\ tree' = [self.tree EXCEPT ![ret] = tid]
  /\ name_time_dict' = Named(self.names, ret, comm, time)
  /\ UNCHANGED exit_time_dict

Added(self, time, ret) ==
  IF self.tree[ret] = Unknown THEN <<[time |-> time, tid |-> ret]>> ELSE <<>>

NewProcChildFirst(tid, comm, time, ret) ==
  LET self == NoteSelf(tid, comm, time)
  IN  /\ added_list' = IF FirstHeard(tid)
                       THEN added_list \o Added(self, time, ret)
                              \o <<[time |-> time, tid |-> tid]>>
                       ELSE added_list \o Added(self, time, ret)
      /\ Parented(self, tid, comm, time, ret)
NewProc(tid, comm, time, ret) ==
  LET self == NoteSelf(tid, comm, time)
  IN  /\ added_list' = self.added \o Added(self, time, ret)
      /\ Parented(self, tid, comm, time, ret)

Execve(tid, comm, time) ==
  LET self == NoteSelf(tid, comm, time)
  IN  /\ tree' = self.tree /\ added_list' = self.added
      /\ name_time_dict' = IF FirstHeard(tid) THEN self.names
                           ELSE Named(name_time_dict, tid, comm, time)
      /\ UNCHANGED exit_time_dict

Exit(tid, comm, time) ==
  LET self == NoteSelf(tid, comm, time)
  IN  /\ tree' = self.tree /\ added_list' = self.added
      /\ name_time_dict' = self.names
      /\ exit_time_dict' = [exit_time_dict EXCEPT ![tid] = {time}]

-----------------------------------------------------------------------------
(* What threads do; perf may lose the event.                                *)

(* Events come in time order (--sorted-stream, profilers.cpp:126); only     *)
(* events of different threads may share a time.                           *)
Happens(tid, time) ==
  /\ next_added = 0 /\ metas < MaxMetas
  /\ thread[tid].life = "alive"
  /\ time >= clock /\ time > thread[tid].last
  /\ clock' = time /\ metas' = metas + 1

Told(handled) ==
  \/ handled /\ UNCHANGED lost
  \/ lost < MaxLost /\ lost' = lost + 1 /\ UNCHANGED noteVars

ForkEvent(tid, time, child) ==
  /\ Happens(tid, time)
  /\ thread[child].life # "alive"
  /\ thread[child].life = "gone" => /\ Cardinality(reused) < MaxReused
                                   /\ time > thread[child].last
  /\ reused' = IF thread[child].life = "gone" THEN reused \cup {child} ELSE reused
  /\ thread' = [thread EXCEPT ![tid].last = time,
                  ![child] = [life |-> "alive", comm |-> thread[tid].comm, last |-> time]]
  /\ Told(NewProc(tid, thread[tid].comm, time, child))
  /\ UNCHANGED resultVars

(* syscalls:sys_exit_execve: the thread bears its new name already. *)
ExecveEvent(tid, time, comm) ==
  /\ Happens(tid, time)
  /\ thread' = [thread EXCEPT ![tid].comm = comm, ![tid].last = time]
  /\ Told(Execve(tid, comm, time))
  /\ UNCHANGED <<reused, resultVars>>

ExitEvent(tid, time) ==
  /\ Happens(tid, time)
  /\ thread' = [thread EXCEPT ![tid].life = "gone", ![tid].last = time]
  /\ Told(Exit(tid, thread[tid].comm, time))
  /\ UNCHANGED <<reused, resultVars>>

-----------------------------------------------------------------------------
(* After <STOP>.                                                            *)

(* std::sort: equal times are sure to keep their order in a short list only. *)
SortedBy(s, p) ==
  \A i, j \in DOMAIN s : i < j =>
    /\ s[p[i]].time <= s[p[j]].time
    /\ s[p[i]].time = s[p[j]].time /\ Len(s) <= InsertionLimit => p[i] < p[j]

Stop ==
  /\ next_added = 0
  /\ next_added' = 1
  /\ \E p \in Bijection(DOMAIN added_list, DOMAIN added_list) :
       /\ SortedBy(added_list, p)
       /\ added_list' = [i \in DOMAIN added_list |-> added_list[p[i]]]
  /\ UNCHANGED <<worldVars, tree, name_time_dict, exit_time_dict, shown>>

(* dominant_name_time is an int: a longer interval is cut to its width, and *)
(* compared with an unsigned number it counts as larger than any if it is  *)
(* negative then.                                                          *)
ToInt(x) == ((x + 2^(IntBits - 1)) % 2^IntBits) - 2^(IntBits - 1)
Exceeds(interval, dominant) ==
  dominant >= 0 /\ (interval > dominant \/ interval < 0)

Dominant(names) ==
  LET interval(i) == names[i].time - names[i - 1].time
      best[i \in DOMAIN names] ==
        IF i = 1 THEN [index |-> 1, time |-> 0]
        ELSE IF Exceeds(interval(i), best[i - 1].time)
             THEN [index |-> i - 1, time |-> ToInt(interval(i))]
             ELSE best[i - 1]
  IN  best[Len(names)]

(* The last name lasts until the exit; without one it is taken.            *)
NameOnly(k) == name_time_dict[k][Dominant(name_time_dict[k]).index].comm
NameShown(k) ==
  LET names == name_time_dict[k]
      last  == Len(names)
  IN  IF \A exit \in exit_time_dict[k] :
           Exceeds(exit - names[last].time, Dominant(names).time)
      THEN names[last].comm ELSE NameOnly(k)

Listed == {shown[i].tid : i \in DOMAIN shown}

(* A thread whose parent has not been listed is left out.                  *)
ListNext ==
  /\ next_added \in DOMAIN added_list
  /\ LET k == added_list[next_added].tid
     IN  shown' = IF tree[k] \in Listed \cup {Root}
                  THEN Append(shown, [tid |-> k, parent |-> tree[k], name |-> NameShown(k)])
                  ELSE shown
  /\ next_added' = next_added + 1
  /\ UNCHANGED <<worldVars, noteVars>>

TreeNext ==
  \/ \E tid \in Tids, time \in 1..MaxClock :
       \/ \E child \in Tids : ForkEvent(tid, time, child)
       \/ \E comm \in Comms : ExecveEvent(tid, time, comm)
       \/ ExitEvent(tid, time)
  \/ Stop
  \/ ListNext

TreeSpec == TreeInit /\ [][TreeNext]_treeVars

-----------------------------------------------------------------------------
(* Properties.                                                              *)

AllListed == next_added > Len(added_list) /\ next_added > 0

(* A long list in which a thread shares its time with its parent. *)
Shuffled(k) ==
  /\ Len(added_list) > InsertionLimit
  /\ \E i, j \in DOMAIN added_list :
       /\ added_list[i].time = added_list[j].time
       /\ added_list[i].tid = k /\ added_list[j].tid = tree[k]

(* Whatever events are lost, a thread that was heard of is in the result    *)
(* once, under its parent, if its parent is (subclient.cpp:319, 350-356).  *)
(* It can be left out only if its number was used again, which moves it    *)
(* under a parent it is older than, or if a parent that was first heard of *)
(* by this very fork is sorted behind it, which needs a list longer than   *)
(* std::sort sorts by insertion.                                           *)
KnownThreadsListed ==
  AllListed => \A k \in Tids :
    /\ tree[k] \notin {Unknown, Root} => tree[tree[k]] # Unknown
    /\ Cardinality({i \in DOMAIN shown : shown[i].tid = k}) <= 1
    /\ tree[k] \in Listed \cup {Root} /\ k \notin reused /\ ~Shuffled(k) => k \in Listed

(* How long a thread was known under each of its names; the last one lasts  *)
(* until it ends.                                                          *)
Lasted(k, i) ==
  LET names == name_time_dict[k]
  IN  IF i < Len(names) THEN names[i + 1].time - names[i].time
      ELSE IF exit_time_dict[k] = {} THEN MaxClock + 1
      ELSE (CHOOSE exit \in exit_time_dict[k] : TRUE) - names[i].time

(* A thread is shown under the name it was known by for the longest time    *)
(* without a change (subclient.cpp:363-378), if every change came within   *)
(* the range of an int, about two seconds.                                 *)
LongestNameShown ==
  \A s \in DOMAIN shown :
    LET k == shown[s].tid
        names == name_time_dict[k]
    IN  /\ k \notin reused
        /\ \A i \in 1..(Len(names) - 1) : Lasted(k, i) < 2^(IntBits - 1)
        => \E i \in DOMAIN names : /\ names[i].comm = shown[s].name
                                   /\ \A j \in DOMAIN names : Lasted(k, j) <= Lasted(k, i)
=============================================================================
