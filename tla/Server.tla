------------------------------- MODULE Server -------------------------------
(***************************************************************************)
(* Server::run and Server::interrupt: the accept loop of                   *)
(* adaptiveperf-server, the client threads it starts and joins, and a      *)
(* caller that may interrupt it at any time.  A client's session is        *)
(* module Client; here it is a thread that runs until it returns, throws a *)
(* ConnectionException or throws something else.                           *)
(***************************************************************************)
EXTENDS Integers, Sequences, FiniteSets

CONSTANTS
  MaxConnections, \* the values the constructor may be given for
                  \* max_connections; 0: serve one client, then stop
  MaxArrivals     \* bound: connections that ever arrive

ASSUME MaxConnectionsAssumption == MaxConnections \subseteq Nat
ASSUME MaxArrivalsAssumption == MaxArrivals \in Nat

VARIABLES
  max_connections, \* Server::max_connections
  pc,              \* where the thread in Server::run is
  interrupted,     \* Server::interrupted
  arrivals,        \* connections accepted so far
  late,            \* history: those of them accepted after interrupt()
  threads,         \* status of each client thread, in index order
  next,            \* index of the counting loop and of the join loop
  working_count,
  running_at_accept \* history: clients running when accept() returned

admission == <<max_connections, arrivals, late, running_at_accept>>
vars == <<admission, pc, interrupted, threads, next, working_count>>

Finished == {"returned", "connection_error", "other_error"}
ThreadStates == {"running"} \cup Finished
ServerPcs == {"loop", "accept", "count", "decide", "refuse", "join",
              "unwind", "returned", "threw"}

Indices == 1..Len(threads)
Running == {i \in Indices : threads[i] = "running"}

LimitOffByOne == max_connections + 1
(* std::max(1U, max_connections) *)
Limit == IF max_connections = 0 THEN 1 ELSE max_connections

(* The constructor and the first lines of run(). *)
Init ==
  /\ max_connections \in MaxConnections
  /\ pc = "loop" /\ interrupted = FALSE /\ arrivals = 0 /\ late = 0
  /\ threads = <<>> /\ next = 1
  /\ working_count = 0 /\ running_at_accept = 0

IgnoreInterrupt == TRUE
MayContinue == ~interrupted

(* while (!interrupted) *)
CheckInterrupted ==
  /\ pc = "loop"
  /\ pc' = IF MayContinue THEN "accept" ELSE "join"
  /\ next' = 1
  /\ UNCHANGED <<admission, interrupted, threads, working_count>>

(* accept() blocks until somebody connects. *)
FreshCount == 0
AcceptConnection ==
  /\ pc = "accept"
  /\ arrivals < MaxArrivals
  /\ arrivals' = arrivals + 1
  /\ late' = late + (IF interrupted THEN 1 ELSE 0)
  /\ running_at_accept' = Cardinality(Running)
  /\ working_count' = FreshCount
  /\ next' = 1
  /\ pc' = "count"
  /\ UNCHANGED <<max_connections, interrupted, threads>>

(* Counts only the thread it should not. *)
CountFinished(i) == IF threads[i] = "running" THEN 0 ELSE 1
(* wait_for(0ms) on one future: the other threads run on meanwhile. *)
CountWorking(i) == IF threads[i] = "running" THEN 1 ELSE 0

CountNext ==
  /\ pc = "count"
  /\ IF next <= Len(threads)
       THEN /\ working_count' = working_count + CountWorking(next)
            /\ next' = next + 1
            /\ UNCHANGED pc
       ELSE /\ pc' = "decide"
            /\ UNCHANGED <<working_count, next>>
  /\ UNCHANGED <<admission, interrupted, threads>>

(* "try_again"; the connection is closed as it goes out of scope. *)
Refuse ==
  /\ pc = "decide"
  /\ working_count >= Limit
  /\ pc' = "loop"
  /\ UNCHANGED <<admission, interrupted, threads, next, working_count>>

AfterAdmission == IF max_connections = 0 THEN "join" ELSE "loop"

(* A file acceptor, a client, a thread of its own. *)
Admit ==
  /\ pc = "decide"
  /\ working_count < Limit
  /\ threads' = Append(threads, "running")
  /\ pc' = AfterAdmission
  /\ next' = 1
  /\ UNCHANGED <<admission, interrupted, working_count>>

(* Writing "try_again" to a peer that has gone, making the file acceptor,  *)
(* or accept() itself: an exception leaves the loop, and with it run().    *)
LoopThrows ==
  /\ pc \in {"accept", "decide"}
  /\ pc' = "unwind"
  /\ UNCHANGED <<admission, interrupted, threads, next, working_count>>

(* threads[i].get(): a connection error is reported and forgotten. *)
JoinNext ==
  /\ pc = "join"
  /\ next <= Len(threads)
  /\ threads[next] \in {"returned", "connection_error"}
  /\ next' = next + 1
  /\ UNCHANGED <<admission, pc, interrupted, threads, working_count>>

JoinRethrows ==
  /\ pc = "join"
  /\ next <= Len(threads)
  /\ threads[next] = "other_error"
  /\ pc' = "unwind"
  /\ UNCHANGED <<admission, interrupted, threads, next, working_count>>

Return ==
  /\ pc = "join"
  /\ next > Len(threads)
  /\ pc' = "returned"
  /\ UNCHANGED <<admission, interrupted, threads, next, working_count>>

ThrowAtOnce == TRUE
(* The futures wait for their threads as the vector is destroyed. *)
NobodyRuns == Running = {}

Unwind ==
  /\ pc = "unwind"
  /\ NobodyRuns
  /\ pc' = "threw"
  /\ UNCHANGED <<admission, interrupted, threads, next, working_count>>

(* Server::interrupt, called by another thread. *)
Interrupt ==
  /\ ~interrupted
  /\ interrupted' = TRUE
  /\ UNCHANGED <<admission, pc, threads, next, working_count>>

(* Client::process of one client comes to its end. *)
ClientEnds(i, how) ==
  /\ i \in Running
  /\ threads' = [threads EXCEPT ![i] = how]
  /\ UNCHANGED <<admission, pc, interrupted, next, working_count>>

RunStep ==
  \/ CheckInterrupted
  \/ CountNext \/ Refuse \/ Admit
  \/ JoinNext \/ JoinRethrows \/ Return \/ Unwind

Next ==
  \/ RunStep
  \/ AcceptConnection
  \/ LoopThrows
  \/ Interrupt
  \/ \E i \in Indices, how \in Finished : ClientEnds(i, how)

Spec == Init /\ [][Next]_vars

(* The thread in run() and every client's thread are scheduled, and every  *)
(* client's session ends.                                                  *)
ClientEndsEventually(i) == \E how \in Finished : ClientEnds(i, how)

FairSpec ==
  /\ Spec
  /\ WF_vars(RunStep)
  /\ \A i \in 1..MaxArrivals : WF_vars(i \in Indices /\ ClientEndsEventually(i))

-----------------------------------------------------------------------------
(* Properties. *)

(* Type invariant. *)
TypeOK ==
  /\ max_connections \in MaxConnections
  /\ pc \in ServerPcs
  /\ interrupted \in BOOLEAN
  /\ arrivals \in 0..MaxArrivals
  /\ late \in 0..arrivals
  /\ threads \in Seq(ThreadStates)
  /\ Len(threads) <= arrivals
  /\ next \in Nat \ {0}
  /\ working_count \in 0..Len(threads)
  /\ running_at_accept \in 0..MaxArrivals

Slots == IF max_connections > 1 THEN max_connections ELSE 1

(* "A maximum number of simultaneous connections to be handled by the      *)
(* server" (server.cpp:17-20), whatever finishes while the threads are     *)
(* being counted (server.cpp:57-75).                                       *)
SlotsRespected == Cardinality(Running) <= Slots

(* "Use 0 to finish after the first connection is completed"               *)
(* (server.cpp:19-20): one client is served and no other ever accepted.    *)
SingleShot == max_connections = 0 => arrivals <= 1

(* The two meanings of the limit together.                                  *)
LimitRespected == SlotsRespected /\ SingleShot

(* A frontend is told to try again only if the server was full when its    *)
(* connection was accepted, although clients may end during the count      *)
(* (server.cpp:57-65).                                                     *)
RefusedOnlyWhenFull ==
  pc = "decide" /\ working_count >= Limit => running_at_accept >= Slots

(* However run() ends, no client thread is left: it would use its Client   *)
(* after the vector that owns it is gone (server.cpp:50-51, 83-99).        *)
NoClientLeftBehind == pc \in {"returned", "threw"} => Running = {}

(* What interrupt() comes to (server.cpp:53-55, 108-110): the connection   *)
(* run() may be waiting for is still accepted, and no further one.         *)
OneLateConnection == late <= 1

(* "After calling interrupt(), no new initial connections will be          *)
(* accepted" (server.cpp:105).                                             *)
NoneAcceptedAfterInterrupt == late = 0

(* An interrupted server that is not blocked in accept() comes to its end: *)
(* it finishes its clients and waits for no other (server.cpp:53, 83-92,   *)
(* 105-106).                                                               *)
InterruptEnds ==
  interrupted /\ pc # "accept" ~> pc \in {"returned", "threw"}

-----------------------------------------------------------------------------
(* The inductive invariant behind the safety properties. *)

(* Every connection was counted before it became a thread. *)
ArrivalInv == pc \in {"count", "decide"} => Len(threads) < arrivals

(* The count half done: of the threads looked at no more are running than  *)
(* were counted, and those counted and those still to come are no more     *)
(* than were running when the connection was accepted.                     *)
LookedAt == {i \in Running : i < next}
ToCome   == {i \in Running : i >= next}

CountInv ==
  /\ pc = "count" =>
       /\ next <= Len(threads) + 1 /\ working_count < next
       /\ Cardinality(LookedAt) <= working_count
       /\ working_count + Cardinality(ToCome) <= running_at_accept
  /\ pc = "decide" =>
       /\ Cardinality(Running) <= working_count
       /\ working_count <= running_at_accept

(* Whoever has been joined has ended. *)
JoinInv ==
  pc = "join" => \A i \in Indices : i < next => threads[i] # "running"

SingleShotInv ==
  max_connections = 0 =>
    /\ arrivals <= 1
    /\ pc \in {"loop", "accept"} => arrivals = 0
    /\ pc \in {"loop", "accept", "count", "decide"} => threads = <<>>

LateInv ==
  /\ late <= 1
  /\ pc = "accept" \/ ~interrupted => late = 0

ServerInv ==
  /\ TypeOK
  /\ ArrivalInv /\ CountInv /\ JoinInv /\ SingleShotInv /\ LateInv
  /\ SlotsRespected /\ NoClientLeftBehind
=============================================================================
