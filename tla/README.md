# A TLA+ model of AdaptivePerf

AdaptivePerf profiles a command with `perf`: a *frontend* (`adaptiveperf`) starts
the command behind a wrapper process, starts one *profiler* per event, and a
*server* (`adaptiveperf-server`, or a thread inside the frontend) receives what
the profilers see over one connection per stream, merges it and saves it.  This
directory holds the specifications of its concurrent core, the TLC runs that
check them and the proofs of the main ones.

Source paths below are relative to `src/`; `client.cpp` means
`src/server/client.cpp`, and so on.

## 1. The system

| component | state it keeps | operations | talks to |
|---|---|---|---|
| `StdClient` (`server/client.cpp`) | `accepted` under `accepted_mutex`, `profile_start`, `profile_start_tstamp`, the subclients and their futures, the merged JSON | `process`, `notify`, `get_profile_start_tstamp` | the frontend (control connection), its subclients (threads, callbacks) |
| `StdSubclient` (`server/subclient.cpp`) | what its stream has told: threads, samples, event type, whether the start was seen | `process`, `get_result` | one perf-script (stream), its client (`notify`, `get_profile_start_tstamp`) |
| `Server` (`server/server.cpp`) | `interrupted`, the clients and their futures | `run`, `interrupt` | every frontend (accept), its clients |
| frontend, `start_profiling_session` (`profiling.cpp`) | where the session is; the wrapper, the profilers, the control connection | one long function | everybody |
| `Perf` (`profilers.cpp`) | perf-record, perf-script, the generic connection, the watcher thread | `start`, `wait`, `get_thread_count` | its two children, the frontend |
| `Process` (`process.cpp`) | pid, pipes, `started`/`notifiable`/`writable` | `start`, `notify`, `join`, `is_running`, `close_stdin`, destructor | the kernel |
| scripts (`scripts/*.py`) | streams, the stream of each thread, sources and symbol maps | `trace_begin`, `process_event`, `trace_end` | subclients (streams), frontend (generic pipe) |
| line reader (`server/socket.cpp`) | buffer, queued lines | `read(timeout)` | whoever writes |
| acceptors, raw reads and writes (`server/socket.cpp`) | ports and pipes | `accept`, `write` | |
| `ServerConnInstrs`, `CPUConfig`, `get_cpu_config` (`profiling.cpp`) | a queue of connection instructions; CPU sets | | |
| requirements (`profiling.hpp`, `requirements.cpp`), `main_entrypoint` | the answers of the checks, kept by type; the cores chosen | `Requirement::check`, `get_cpu_config` | the frontend, the profilers (`max_stack`) |
| `Archive`, `create_src_archive` (`archive.cpp`, `common.hpp`) | the entry being written, the numbers given to paths | `add_file`, `add_file_stream`, `close`, destructor | the source files, libarchive |
| output, `adaptiveperf-code` | | | not modelled, see 6 |

How a session goes:

```
frontend                     client                        subclient i / perf-script
 fork wrapper (blocked)
 start<N>, filename   ---->  make N subclients      ---->  accept ...
                      <----  instructions
 start profilers  ------------------------------------->   connect to every stream
 accept generic pipe  <---------------------------------   connect to the frontend
                             wait: accepted = N     <----  notify()
                      <----  start_profile
 warm-up, timestamp   ---->  store timestamp, flag
                      <----  tstamp_ack
 notify wrapper -> command runs, ends; join                events -> lines -> results
 wait for the watchers                                     <STOP> on every stream
                             join and merge 1..N
                      <----  profiling_finished            sources, <STOP> on the pipe
 drain generic pipes, addr2line pool
                      <----  finished
```

### What is hard about it

* **Threads.**  The client shares a counter, a flag and a timestamp with its
  subclients; only the counter is protected.  The client's lock lives to the end
  of `process()`.
* **Order.**  The command must not run before every stream is read; samples
  count only once the start of profiling is known; the merge goes through
  subclients in index order; one thread's samples must all use one stream.
* **Processes and descriptors.**  Pipes are made without `O_CLOEXEC`, so who
  sees the end of which pipe depends on the order of forks.  Three parties call
  `waitpid` for the wrapper.
* **Failure.**  Any party may exit, throw or be killed between any two steps.
* **Boundaries.**  Full pipes, a full buffer, the slot limit, a timeout in the
  middle of a line, the start of profiling, the width of an `int`, one core.
* **Data built piece by piece.**  Flame graphs are recoloured as samples pass;
  the list of threads is made of events that may be missing or share a time.

`PROJECT.json` lists each hazard at its line with the properties aimed at it.

### What makes each component correct

* client: the gate opens after all have arrived and not before; no thread that
  uses the client outlives `process()`; nobody waits for a lock that is never
  released; every thread that was sampled is listed;
* server: the limit holds, a refusal is deserved, an interrupt is heeded, no
  client thread is left behind;
* session: success means that everything sampled is saved, once; a failure is
  reported; a session ends;
* processes: every reader sees the end of its input; every child is waited for;
* line reader: the lines that come out are those that went in;
* results of a stream: every sample is counted once, on its own path, in its own
  colour and in its own order; every thread that was heard of is listed under
  the parent and name it had;
* archive: what its index names is in it and whole, whatever became of the files
  meanwhile; it is finished or an exception says why not;
* start: nothing runs on a machine that is not fit for it; cores and streams are
  shared out without one too few or too many.

## 2. The modules

| module | models | uses |
|---|---|---|
| `Rendezvous` | the abstract gate: open once, after all parties have arrived | |
| `Client` | `StdClient::process`, `notify`, `get_profile_start_tstamp` and the loop of `StdSubclient::process` | `Rendezvous` (as `Gate`, refinement) |
| `ClientProofs` | theorems about `Client` | `Client`, TLAPS |
| `Server` | `Server::run`, `Server::interrupt` | |
| `ServerProofs` | theorems about `Server` | `Server`, TLAPS |
| `Session` | a whole session: frontend, wrapper and command, perf-record, perf-script, watchers, composed with `Client` | `Client` |
| `SessionProofs` | theorems about `Session` | `Session`, `ClientProofs`, TLAPS |
| `FlameGraph` | the samples of one stream: `StdSubclient::recurse`, both flame graphs, off-CPU regions | |
| `ThreadTree` | the thread events of one stream: the notes the subclient takes and the list it makes of them after `<STOP>` | |
| `Subclient` | the two as what a `StdSubclient` does with its stream, by the script that writes it | `FlameGraph`, `ThreadTree` |
| `SubclientProofs` | theorems about `Subclient` | `Subclient`, TLAPS |
| `Children` | `Process`: forks, inherited pipe ends, waits, the addr2line pool | |
| `Startup` | what comes before and with the children: the choice of cores, the requirements, the streams handed to the profilers | `Children` (extended, composed) |
| `StartupProofs` | theorems about `Startup` and `Children` | `Startup`, TLAPS |
| `LineReader` | `Connection::read(timeout)` | |
| `LineReaderProofs` | theorems about `LineReader` | `LineReader`, TLAPS |
| `Transfer` | the files sent to a remote server: the frontend's loop over its files and the client's over announcements | |
| `TransferProofs` | theorems about `Transfer` | `Transfer`, TLAPS |
| `Archive` | `src.zip`: `create_src_archive` and the class `Archive`, among files that are edited and lost | |
| `ArchiveProofs` | theorems about `Archive` | `Archive`, TLAPS |
| `MCClient`, `MCSession`, `MCSubclient`, `MCTransfer` | instances for TLC; `MCSubclient` puts `LineReader` in front of `Subclient` | |

**Client.**  `pc` is the line at which `StdClient::process` is; every read,
write, lock, wait, store, merge and return is an action of that name, and each
subclient has its own `subpc`.  `mutex` is `accepted_mutex`; it is released
only inside `wait`, by an exception and by a return.  `StoresInOrder` says
whether the two stores of `client.cpp:96-97` become visible in program order;
they are plain members read without a lock, so the build leaves that open
(`FALSE`), and both are visible by the time the acknowledgement, a system call,
has been written.  Input comes from anybody: `ReadCommand`, `ReadTstamp`,
`ReadLine` and so on take every message of a small set.  `ThrowingPcs` are the
calls that may throw.  `samples`, `tree`, `tids`, `thread_tree` and
`final_output` keep of the JSON what the properties tell apart: how many samples
of a thread and event, and how many entries a thread has.  The bounds are
`CtlCap` (messages the control connection holds before `write` blocks) and
`MaxLines` (lines per stream).

**Session** extends `Client` and binds its inputs to what the other parties
really send: `toClient` is the control connection, `stream[i]` what perf-script
has written to subclient `i`.  A profiler `p` is a `recorder[p]`, a `script[p]`,
the pipe between them and a `watcher[p]`, the thread behind `Perf::process`.
The first profiler follows threads, the others sample.  `StreamFor` is
`event_stream_dict`, `NextIndex` the wrap-around of `next_index`.  In
`WatchRecord` and `WatchScript` the watcher refers to the parameter `pid` of a
function that has returned (`profilers.cpp:185` captures by reference), so what
`waitpid` and `kill` do to the wrapper is left open.  `CommandFails` is a wrapper
that exits with a code of its own instead of becoming the command (`process.cpp:
172-253`: a redirection, the CPU affinity or `execvpe` fails) and a command that
exits with an error; `CommandFailed` is what `join()` has then returned, which
`WaitProfiler` looks at once the profilers have been waited for.  A command that
a signal ends counts as well done, since `join()` returns 0 for it.  The server
runs inside the frontend, and a script fails only after it has connected (before
that, `accept` on the generic pipe blocks for ever, `profilers.cpp:182`).

**Server.**  One step per iteration of the counting loop, so that clients end
between two looks.  `max_connections` is any value the constructor may get.
`late` counts connections accepted after `interrupt()`.

**Children.**  `holders[q]` is the set of processes that hold the write end of
pipe `q`; `Fork` copies the frontend's and lets either side close what the code
closes.  Making the pipes and forking are two steps, as the pool's threads
interleave between them.  `ReadsStdin` is `FALSE` in the runs: a command that
reads its standard input to the end never ends, because `perf-script` and
`perf-record` inherit that pipe too.  The acceptors' own pipes are not here:
their protocol ends with `<STOP>`, not with the end of the pipe.

**Startup** puts two phases in front of `Children` and the streams beside it;
`startup_pc` says which phase it is, and `Run(A)` lets an action of `Children`
happen once everything has been checked.  The machine (`num_proc`, `satisfied`,
`kernel_stack`) and the options (`post_process` is `-p`, `external` is `-a`) are
chosen at the start within what CLI11 lets through: `-p` is between 0 and
`max(1, cores - 3)` (`entrypoint.cpp:87-100`), and `-f -1`, which the help text
offers, is rejected by its own check, so it is no input here.  `Mask` is the
switch of `get_cpu_config` with the arm for `-p 0` in front of it, as in the
code; its arms for one to three cores can then never be reached with a valid
`-p`, whatever `entrypoint.cpp` says of `-a`.  `Check` keeps its answer by type
as `Requirement::check` does; `CheckInternal` is what the check of the kernel's
settings does besides answering, once, for the profiler that asked first.
`GetInstructions` is the first line of `Perf::start`: it takes as many numbers
from `methods` as the profiler has threads and throws if there are too few.

**FlameGraph.**  One action takes a sample from the stream, and then each call
of `recurse` is an action, first on the merged tree, then on the one in time
order: `callchain_index` and `cur_elem` are its arguments.  A tree is the
sequence of its elements in the order of creation, each with the position of its
parent, so that a reference to a JSON object is a position.  What perf may
report is `Reported`: in time order, without overlaps in a thread, and no thread
but the command's first exists before the start.  That the first thread's first
sample is the first of the stream rests on how the frontend works: the wrapper
sleeps from before perf attaches to it until it is released.
`history` keeps the samples for the properties, which say what can be read back
from a tree.

**ThreadTree.**  What threads do and the lines that tell of it are one step:
the stream that carries them is in order and nothing else touches the notes.
`Told` lets the kernel lose an event; `reused` are thread numbers used twice.
`Stop` sorts as `std::sort` may (`InsertionLimit`: up to that length the common
implementations keep the order of equal times), `ListNext` is one turn of the
loop over the sorted list, and `ToInt` and `Exceeds` are the conversion to `int`
and the comparison with an unsigned number in the search for the longest name.

**LineReader.**  `Receive(n)` is one return of `read`/`receiveBytes` with `n`
bytes and all the splitting that follows it; `Nth` is the order in which
`getline` comes upon the newlines, `NotEmpty` what it pushes.  A byte that is no newline is its
own position in the stream, which makes equality of lines tell where they are
from.

**Transfer.**  `Client` answers a file in one step; here the frontend
(`fpc`, `profiling.cpp:843-1029`) and the client (`pc`, `client.cpp:206-312`)
each take a step per call.  `toClient` and `toFrontend` are the control
connection, `backlog` the connections that queue at the file acceptor, and
`open`, `conn` say which end of a data connection is still open.  A file is a
kind and a number of packets; `stored[f]` remembers of which connection each
packet on the disk came, and an answer of which file it is, so that getting out
of step would show.  `SendFails` is what a write to a connection the client has
given up does for each kind of file.  At most one of `Faults` happens; delays,
and with them `TimeOut`, are always possible.  `ServerExits` is a choice: a
server for one client ends when its client's thread throws, another goes on and
keeps the connection.

**Archive.**  A step per look at the file system and per piece that is written:
`OpenFile` is a turn of the loop of `create_src_archive` as far as the stream is
open, `WriteFileHeader` the second look at the file (`archive.cpp:130`), `Copy`
one piece, `Pad` one turn of the loop that fills an entry with zeroes.  Between
any two of them somebody may change a file, remove it or put it out of reach
(`Lose`); an open stream still reads to the file's end, but `fs::exists`,
`fs::is_regular_file` and `fs::file_size` ask the path, and throw a
`filesystem_error` if its directory may not be searched (`Hidden`), the last one
also if the file is gone.  Contents count by
their length.  `excess` is by how much `add_file_stream` is asked for more than
its stream has; its only caller asks for none.  `WriteFails` is libarchive's
fatal error, `Short` its refusal to take more than was announced.  `Destroy` is
what an exception does to the archive: without a fatal error libarchive finishes
it as it is freed, and it can be read.  `reported` is where the handlers of
`profiling.cpp:951-960` take over, `unwound` where they do not and the session
ends.

Definitions next to an operator that no action uses (`AllButOneAccepted`,
`IgnoreInterrupt`, `NoWait` ...) are mutations: plausible errors in the code
that the properties must detect when put in the operator's place.  The
properties they break are in `PROJECT.json` under `mutants`.

## 3. The runs

| run | instance | what it shows |
|---|---|---|
| `client_safety` | 2 subclients, 2 threads, 2 events, 2 lines a stream, files, all error paths, both store orders | `TypeOK`, `NotifierNeverShutOut`, `NoOrphanSubclient`, `SampledThreadListed`, `TimedAfterAck`; `Client` implements `Rendezvous` |
| `stream` | a stream from bytes to lines (a buffer of 3 bytes, 8 bytes sent) or from lines to results (4 samples of 2 threads, or 4 events of 3 threads) | `ExactLines`, `EndIsEnd`; `HotColdUnique`, `PathsAddUp`, `ColoursTrue`, `ReadsBackInOrder`, `NothingBeforeStart`; `KnownThreadsListed`, `LongestNameShown` |
| `server` | limits 0, 1 and 2, four connections | `LimitRespected`, `RefusedOnlyWhenFull`, `NoClientLeftBehind`, `OneLateConnection`, `InterruptEnds` |
| `server_interrupt` | limit 1 | **violated**: a connection is accepted after `interrupt()` |
| `session_safety` | 2 profilers, 3 streams, 2 threads, 2 samples | `SuccessIsComplete`, `RunsOnlyWhenArmed` |
| `session_live` | 2 profilers, 2 streams, at most one fault, of a profiler or of the command | `FailureReported`, `NothingLeftBehind`, `SessionEnds`, `GateOpens` |
| `session_full_pipe` | the same, a pipe one message too small | **violated**: the session hangs |
| `children` | `Startup`: up to 5 cores with every `-p`, 2 profilers, 3 addr2line jobs, the session may be abandoned, a perf-script may fail | `PerfPipePrivate`, `NoChildLeft`, `CoresFit`, `EveryStreamTaken`, `NothingStartedUnfit`, `StartedSessionEnds` |
| `children_give_up` | `Children`: 1 profiler, no job | **violated**: an abandoned session hangs |
| `startup_stack` | `Startup`: 4 cores, 2 profilers, stacks of 2048 | **violated**: the second profiler keeps the default depth |
| `archive` | 2 source files of up to 3 bytes, edited, removed and hidden up to twice, a buffer of 2 bytes, 0 to 3 zeroes missing | `IndexTrue`, `NothingCut`, `ReportedUnlessLost`, `ArchiveEnds` |
| `transfer` | 4 files of 2 packets, one with a list of sources or an archive, at most one fault, any delay | `InStep`, `SilenceIsSuccess`, `HeldUntimedOnly`, `TransferEnds` |

`TypeOK` is checked where the module is largest; of `Server` and `Transfer` it
is proved (`ServerTypeCorrect`, and `ShapeInv` of `Invariance`).

The bounds.  Two subclients are enough for one to be early and one late at every
point of the client and of the gate, whose proof is for any number.  A sampler with two
streams is the smallest in which a thread's samples could be split, and two
threads and two samples the smallest in which they would be.  Four connections
fill two slots, find them full and come back after one was freed.  Two profilers
let the second inherit from the first; three binaries let a pool thread be
reused.  A buffer of three bytes and eight bytes of input have lines shorter
than the buffer, as long, twice as long and unfinished, and several in a piece.
Five cores are the fewest of which two are left to the system, two can
be the profilers' and one the command's, and every number below is a case of its
own.  In `stream`, four samples on a clock that starts at 2 and ends at 5 are
enough for one that reaches back beyond the start and for a path that is hot,
cold and interrupted; chains of one and two frames with a common first
let an element have children and time of its own.  Four events and three threads
let a parent be lost, be younger than its child and share its time; `int`s of
two bits and an insertion limit of two are scaled down with the clock and the
list.  Each exception that a property names occurs.
Four files put one that fails, of each kind, before others that must not suffer
from it; two packets are the least that can be cut in the middle.
Two source files have two numbers to mix up; three bytes and a buffer of two
take a whole and a partial piece, and with two edits a file can grow and shrink
or change and go.  Two zeroes fit the buffer, three do not.
`CHECK_DEADLOCK FALSE` is set in every run: client, server, session and
reader come to an end, and TLC would take that for a deadlock; that they come to
an end where they should is what the liveness properties say.

### The four violated runs

1. `profiling.hpp:53-61` against `requirements.cpp:48-49`: the answer of a
   requirement is kept by type, so only the first profiler's `max_stack` is
   written; every other keeps the 1024 it was made with, however deep the
   kernel's stacks are.
2. `server.cpp:53-55` against `server.cpp:105`: `interrupt()` does not stop
   the connection `run()` is already waiting for.  `OneLateConnection` is the
   promise the code keeps.
3. `profiling.cpp:474` against `profiling.hpp:159`: the frontend waits for
   perf-script to exit before it reads what perf-script is blocked on writing.
   A capacity of 2 messages (everything fits) passes in `session_live`, one of 1
   hangs; in bytes, the limit is a pipe's capacity.
4. `process.cpp:106` with `profiling.cpp:566-607` against
   `profiling.cpp:289-292`: an early return destroys the wrapper's `Process`,
   which waits for a wrapper that waits for the end of a pipe whose write end
   perf-script and perf-record hold.  If no profiler has been started yet the
   same early return ends well (`StartedSessionEnds`, whose other exception is
   `HeldByWrapper`).

### Limits found and kept in the properties

* `client.cpp:96-97` stores the flag and the timestamp without a lock, and a
  subclient may see the one before the other.  `client_safety` runs with both
  orders; what depends on the order is proved under `StoresInOrder`
  (`PublishedStartTheorem`).
* `accept()` on the generic pipe has no timeout, and the frontend holds the
  pipe's write end itself: a perf-script that ends before it says "connect"
  holds the session up for ever (`profilers.cpp:182`), the exception
  `HeldInAccept` of `StartedSessionEnds`.
* The longest time under a name is kept in an `int` (`subclient.cpp:364`): from
  2^31 ns on it wraps around, and a negative maximum beats all that follows.
  `LongestNameShown` claims nothing beyond.
* A thread whose number was used again, or that shares its time with its parent
  in a list too long for an insertion sort, may be missing from the list with
  all below it: the exceptions of `KnownThreadsListed`.
* The zeroes of the next piece are what is missing modulo the buffer's size plus
  one (`archive.cpp:213`).  If more are missing than the buffer holds, what is
  left after one piece is a multiple of that number and the loop writes nothing
  for ever, against `archive.hpp:75-77`: the exception of `ArchiveEnds`.  Nobody
  asks for padding yet, since `common.hpp:24` passes the exact length.
* A source file that is removed between the looks at `archive.cpp:113` and
  `archive.cpp:130`, or whose directory may not be searched at any of them, ends
  the session with a `filesystem_error` nobody catches: the exceptions that
  `ReportedUnlessLost` names.
* A perf-record that a signal ends is taken for a good end (`process.cpp:347`),
  so `FailureReported` leaves it out; `session_live` has it happen.
* If accept() of a stream throws nobody wakes the client (`subclient.cpp:145`):
  `GateOpens` assumes that every stream is connected.
* A file that shrinks while it is read leaves an entry shorter than announced,
  and the exception of an archive that failed half way leaves one that can be
  read: `NothingCut` and `IndexTrue` say what may still be relied on.
* An element of the merged flame graph that has off-CPU time of its own and
  then gets a hot child is recoloured (`subclient.cpp:21-23`), so a hot element
  with children may show off-CPU time: `ColoursTrue` claims colours for leaves
  and cold elements.

Three properties of `Transfer` name what the code does not give.  A client waits
without a timeout for the connection of an announced file (`client.cpp:243`)
and for the lines of `code_paths.lst` (`client.cpp:252`), so a frontend
that stalls or dies there keeps the slot (`HeldUntimedOnly`);
if `src.zip` cannot be made on the server no answer is sent and the frontend
waits for it (`TransferEnds`, `client.cpp:262`); and what is lost as an
output stream is closed is acknowledged like the rest (`SilenceIsSuccess`).

### Fairness

Weak fairness of a thread's own steps: the operating system schedules every
thread that can run.  For the mutex, strong fairness: it may be taken and
released many times, and a waiting thread gets it in the end.  In `Session`,
`Children` and `Startup` every process is scheduled and the profiled command is assumed to
end, as is each client's session in `Server`.  Nothing is assumed of input: no
frontend needs to connect, no peer to send, no failure to happen or not; no
fairness is put on the frontend of `Transfer` (`TransferEnds` assumes it in its
own statement), on `AcceptConnection` of the server, on the peer of the line
reader or on `SpuriousWakeup`.  `GateOpens` assumes in its own statement that
the subclients are connected.  In `Archive` the thread that makes the archive is
scheduled; nobody has to change a file and no write has to fail.

## 4. What is proved

`ClientProofs`, for every number of subclients, threads, events, lines and
capacities (assumption `SubclientCnt \in Nat \ {0}` and the typing assumptions in
`Client`):

* `TypeCorrect`: `Spec => []TypeOK`.
* `Invariance`: `Spec => []SessionInv`.  `SessionInv` is a conjunction of named
  parts: `accepted` is the number of subclients past the increment
  (`CountInv`); who holds the mutex when (`MutexInv`); the gate is passed only
  when all have arrived (`GateInv`); a subclient is unborn only before the
  spawning loop ends (`BirthInv`); the joined ones have ended (`JoinInv`);
  which stores are visible at which point (`PublishInv`, `OrderInv`); what is
  merged is listed, as often as the streams merged so far account for
  (`ListInv`); and `NoOrphanSubclient`.  None of the
  properties is inductive alone: that the lock kept after the gate shuts nobody
  out needs that `accepted` counts exactly the arrived, which needs that nobody
  is born twice, and so on.
* `NotifierNeverShutOutTheorem`, `NoOrphanSubclientTheorem`,
  `SampledThreadListedTheorem`, `TimedAfterAckTheorem`, each from `Invariance`;
  `PublishedStartTheorem` under `StoresInOrder`.
* `ImplementsRendezvousTheorem`: `Client` implements `Rendezvous` under the
  mapping `arrived <- Arrived` (connected and counted), `open <- announced`.

`ServerProofs`, for every limit and any number of connections:

* `ServerTypeCorrect`, `LimitRespectedTheorem`, `RefusedOnlyWhenFullTheorem`,
  `NoClientLeftBehindTheorem` and
  `OneLateConnectionTheorem`, from `ServerInvariance`.  The inductive invariant
  `ServerInv` relates the half-done count to the moment (`CountInv`): of the
  threads already looked at no more are running than were counted, and those
  counted together with those still to come are no more than were running when
  `accept` returned, because clients end, and none begins, while `run()` counts.
  `LookMoves` and `EndShrinks` say what one look and one end do to those sets.

`TransferProofs`, for any number of files of any length and every fault:

* `InStepTheorem` and `SilenceIsSuccessTheorem`, from `Invariance`.  The
  inductive invariant `TransferInv` has types and bounds (`ShapeInv`), that
  whatever is queued or held belongs to the current file (`PairInv`), how far
  the client can be from the frontend at each of its points (`PhaseInv`), and
  what is stored: nothing of a file not begun, the packets read of the one under
  way, all of one that was acknowledged (`StoreInv`).  Neither theorem is
  inductive alone: that the connection accepted is the right one rests on no
  earlier one having been left in the queue, which rests on every path that
  answers having accepted first.

`SessionProofs`, for any number of profilers, streams and threads and every fault:

* `SessionIsClient`: `SessionSpec => Spec`.  A step of the session is one of the
  client or leaves its variables alone, because what flows from perf-record
  through perf-script to the streams are lines (`FlowInv`).  So all that is
  proved of `Client`, whoever feeds it, holds in a session.
* `RunsOnlyWhenArmedTheorem`.  Streams are given to one profiler each and only
  those are connected (`StreamsInv`); a `tstamp_ack` under way means that the
  start is stored and every subclient counted (`AckInv`), and the wrapper is
  released by nothing else (`ArmInv`).  The client's part comes from
  `SessionInv` of `ClientProofs`.
* `FailureReportedTheorem`.  Nothing of a profiler is there before its turn
  (`TurnInv`), a watcher is content only with processes that ended well
  (`VerdictInv`), and success is returned only when every watcher is content
  and the command has not failed (`WaitInv`), which it can no longer do once it
  has been joined (`ReapedInv`).
* `NothingLeftBehindTheorem`.  That a pipe is empty is a matter of its end mark:
  it is sent once and last, and whoever waits for it has then read all that was
  sent (`StopInv` for the streams, `GenericInv`, `PipeInv` for the pipe between
  the two processes of a profiler); `FinishInv` says which of the waits lie
  behind a session that returns 0.
* `SuccessIsCompleteTheorem`, if no two profilers sample the same event
  (`OneProfilerPerEvent`: the merge stores the result of a stream under thread
  and event, so that the second of two such profilers replaces what the first
  has of a thread; the code leaves that to the user's choice of events) and
  unless a signal ends perf-record, which its watcher takes for a good end.
  `EventsInv` says, until something fails, where an event can be: what a stream
  carries was given to it (`WhereInv`), the samples of a thread that
  perf-record saw are those in its pipe, in perf-script's hands, in the one
  stream the thread was given to and in its subclient, counted together
  (`SampleInv`), every thread is told of in the first stream (`ThreadInv`), and
  the merge keeps both, because the first stream comes first and is complete by
  then (`MergeInv`).  `RecordersInv` is why nothing is missed at either end:
  every recorder runs from before the release of the command to after its end.

`ArchiveProofs`, for any number of files of any length, changed at any time:

* `IndexTrueTheorem`, `NothingCutTheorem`, `ReportedUnlessLostTheorem`, from `Invariance`.  The inductive invariant
  `ArchiveInv`: numbers are given once (`NumberInv`, from the size of the map
  each is taken from); every path the loop has come to has one entry, but for
  the one about to get it, and the index is behind all of them (`ListInv`); what
  is read is written (`ByteInv`, with `ZeroesBound`: no more zeroes than are
  missing, the remainder notwithstanding); an archive left by an exception after
  its index has begun cannot be read (`EndInv`); who may be missing
  (`LostInv`).

`SubclientProofs`, for any threads, call chains of any length, clocks and starts:

* `NothingBeforeStartTheorem`.  The invariant says how far the reported time of
  each thread reaches (`TimeInv`) and that the regions and the total lie between
  the start and there (`RegionInv`); until the first sample only the command's
  first thread may have time before the start, and `Clamp` cuts exactly that.
* `HotColdUniqueTheorem`.  The property is not inductive: an element that is
  recoloured on the way down could meet a sibling of the same name that is hot
  already.  `DescentInv` says why it does not: the element that `recurse` stands
  on may be recoloured (`Passable`) because an on-CPU sample descends through the
  hot sibling wherever there is one.  `TreesInv` gives the shape of the trees:
  parents are positions before their children.  One lemma follows one call of
  `recurse` (`TreeInvariance`), with the three operators it is made of
  (`WarmedKeeps`, `GrownOld`, `GrownNew`).
* `KnownThreadsListedTheorem`, from `Marks`: no thread number is one of the two
  marks for a root and for a thread not heard of.  `HeardInv` is about the notes:
  every thread heard of is in the list once and its parent with it (`Noted`), the
  list is in time order (`Timely`), and a parent comes before its children unless
  the child's number was used again (`ParentFirst`).  One line adds at most a root
  and a child (`RootGrows`, `ChildGrows`); the sort keeps a child behind its
  parent unless the two share a time in a long list (`SortKeeps`).  `ListedInv`
  follows the walk over the sorted list (`ListedStep`): whoever is listed later
  cannot be the parent of one already passed.
* `LongestNameShownTheorem`, for any clock.  `NamesInv` is about the notes: the
  names of a thread are in the order of their times and the exit comes after
  them (`Fits`), unless the thread number was used again.  `ShownInv` says of
  every entry of the result that its name is the one `Dominant` chose, and
  `ShownIsLongest` that this is the longest: the loop keeps the best of the names
  passed (`DominantBest`), and below 2^31 ns the conversion to `int` changes
  nothing (`IntHolds`).  `PowersAssumption` says of 2^`IntBits` what the provers
  do not know of powers.
* `PathsAddUpTheorem`.  While `recurse` goes down a chain nothing adds up: the
  sample at hand is missing from its own chain and counted for the one passed so
  far, whose last element has been given the period without a child to pass it on
  to.  That is what `Tally` says, `PlaceInv` that the path of the element on which
  `recurse` stands is the chain passed, and `TotalInv` how far the root's children
  are ahead of the thread's total; `Settled` is the last call.  One call gives an
  element the period of its own and takes it from the element above (`Took`,
  `TookTotal`, `CreditWorth`), with the paths of all others as they were
  (`TookPaths`, by `PathsStay`), so that the sum over a path changes by what its two
  ends give (`CallTally`).  Sums are over functions on finite sets (`Total`): that
  they do not depend on the order of summing is `SumsAgree`, and what adding an
  element or changing a value does to them `TotalAdds` and `TotalChanges`.
* `ColoursTrueTheorem`, along the same calls.  `Bounded`: what is cold of a path,
  and what is hot and has no children, is at most what was sampled of that kind,
  less the sample at hand as far as it has not reached its end, and its period
  more where `recurse` stands.  An on-CPU sample that recolours an element or
  gives it its first child takes all it had there out of its part of the path, so
  the bounds hold only as long as that is at least the period passing through:
  `Worth`, no element's own time is negative, and the one `recurse` stands on has
  the period.  `PartMoves` puts the two together.  `Shaded`: the parent of the
  element an on-CPU sample stands on has been made hot by the call before.
* `ReadsBackInOrderTheorem`.  Of the tree in time order the property sees only the
  elements without children, and only between two samples.  `OrderInv` adds why a
  sample that goes on does so in the last of them: the tree is in depth-first
  order (`DepthFirst`), the element `recurse` stands on is on its `Spine`, where
  the last child of each element leads to the last element of all
  (`SpineGoesOn`), and that one ends the chain of the sample before
  (`EndsWith`).  On the way down `recurse` either still follows the spine
  (`Follows`) or has left it for an element of its own that has no children yet
  (`Branched`), and a sample of the same chain and kind as the one before cannot
  leave it (`JoinsContinues`, because all paths below an element of the spine
  begin with its path, `SpineBegins`).  What the last call does to the elements
  without children (`LeavesGrow`) is what the sample does to the runs
  (`RunsGrow`, `RunGrows`, `NewRun`): `MatchNew` and `MatchJoined` say so for a
  new element and for a longer run, over the places of numbers in a set (`Rank`).

`LineReaderProofs`, for any buffer, any stream and any way it is cut into pieces:

* `ExactLinesTheorem`, `EndIsEndTheorem`.  The property speaks of whole lines,
  so it is not inductive: `LinesInv` adds where the unfinished one is, partly in
  `cur_msg`, the rest in the buffer.  `ShortInv`: only a line that outgrows the
  buffer is ever in `cur_msg`, so that a timeout, which forgets `cur_msg`, loses
  nothing of shorter ones.  A piece of `n` bytes is followed byte by byte
  (`PieceArrives`, over `ByteArrives`: a newline ends the segment under way,
  another byte lengthens the remainder), and empty lines are left out piece by
  piece as they are in the whole (`NotEmptyConcat`).  What the n-th of a set of
  positions is when the set grows at its end is `NthGrows`.

`StartupProofs`, for any number of profilers, binaries and cores:

* `CoresFitTheorem`, from what the mask of `n` cores is for every `-p`
  (`CoresOfMask`).
* `NothingStartedUnfitTheorem`.  `CheckInv`: an answer kept is true of the
  machine, and every requirement before the one at hand holds; so when the last
  profiler's last one has been checked all do, whoever asked.
* `PerfPipePrivateTheorem`.  Privacy is not inductive: before perf-record has
  the pipe the frontend must be the only holder.  `HoldInv` adds that the
  frontend holds it only while it starts this very profiler, and that no
  perf-record is there ahead of the loop.  Most steps are `Quiet` (`QuietKeeps`):
  they hand no end on.  What remains is the two forks of a profiler and the turn
  of the loop.
* `EveryStreamTakenTheorem`.  `TakenInv` says at each point of the loop over the
  profilers which of them have their streams, namely those from `Before[p] + 1`
  on, where `Before` is the recursive sum of what the earlier ones take, and
  that what is left starts behind them.
* `NoChildLeftTheorem`.  That the frontend has returned says nothing of the
  children by itself.  `LeftInv` follows the three who wait: a watcher that is
  past a child has reaped it and a profiler without one has no children unless
  its start is under way (`WatchInv`), the pool has a job in hand only while it
  runs (`TaskInv`), and past `wait` the wrapper is reaped.  It rests on `HoldInv`
  for the session abandoned between two profilers.  Most steps spare every child
  (`SparesKeeps`).

Only model-checked: liveness (`GateOpens`, `SessionEnds`, `InterruptEnds`,
`StartedSessionEnds`, `ArchiveEnds`, the last two properties of `Transfer`), which
needs fairness and `ENABLED`, beyond the prover.  Every safety invariant that a run
checks is also a theorem.

Induction is by the least counterexample: the library's induction theorems take
the formula as an operator, which the provers cannot instantiate, but a set of
numbers will do in its place (`CountUp`, `SeqInduction`), and a recursive
function is known once a table with its equation has been shown to exist.

## 5. Plan

1. TCP streams that close without `<STOP>` (a subclient that spins) and the
   slot they keep.
2. Proofs: the `SubclientProofs` leaves that take Zenon longest could be split, so
   that the module is checked faster.

## 6. Not modelled

Of the requirements the look at the machine (files below `/proc` and `/sys`,
libnuma) is one Boolean each; of the entry points the parsing of most options
and the messages are left out, and the server's only makes objects.  The
wording of messages, `perf` command lines and the separate tool
`adaptiveperf-code` have no protocol to check.  Of the modelled files,
the Windows branches, redirection of output and CPU affinity are left out, but
for the exit of the wrapper when one of them fails.  In
the data of a stream the offsets next to every value, the length and start tags,
the call chains of creating threads (`syscall`), changes of a name by `prctl`,
which the code does not see, and the streams of custom events, which are treated
like others, are left out.  The samples perf takes of the wrapper while it waits
are left out of `Session`: they would be added to what is saved without changing
what the properties compare.  That the warm-up suffices for `perf-record` to
attach (`Warm`) is an assumption the code makes and cannot check.  Of an
archive the times and permissions of an entry and its compression are left out.
One place noticed on the way has no model: a message of the generic pipe with the wrong
members is reported as ignored but then read (`profiling.cpp:671`).
