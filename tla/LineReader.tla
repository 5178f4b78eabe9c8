----------------------------- MODULE LineReader -----------------------------
(***************************************************************************)
(* Connection::read(timeout), the line reader that TCPSocket and           *)
(* FileDescriptor share word for word: a fixed buffer that keeps the       *)
(* beginning of an unfinished line, a queue of lines that arrived together *)
(* and, while one call lasts, the part of a line that outgrew the buffer.  *)
(* The peer writes bytes; they arrive in pieces of any size.  Every byte   *)
(* that is not a newline is its own position in the stream, so that a      *)
(* line tells where it is from.                                            *)
(***************************************************************************)
EXTENDS Integers, Sequences, FiniteSetsExt

CONSTANTS
  BufSize,  \* buf_size
  MaxBytes  \* bound: bytes the peer ever writes

ASSUME BufSizeAssumption == BufSize \in Nat \ {0}
ASSUME MaxBytesAssumption == MaxBytes \in Nat

VARIABLES
  sent,          \* everything the peer has written
  closed,        \* the peer has closed its end
  got,           \* how many bytes of sent have been received
  buf,           \* buf[0 .. start_pos - 1]
  cur_msg,       \* local of the read() in progress
  buffered_msgs,
  pc,            \* "idle", "reading", "ended"
  delivered,     \* history: the lines read() has returned
  timed_out,     \* history: a read() has timed out
  last           \* what read() returns at the end of the stream

peerVars == <<sent, closed>>
vars == <<peerVars, got, buf, cur_msg, buffered_msgs, pc, delivered,
          timed_out, last>>

Newline == 0

Init ==
  /\ sent = <<>> /\ closed = FALSE
  /\ got = 0 /\ buf = <<>> /\ cur_msg = <<>> /\ buffered_msgs = <<>>
  /\ pc = "idle" /\ delivered = <<>> /\ timed_out = FALSE /\ last = <<>>

(* The j-th of a set of positions. *)
Nth(K, j) == CHOOSE k \in K : Cardinality({m \in K : m <= k}) = j

(* The pieces of s that newlines end, in order, and what is after them. *)
Newlines(s) == {k \in DOMAIN s : s[k] = Newline}
Segments(s) ==
  LET end(j) == Nth(Newlines(s), j)
      first(j) == IF j = 1 THEN 1 ELSE end(j - 1) + 1
  IN  [j \in 1..Cardinality(Newlines(s)) |-> SubSeq(s, first(j), end(j) - 1)]

Remainder(s) ==
  SubSeq(s, 1 + Max({0} \cup Newlines(s)), Len(s))

NotEmpty(segs) ==
  LET kept == {j \in DOMAIN segs : segs[j] # <<>>}
  IN  [j \in 1..Cardinality(kept) |-> segs[Nth(kept, j)]]

-----------------------------------------------------------------------------
(* The peer. *)

PeerWrites ==
  /\ ~closed /\ Len(sent) < MaxBytes
  /\ \E b \in {Newline, Len(sent) + 1} : sent' = Append(sent, b)
  /\ UNCHANGED <<closed, got, buf, cur_msg, buffered_msgs, pc, delivered,
                 timed_out, last>>

PeerCloses ==
  /\ ~closed
  /\ closed' = TRUE
  /\ UNCHANGED <<sent, got, buf, cur_msg, buffered_msgs, pc, delivered,
                 timed_out, last>>

-----------------------------------------------------------------------------
(* read() *)

ReadQueued ==
  /\ pc = "idle"
  /\ buffered_msgs # <<>>
  /\ delivered' = Append(delivered, Head(buffered_msgs))
  /\ buffered_msgs' = Tail(buffered_msgs)
  /\ UNCHANGED <<peerVars, got, buf, cur_msg, pc, timed_out, last>>

StartRead ==
  /\ pc = "idle"
  /\ buffered_msgs = <<>>
  /\ pc' = "reading"
  /\ cur_msg' = <<>>
  /\ UNCHANGED <<peerVars, got, buf, buffered_msgs, delivered, timed_out, last>>

(* The room left in the buffer: a read of 0 bytes returns 0. *)
Room == BufSize - Len(buf)

(* No newline in a full buffer: its content goes to cur_msg. *)
NeverSpills(data) == FALSE
Spills(data) == Len(data) = BufSize

(* The first line takes the part of it that outgrew the buffer with it. *)
ForgetOutgrown(segs) == segs
WithOutgrown(segs) ==
  [j \in DOMAIN segs |-> IF j = 1 THEN cur_msg \o segs[1] ELSE segs[j]]

Receive(n) ==
  LET data == buf \o SubSeq(sent, got + 1, got + n)
      segs == Segments(data)
      msgs == NotEmpty(WithOutgrown(segs))
  IN  /\ pc = "reading"
      /\ n <= Room /\ n <= Len(sent) - got
      /\ got' = got + n
      /\ IF segs = <<>> /\ Spills(data)
           THEN buf' = <<>> /\ cur_msg' = cur_msg \o data
           ELSE /\ buf' = Remainder(data)
                /\ cur_msg' = IF segs = <<>> THEN cur_msg ELSE <<>>
      /\ IF msgs = <<>>
           THEN UNCHANGED <<pc, delivered, buffered_msgs>>
           ELSE /\ pc' = "idle"
                /\ delivered' = Append(delivered, Head(msgs))
                /\ buffered_msgs' = Tail(msgs)
      /\ UNCHANGED <<peerVars, timed_out, last>>

(* 0 bytes are taken for the end of the stream: what the buffer holds is   *)
(* returned and the reader has nothing more to come to.                    *)
ReadEnd ==
  /\ pc = "reading"
  /\ Room = 0 \/ (closed /\ got = Len(sent))
  /\ last' = buf
  /\ pc' = "ended"
  /\ UNCHANGED <<peerVars, got, buf, cur_msg, buffered_msgs, delivered, timed_out>>

(* TimeoutException: cur_msg goes with the call, buf stays. *)
TimeOut ==
  /\ pc = "reading"
  /\ got = Len(sent) /\ ~closed
  /\ pc' = "idle"
  /\ cur_msg' = <<>>
  /\ timed_out' = TRUE
  /\ UNCHANGED <<peerVars, got, buf, buffered_msgs, delivered, last>>

Next ==
  \/ PeerWrites \/ PeerCloses
  \/ ReadQueued \/ StartRead
  \/ \E n \in 1..BufSize : Receive(n)
  \/ ReadEnd \/ TimeOut

Spec == Init /\ [][Next]_vars

-----------------------------------------------------------------------------
(* Properties. *)

(* Type invariant: there is always room for a byte more. *)
TypeOK ==
  /\ got \in 0..Len(sent) /\ Len(sent) <= MaxBytes
  /\ pc \in {"idle", "reading", "ended"}
  /\ Len(buf) < BufSize
  /\ pc = "reading" => buffered_msgs = <<>>
  /\ closed \in BOOLEAN /\ timed_out \in BOOLEAN

(* No line, finished or not, fills the buffer. *)
AllShort(s) ==
  /\ Len(Remainder(s)) < BufSize
  /\ \A j \in DOMAIN Segments(s) : Len(Segments(s)[j]) < BufSize

(* However the stream is cut into pieces, and whatever the reader does     *)
(* between two of its calls, the lines returned and queued are exactly the *)
(* lines received, none lost, split, merged or out of order; after a       *)
(* timeout only if none outgrows the buffer (socket.cpp:137-217, 337-417). *)
ExactLines ==
  LET received == SubSeq(sent, 1, got)
  IN  ~timed_out \/ AllShort(received) =>
        delivered \o buffered_msgs = NotEmpty(Segments(received))

(* The reader sees an end only where the stream has one, and returns the   *)
(* unfinished line before it if the buffer can hold it                     *)
(* (socket.cpp:160-162, 363-365).                                          *)
EndIsEnd ==
  pc = "ended" =>
    /\ closed /\ got = Len(sent)
    /\ AllShort(sent) => last = Remainder(sent)
=============================================================================
