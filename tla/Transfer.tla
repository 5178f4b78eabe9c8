------------------------------ MODULE Transfer ------------------------------
(***************************************************************************)
(* The last part of a session with a remote server: the frontend sends     *)
(* its files, each over a TCP connection of its own, and StdClient stores  *)
(* them.  The control connection carries an announcement and an answer for *)
(* each file; the connections for the data queue up at the file acceptor,  *)
(* so that only their order says which is whose.                           *)
(***************************************************************************)
EXTENDS Integers, Sequences, FiniteSets

CONSTANTS
  Transfers, \* what the frontend may have to send: kinds of files, in order
  Blocks,    \* packets a file is made of
  Faults     \* what may go wrong, once, in a behaviour

(* Symbol maps and sources.json are sent line by line, code_paths.lst is a *)
(* list of paths the server makes src.zip of, an archive is sent while it  *)
(* is made, the files of "processed" and "out" are copied.                 *)
Kinds == {"lines", "list", "archive", "file"}

ASSUME TransfersAssumption ==
  Transfers \subseteq Seq(Kinds) /\ Blocks \in Nat \ {0}
ASSUME FaultsAssumption ==
  Faults \subseteq {"open_fails", "write_fails", "flush_fails", "zip_fails",
                    "archive_fails", "frontend_dies"}

Stop == 0

VARIABLES
  kinds,          \* the kind of each file
  fpc,            \* where the frontend is
  file,           \* the file it is at
  sent,           \* packets it has written of each file
  open,           \* its data connections that are not closed
  transfer_error,
  archive_error,  \* it has printed that src.zip could not be made
  toClient,       \* control connection, and ...
  toFrontend,     \* ... back
  backlog,        \* data connections waiting for accept()
  pc,             \* where the client is
  name,           \* the file it was told of
  conn,           \* the data connection it holds, 0 if none
  got,            \* packets it has read of each connection
  stored,         \* what each file holds on the server's disk
  fault           \* the fault that has happened

FileIds == DOMAIN kinds

errors == <<transfer_error, archive_error>>
frontendVars == <<kinds, fpc, file, sent, open, errors>>
clientVars == <<pc, name, conn, got, stored>>
vars == <<frontendVars, clientVars, toClient, toFrontend, backlog, fault>>

Init ==
  /\ kinds \in Transfers
  /\ fpc = "announce" /\ file = 1
  /\ sent = [f \in FileIds |-> 0] /\ open = {}
  /\ transfer_error = FALSE /\ archive_error = FALSE
  /\ toClient = <<>> /\ toFrontend = <<>> /\ backlog = <<>>
  /\ pc = "read" /\ name = Stop /\ conn = 0
  /\ got = [f \in FileIds |-> 0] /\ stored = [f \in FileIds |-> <<>>]
  /\ fault = "none"

Happens(f) == f \in Faults /\ fault = "none" /\ fault' = f

-----------------------------------------------------------------------------
(* The frontend. *)

Announce ==
  /\ fpc = "announce"
  /\ IF file \in FileIds
       THEN toClient' = Append(toClient, file) /\ fpc' = "connect"
       ELSE toClient' = Append(toClient, Stop) /\ fpc' = "finish"
  /\ UNCHANGED <<kinds, file, sent, open, errors, toFrontend, backlog,
                 clientVars, fault>>

(* The kernel completes the connection before accept() is called. *)
Connect ==
  /\ fpc = "connect"
  /\ IF pc = "gone"
       THEN fpc' = "threw" /\ UNCHANGED <<open, backlog>>
       ELSE /\ fpc' = "send"
            /\ open' = open \cup {file}
            /\ backlog' = Append(backlog, file)
  /\ UNCHANGED <<kinds, file, sent, errors, toClient, toFrontend, clientVars,
                 fault>>

(* Whether the other end of the file's connection can still be read.       *)
Listened == conn = file \/ \E i \in DOMAIN backlog : backlog[i] = file

(* A packet; if nobody listens it may still be taken by the kernel.        *)
SendPacket ==
  /\ fpc = "send"
  /\ sent[file] < Blocks
  /\ sent' = [sent EXCEPT ![file] = @ + 1]
  /\ UNCHANGED <<kinds, fpc, file, open, errors, toClient, toFrontend,
                 backlog, clientVars, fault>>

(* ... or fail: write(fs::path) hides this in the state of its stream,     *)
(* libarchive turns it into an error of the archive, which is reported,    *)
(* and anything else leaves start_profiling_session.                       *)
SendFails ==
  /\ fpc = "send"
  /\ ~Listened
  /\ kinds[file] # "file"
  /\ IF kinds[file] = "archive"
       THEN /\ fpc' = "status" /\ open' = open \ {file}
            /\ archive_error' = TRUE
       ELSE fpc' = "threw" /\ open' = {} /\ UNCHANGED archive_error
  /\ UNCHANGED <<kinds, file, sent, transfer_error, toClient, toFrontend,
                 backlog, clientVars, fault>>

(* src.zip cannot be made: what there is of it has been sent.              *)
ArchiveFails ==
  /\ fpc = "send"
  /\ kinds[file] = "archive"
  /\ Happens("archive_fails")
  /\ fpc' = "status"
  /\ open' = open \ {file}
  /\ archive_error' = TRUE
  /\ UNCHANGED <<kinds, file, sent, transfer_error, toClient, toFrontend,
                 backlog, clientVars>>

(* The connection is closed as it goes out of scope. *)
FinishSending ==
  /\ fpc = "send"
  /\ sent[file] = Blocks
  /\ open' = open \ {file}
  /\ fpc' = "status"
  /\ UNCHANGED <<kinds, file, sent, errors, toClient, toFrontend, backlog,
                 clientVars, fault>>

ForgetError(status) == FALSE
(* check_data_transfer *)
IsError(status) == status # "out_file_ok"

ReadStatus ==
  /\ fpc = "status"
  /\ \/ /\ toFrontend # <<>>
        /\ transfer_error' =
             (transfer_error \/ IsError(Head(toFrontend).status))
        /\ toFrontend' = Tail(toFrontend)
     \/ /\ toFrontend = <<>> /\ pc = "gone"
        /\ transfer_error' = (transfer_error \/ IsError(""))
        /\ UNCHANGED toFrontend
  /\ file' = file + 1
  /\ fpc' = "announce"
  /\ UNCHANGED <<kinds, sent, open, archive_error, toClient, backlog,
                 clientVars, fault>>

ReadFinished ==
  /\ fpc = "finish"
  /\ toFrontend # <<>>
  /\ toFrontend' = Tail(toFrontend)
  /\ fpc' = "returned"
  /\ UNCHANGED <<kinds, file, sent, open, errors, toClient, backlog,
                 clientVars, fault>>

(* No route for the data connection, a file that cannot be read, a signal. *)
FrontendDies ==
  /\ fpc \in {"announce", "connect", "send", "status"}
  /\ Happens("frontend_dies")
  /\ fpc' = "threw"
  /\ open' = {}
  /\ UNCHANGED <<kinds, file, sent, errors, toClient, toFrontend, backlog,
                 clientVars>>

FrontendRuns ==
  \/ Announce \/ Connect \/ SendPacket \/ SendFails \/ FinishSending
  \/ ReadStatus \/ ReadFinished

-----------------------------------------------------------------------------
(* StdClient. *)

Answers(status) ==
  toFrontend' = Append(toFrontend, [file |-> name, status |-> status])

ReadCommand ==
  /\ pc = "read"
  /\ toClient # <<>>
  /\ toClient' = Tail(toClient)
  /\ IF Head(toClient) = Stop
       THEN pc' = "finished" /\ Answers("finished") /\ UNCHANGED name
       ELSE /\ name' = Head(toClient) /\ pc' = "accept"
            /\ UNCHANGED toFrontend
  /\ UNCHANGED <<frontendVars, conn, got, stored, backlog, fault>>

(* read() returns "" for ever; it is the answer to it that throws.         *)
AtEnd == "threw"

ReadEnd ==
  /\ pc = "read"
  /\ fpc = "threw" /\ toClient = <<>>
  /\ pc' = AtEnd
  /\ UNCHANGED <<frontendVars, name, conn, got, stored, toClient, toFrontend,
                 backlog, fault>>

Accept ==
  /\ pc = "accept"
  /\ backlog # <<>>
  /\ conn' = Head(backlog)
  /\ backlog' = Tail(backlog)
  /\ pc' = IF kinds[name] = "list" THEN "receive" ELSE "open"
  /\ UNCHANGED <<frontendVars, name, got, stored, toClient, toFrontend,
                 fault>>

OpenStream ==
  /\ pc = "open"
  /\ pc' = "receive"
  /\ UNCHANGED <<frontendVars, name, conn, got, stored, toClient, toFrontend,
                 backlog, fault>>

OpenFirst == {"accept"}
OpenAfterAccept == {"open"}
SilentlyNext == UNCHANGED toFrontend
OpenError == Answers("error_out_file")

(* file_connection goes out of scope at the end of every iteration.        *)
OpenFails ==
  /\ pc \in OpenAfterAccept
  /\ Happens("open_fails")
  /\ OpenError
  /\ conn' = 0
  /\ pc' = "read"
  /\ UNCHANGED <<frontendVars, name, got, stored, toClient, backlog>>

Unread == sent[conn] > got[conn]

Receive ==
  /\ pc = "receive"
  /\ Unread
  /\ got' = [got EXCEPT ![conn] = @ + 1]
  /\ stored' = [stored EXCEPT ![name] = Append(@, <<conn, got'[conn]>>)]
  /\ UNCHANGED <<frontendVars, pc, name, conn, toClient, toFrontend, backlog,
                 fault>>

WriteFails ==
  /\ pc = "receive"
  /\ Unread
  /\ kinds[name] # "list"
  /\ Happens("write_fails")
  /\ got' = [got EXCEPT ![conn] = @ + 1]
  /\ Answers("error_out_file")
  /\ conn' = 0
  /\ pc' = "read"
  /\ UNCHANGED <<frontendVars, name, stored, toClient, backlog>>

(* The end of the data.  src.zip may fail to be made of the list, which    *)
(* nobody catches; whether the stream's last bytes reach the disk, as it   *)
(* is closed, nobody asks.                                                 *)
ReceiveEnd ==
  /\ pc = "receive"
  /\ ~Unread /\ conn \notin open
  /\ conn' = 0
  /\ \/ /\ Answers("out_file_ok") /\ pc' = "read"
        /\ UNCHANGED <<stored, fault>>
     \/ /\ kinds[name] # "list" /\ stored[name] # <<>>
        /\ Happens("flush_fails")
        /\ stored' = [stored EXCEPT ![name] = SubSeq(@, 1, Len(@) - 1)]
        /\ Answers("out_file_ok") /\ pc' = "read"
     \/ /\ kinds[name] = "list"
        /\ Happens("zip_fails")
        /\ pc' = "threw"
        /\ UNCHANGED <<stored, toFrontend>>
  /\ UNCHANGED <<frontendVars, name, got, toClient, backlog>>

TimeoutError == Answers("error_out_file_timeout")
WaitsForEver(kind) == TRUE
(* The lines of the list are read with NO_TIMEOUT. *)
NoTimeout(kind) == kind = "list"

TimeOut ==
  /\ pc = "receive"
  /\ ~Unread /\ conn \in open
  /\ ~NoTimeout(kinds[name])
  /\ TimeoutError
  /\ conn' = 0
  /\ pc' = "read"
  /\ UNCHANGED <<frontendVars, name, got, stored, toClient, backlog, fault>>

(* A peer that is gone may also show as a reset. *)
ConnectionReset ==
  /\ pc = "receive"
  /\ fpc = "threw"
  /\ conn' = 0
  /\ pc' = "threw"
  /\ UNCHANGED <<frontendVars, name, got, stored, toClient, toFrontend,
                 backlog, fault>>

(* A server for one client ends with it; another keeps the Client, and     *)
(* with it the control connection, although its thread has ended.          *)
ServerExits ==
  /\ pc = "threw"
  /\ pc' = "gone"
  /\ UNCHANGED <<frontendVars, name, conn, got, stored, toClient, toFrontend,
                 backlog, fault>>

ClientRuns ==
  \/ ReadCommand \/ ReadEnd \/ Accept \/ OpenStream \/ Receive \/ ReceiveEnd
  \/ TimeOut

Next ==
  \/ FrontendRuns \/ ArchiveFails \/ FrontendDies
  \/ ClientRuns \/ OpenFails \/ WriteFails \/ ConnectionReset \/ ServerExits

Spec == Init /\ [][Next]_vars

(* Only the client's thread is sure to be scheduled: the frontend may      *)
(* stall anywhere, as when its machine or the network does.                *)
FairSpec == Spec /\ WF_vars(ClientRuns)

-----------------------------------------------------------------------------
(* Properties. *)

(* Type invariant. *)
TypeOK ==
  /\ kinds \in Transfers
  /\ fpc \in {"announce", "connect", "send", "status", "finish", "returned",
              "threw"}
  /\ file \in 1..(Len(kinds) + 1)
  /\ sent \in [FileIds -> 0..Blocks] /\ got \in [FileIds -> 0..Blocks]
  /\ \A f \in FileIds : got[f] <= sent[f]
  /\ open \subseteq FileIds
  /\ transfer_error \in BOOLEAN /\ archive_error \in BOOLEAN
  /\ toClient \in Seq(FileIds \cup {Stop}) /\ Len(toClient) <= 1
  /\ Len(toFrontend) <= 1
  /\ backlog \in Seq(FileIds)
  /\ pc \in {"read", "accept", "open", "receive", "finished", "threw", "gone"}
  /\ name \in FileIds \cup {Stop} /\ conn \in FileIds \cup {0}
  /\ pc \in {"open", "receive"} <=> conn # 0
  /\ \A f \in FileIds : Len(stored[f]) <= Blocks

(* Nothing but order ties an announcement, a data connection and an answer *)
(* together, and they stay in step whatever failed before: a file is never *)
(* received over the connection of another, and an answer is never taken   *)
(* for that to another file (client.cpp:243-310, profiling.cpp:910-1022).  *)
InStep ==
  /\ conn # 0 => conn = name
  /\ fpc = "status" /\ toFrontend # <<>> => Head(toFrontend).file = file
  /\ \A i \in DOMAIN backlog : backlog[i] = file

(* A frontend that returns without having printed an error has all its     *)
(* files, whole, on the server - but for what is lost as a stream is       *)
(* closed, which the client never learns (client.cpp:266-302,              *)
(* profiling.cpp:893-908, 1026-1029).                                      *)
Whole(f) == [i \in 1..Blocks |-> <<f, i>>]
SilenceIsSuccess ==
  fpc = "returned" /\ ~transfer_error /\ ~archive_error
                   /\ fault # "flush_fails" =>
    \A f \in FileIds : stored[f] = Whole(f)

(* "A maximum number of seconds the client can wait for receiving a next   *)
(* packet of data during file transfer" (server.hpp:46-47): a frontend     *)
(* that stalls holds the client, and its slot, for ever only in the one    *)
(* reception that is not timed, and one that is gone only in accept(): the *)
(* file was announced and nobody will connect (client.cpp:243-252).        *)
Stuck == pc = "receive" /\ kinds[name] = "list" /\ conn \in open
HeldUntimedOnly ==
  /\ pc = "receive" ~> pc # "receive" \/ Stuck
  /\ fpc = "threw" ~> \/ pc \in {"threw", "gone"}
                      \/ pc = "accept" /\ backlog = <<>>

(* If the frontend does not stall either, the transfer comes to its end,   *)
(* unless it dies or src.zip cannot be made on the server: that leaves the *)
(* answer unsent and the frontend waiting for it (client.cpp:249-263).     *)
TransferEnds ==
  WF_vars(FrontendRuns) =>
    <>(fpc \in {"returned", "threw"} \/ fault = "zip_fails")
-----------------------------------------------------------------------------
(* The inductive invariant behind InStep and SilenceIsSuccess, its parts   *)
(* named for what they are about.                                          *)

Busy == {"accept", "open", "receive"}
Quiet == toClient = <<>> /\ backlog = <<>> /\ conn = 0

ShapeInv ==
  /\ kinds \in Transfers
  /\ file \in Nat \ {0}
  /\ sent \in [FileIds -> 0..Blocks] /\ got \in [FileIds -> 0..Blocks]
  /\ stored \in [FileIds -> Seq(FileIds \X Nat)]
  /\ \A f \in FileIds : got[f] <= sent[f]
  /\ fpc \in {"announce", "connect", "send", "status", "finish", "returned",
              "threw"}
  /\ pc \in {"read", "accept", "open", "receive", "finished", "threw", "gone"}
  /\ transfer_error \in BOOLEAN /\ archive_error \in BOOLEAN

(* One file at a time: whatever is on its way is about the current one.    *)
PairInv ==
  /\ backlog \in {<<>>, <<file>>}
  /\ \/ toClient = <<>>
     \/ toClient = <<file>> /\ file \in FileIds
     \/ toClient = <<Stop>> /\ fpc = "finish"
  /\ toClient # <<>> => pc \in {"read", "threw", "gone"}
  /\ pc \in Busy => name = file /\ file \in FileIds /\ toFrontend = <<>>
  /\ pc \in {"open", "receive"} <=> conn # 0
  /\ conn # 0 => conn = file /\ backlog = <<>>
  /\ toFrontend # <<>> => /\ toFrontend = <<Head(toFrontend)>>
                          /\ Quiet
                          /\ \/ fpc \notin {"send", "status"}
                             \/ Head(toFrontend).file = file

(* How far the two sides can be apart at each point of the frontend. *)
PhaseInv ==
  /\ fpc \in {"connect", "send", "status"} => file \in FileIds
  /\ fpc = "announce" => Quiet /\ toFrontend = <<>> /\ pc \in {"read", "gone"}
  /\ fpc = "connect" => /\ backlog = <<>> /\ conn = 0 /\ toFrontend = <<>>
                        /\ pc \in {"read", "accept", "gone"}
                        /\ toClient = <<file>> \/ pc # "read"
  /\ fpc \in {"send", "status"} /\ pc = "read" =>
       toClient # <<>> \/ toFrontend # <<>>
  /\ fpc \in {"send", "status"} /\ pc \in {"threw", "gone"} =>
       Quiet /\ toFrontend = <<>>
  /\ fpc = "send" => file \in open
  /\ fpc = "finish" => backlog = <<>> /\ pc \in {"read", "finished", "gone"}
  /\ fpc = "returned" => Quiet /\ toFrontend = <<>>
  /\ fpc \in {"finish", "returned"} => file \notin FileIds
  /\ pc = "finished" => fpc \in {"finish", "returned"}

(* What is stored: nothing of a file that has not begun, the packets read  *)
(* of the one under way, and all of one that was acknowledged.             *)
Prefix(f, n) == [i \in 1..n |-> <<f, i>>]
Done(f) == stored[f] = Whole(f) \/ archive_error \/ fault = "flush_fails"
Acknowledged == toFrontend # <<>> /\ Head(toFrontend).status = "out_file_ok"

NotBegun(f) ==
  \/ f > file
  \/ f = file /\ \/ toClient # <<>>
                 \/ pc \in {"accept", "open"}
                 \/ fpc = "announce"

StoreInv ==
  /\ \A f \in FileIds : f > file => sent[f] = 0
  /\ \A f \in FileIds : NotBegun(f) => got[f] = 0 /\ stored[f] = <<>>
  /\ pc = "receive" => stored[file] = Prefix(file, got[file])
  /\ fpc = "status" => sent[file] = Blocks \/ archive_error
  /\ Acknowledged => fpc # "send"
  /\ Acknowledged /\ fpc = "status" => Done(file)
  /\ \A f \in FileIds : f < file => transfer_error \/ Done(f)

TransferInv == ShapeInv /\ PairInv /\ PhaseInv /\ StoreInv

=============================================================================
