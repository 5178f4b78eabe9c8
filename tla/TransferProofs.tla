--------------------------- MODULE TransferProofs ---------------------------
(***************************************************************************)
(* Theorems about module Transfer, for any files of any number of packets. *)
(* The inductive invariant TransferInv has four parts, and a lemma for the *)
(* preservation of each.                                                   *)
(***************************************************************************)
EXTENDS Transfer, SequenceTheorems, TLAPS

(* The control connection and the backlog never hold more than one.        *)
LEMMA Singleton ==
  ASSUME NEW x
  PROVE  /\ Append(<<>>, x) = <<x>> /\ Head(<<x>>) = x
         /\ Tail(<<x>>) = <<>> /\ <<x>> # <<>>
OBVIOUS

(* The prefixes of a file grow by its packets. *)
LEMMA PrefixGrows ==
  ASSUME NEW f, NEW n \in Nat
  PROVE  Append(Prefix(f, n), <<f, n + 1>>) = Prefix(f, n + 1)
<1>1. Prefix(f, n) \in Seq({f} \X Nat) /\ Len(Prefix(f, n)) = n
  BY DEF Prefix
<1> QED
  BY <1>1 DEF Prefix

LEMMA EmptyPrefix == ASSUME NEW f PROVE Prefix(f, 0) = <<>>
BY DEF Prefix

LEMMA FileIdsInterval ==
  ASSUME ShapeInv PROVE FileIds = 1..Len(kinds) /\ Len(kinds) \in Nat
BY TransfersAssumption DEF ShapeInv, FileIds

LEMMA InvInit == Init => TransferInv
<1> SUFFICES ASSUME Init PROVE TransferInv
  OBVIOUS
<1>1. kinds \in Seq(Kinds) /\ Blocks \in Nat \ {0}
  BY TransfersAssumption DEF Init
<1>2. FileIds = 1..Len(kinds) /\ Len(kinds) \in Nat
  BY <1>1 DEF FileIds
<1>3. ShapeInv
  <2>1. sent \in [FileIds -> 0..Blocks] /\ got \in [FileIds -> 0..Blocks]
    BY <1>1 DEF Init
  <2>2. stored \in [FileIds -> Seq(FileIds \X Nat)]
    BY DEF Init
  <2>3. \A f \in FileIds : got[f] <= sent[f]
    BY DEF Init
  <2>4. transfer_error \in BOOLEAN /\ archive_error \in BOOLEAN
    BY DEF Init
  <2>5. /\ kinds \in Transfers /\ file \in Nat \ {0}
        /\ fpc = "announce" /\ pc = "read"
    BY DEF Init
  <2> QED
    BY <2>1, <2>2, <2>3, <2>4, <2>5 DEF ShapeInv
<1>4. PairInv /\ PhaseInv
  BY DEF Init, PairInv, PhaseInv, Quiet, Busy, Stop
<1>5. StoreInv
  BY <1>2 DEF Init, StoreInv, NotBegun, Acknowledged
<1> QED
  BY <1>3, <1>4, <1>5 DEF TransferInv

(* Whatever is on its way stays about the current file. *)
LEMMA PairStep == TransferInv /\ [Next]_vars => PairInv'
<1> SUFFICES ASSUME TransferInv, [Next]_vars PROVE PairInv'
  OBVIOUS
<1> USE Singleton DEF TransferInv, PairInv, PhaseInv, ShapeInv, FileIds, Busy,
        Quiet,
        vars, frontendVars, clientVars, errors
<1>0. CASE UNCHANGED vars
  BY <1>0
<1>1. CASE Announce
  BY <1>1 DEF Announce, Stop
<1>2. CASE Connect
  BY <1>2 DEF Connect
<1>3. CASE SendPacket
  BY <1>3 DEF SendPacket
<1>4. CASE SendFails
  BY <1>4 DEF SendFails
<1>5. CASE FinishSending
  BY <1>5 DEF FinishSending
<1>6. CASE ReadStatus
  BY <1>6 DEF ReadStatus, IsError
<1>7. CASE ReadFinished
  BY <1>7 DEF ReadFinished
<1>8. CASE ArchiveFails
  BY <1>8 DEF ArchiveFails, Happens
<1>9. CASE FrontendDies
  BY <1>9 DEF FrontendDies, Happens
<1>10. CASE ReadCommand
  <2>1. toFrontend = <<>> /\ conn = 0 /\ file # Stop
    BY <1>10 DEF ReadCommand, Stop
  <2>2. CASE toClient = <<Stop>> /\ fpc = "finish"
    BY <1>10, <2>1, <2>2 DEF ReadCommand, Answers
  <2>3. CASE toClient = <<file>> /\ file \in FileIds
    BY <1>10, <2>1, <2>3 DEF ReadCommand
  <2> QED
    BY <1>10, <2>2, <2>3 DEF ReadCommand
<1>11. CASE ReadEnd
  BY <1>11 DEF ReadEnd, AtEnd
<1>12. CASE Accept
  BY <1>12 DEF Accept
<1>13. CASE OpenStream
  BY <1>13 DEF OpenStream
<1>14. CASE Receive
  BY <1>14 DEF Receive, Unread
<1>15. CASE ReceiveEnd
  BY <1>15 DEF ReceiveEnd, Happens, Answers, Unread
<1>16. CASE TimeOut
  BY <1>16 DEF TimeOut, Answers, Unread, TimeoutError
<1>17. CASE OpenFails
  BY <1>17 DEF OpenFails, Happens, Answers, OpenAfterAccept, OpenError
<1>18. CASE WriteFails
  BY <1>18 DEF WriteFails, Happens, Answers, Unread
<1>19. CASE ConnectionReset
  BY <1>19 DEF ConnectionReset
<1>20. CASE ServerExits
  BY <1>20 DEF ServerExits
<1> QED
  BY <1>0, <1>1, <1>2, <1>3, <1>4, <1>5, <1>6, <1>7, <1>8, <1>9, <1>10, <1>11,
     <1>12, <1>13, <1>14, <1>15, <1>16, <1>17, <1>18, <1>19, <1>20
     DEF Next, FrontendRuns, ClientRuns

(* The two sides stay within reach of each other. *)
LEMMA PhaseStep == TransferInv /\ [Next]_vars => PhaseInv'
<1> SUFFICES ASSUME TransferInv, [Next]_vars PROVE PhaseInv'
  OBVIOUS
<1> USE Singleton DEF TransferInv, PairInv, PhaseInv, ShapeInv, FileIds, Busy,
        Quiet,
        vars, frontendVars, clientVars, errors
<1>0. CASE UNCHANGED vars
  BY <1>0
<1>1. CASE Announce
  BY <1>1 DEF Announce, Stop
<1>2. CASE Connect
  BY <1>2 DEF Connect
<1>3. CASE SendPacket
  BY <1>3 DEF SendPacket
<1>4. CASE SendFails
  BY <1>4 DEF SendFails
<1>5. CASE FinishSending
  BY <1>5 DEF FinishSending
<1>6. CASE ReadStatus
  BY <1>6 DEF ReadStatus, IsError
<1>7. CASE ReadFinished
  BY <1>7 DEF ReadFinished
<1>8. CASE ArchiveFails
  BY <1>8 DEF ArchiveFails, Happens
<1>9. CASE FrontendDies
  BY <1>9 DEF FrontendDies, Happens
<1>10. CASE ReadCommand
  BY <1>10 DEF ReadCommand, Answers, Stop
<1>11. CASE ReadEnd
  BY <1>11 DEF ReadEnd, AtEnd
<1>12. CASE Accept
  BY <1>12 DEF Accept
<1>13. CASE OpenStream
  BY <1>13 DEF OpenStream
<1>14. CASE Receive
  BY <1>14 DEF Receive, Unread
<1>15. CASE ReceiveEnd
  BY <1>15 DEF ReceiveEnd, Happens, Answers, Unread
<1>16. CASE TimeOut
  BY <1>16 DEF TimeOut, Answers, Unread, TimeoutError
<1>17. CASE OpenFails
  BY <1>17 DEF OpenFails, Happens, Answers, OpenAfterAccept, OpenError
<1>18. CASE WriteFails
  BY <1>18 DEF WriteFails, Happens, Answers, Unread
<1>19. CASE ConnectionReset
  BY <1>19 DEF ConnectionReset
<1>20. CASE ServerExits
  BY <1>20 DEF ServerExits
<1> QED
  BY <1>0, <1>1, <1>2, <1>3, <1>4, <1>5, <1>6, <1>7, <1>8, <1>9, <1>10, <1>11,
     <1>12, <1>13, <1>14, <1>15, <1>16, <1>17, <1>18, <1>19, <1>20
     DEF Next, FrontendRuns, ClientRuns

(* Types and bounds. *)
LEMMA ShapeStep == TransferInv /\ [Next]_vars => ShapeInv'
<1> SUFFICES ASSUME TransferInv, [Next]_vars PROVE ShapeInv'
  OBVIOUS
<1> USE Singleton DEF TransferInv, PairInv, PhaseInv, ShapeInv, FileIds, Busy,
        Quiet,
        vars, frontendVars, clientVars, errors
<1>0. CASE UNCHANGED vars
  BY <1>0
<1>1. CASE Announce
  BY <1>1 DEF Announce, Stop
<1>2. CASE Connect
  BY <1>2 DEF Connect
<1>3. CASE SendPacket
  <2>1. sent[file] \in 0..Blocks /\ sent[file] < Blocks /\ Blocks \in Nat
    BY <1>3, TransfersAssumption DEF SendPacket
  <2>2. sent[file] + 1 \in 0..Blocks
    BY <2>1
  <2>3. sent' \in [FileIds -> 0..Blocks]
    BY <1>3, <2>2 DEF SendPacket
  <2>4. \A f \in FileIds : got[f] <= sent'[f]
    BY <1>3, <2>1 DEF SendPacket
  <2> QED
    BY <1>3, <2>3, <2>4 DEF SendPacket
<1>4. CASE SendFails
  BY <1>4 DEF SendFails
<1>5. CASE FinishSending
  BY <1>5 DEF FinishSending
<1>6. CASE ReadStatus
  <2>1. transfer_error' \in BOOLEAN
    BY <1>6 DEF ReadStatus, IsError
  <2>2. /\ UNCHANGED <<kinds, sent, got, stored, archive_error, pc>>
        /\ file' = file + 1 /\ fpc' = "announce"
    BY <1>6 DEF ReadStatus
  <2> QED
    BY <2>1, <2>2
<1>7. CASE ReadFinished
  BY <1>7 DEF ReadFinished
<1>8. CASE ArchiveFails
  BY <1>8 DEF ArchiveFails, Happens
<1>9. CASE FrontendDies
  BY <1>9 DEF FrontendDies, Happens
<1>10. CASE ReadCommand
  BY <1>10 DEF ReadCommand, Answers, Stop
<1>11. CASE ReadEnd
  BY <1>11 DEF ReadEnd, AtEnd
<1>12. CASE Accept
  BY <1>12 DEF Accept
<1>13. CASE OpenStream
  BY <1>13 DEF OpenStream
<1>14. CASE Receive
  <2>1. conn = file /\ name = file /\ file \in FileIds
    BY <1>14 DEF Receive
  <2>2. got[file] \in 0..Blocks /\ sent[file] \in 0..Blocks /\ sent[file] > got[file]
    BY <1>14, <2>1 DEF Receive, Unread
  <2>3. got[file] + 1 \in 0..Blocks /\ got[file] + 1 <= sent[file]
    BY <2>2, TransfersAssumption
  <2>4. got' = [got EXCEPT ![file] = got[file] + 1]
    BY <1>14, <2>1 DEF Receive
  <2>5. got' \in [FileIds -> 0..Blocks] /\ got'[file] = got[file] + 1
    BY <2>1, <2>3, <2>4
  <2>6. \A f \in FileIds : got'[f] <= sent[f]
    BY <2>3, <2>4
  <2>7. stored' = [stored EXCEPT ![file] = Append(stored[file], <<file, got'[file]>>)]
    BY <1>14, <2>1 DEF Receive
  <2>8. Append(stored[file], <<file, got'[file]>>) \in Seq(FileIds \X Nat)
    BY <2>1, <2>2, <2>5
  <2>9. stored' \in [FileIds -> Seq(FileIds \X Nat)]
    BY <2>7, <2>8
  <2> QED
    BY <1>14, <2>5, <2>6, <2>9 DEF Receive
<1>15. CASE ReceiveEnd
  <2>1. name = file /\ file \in FileIds /\ stored[file] \in Seq(FileIds \X Nat)
    BY <1>15 DEF ReceiveEnd
  <2>2. CASE UNCHANGED stored
    BY <1>15, <2>2 DEF ReceiveEnd
  <2>3. CASE /\ stored[name] # <<>>
             /\ stored' = [stored EXCEPT ![name] = SubSeq(@, 1, Len(@) - 1)]
    <3>1. SubSeq(stored[file], 1, Len(stored[file]) - 1) \in Seq(FileIds \X Nat)
      BY <2>1
    <3>2. stored' \in [FileIds -> Seq(FileIds \X Nat)]
      BY <2>1, <2>3, <3>1
    <3> QED
      BY <1>15, <3>2 DEF ReceiveEnd
  <2> QED
    BY <1>15, <2>2, <2>3 DEF ReceiveEnd
<1>16. CASE TimeOut
  BY <1>16 DEF TimeOut, Answers, Unread, TimeoutError
<1>17. CASE OpenFails
  BY <1>17 DEF OpenFails, Happens, Answers, OpenAfterAccept, OpenError
<1>18. CASE WriteFails
  <2>1. conn = file /\ file \in FileIds
    BY <1>18 DEF WriteFails
  <2>2. got[file] \in 0..Blocks /\ sent[file] \in 0..Blocks /\ sent[file] > got[file]
    BY <1>18, <2>1 DEF WriteFails, Unread
  <2>3. got[file] + 1 \in 0..Blocks /\ got[file] + 1 <= sent[file]
    BY <2>2, TransfersAssumption
  <2>4. got' = [got EXCEPT ![file] = got[file] + 1]
    BY <1>18, <2>1 DEF WriteFails
  <2>5. got' \in [FileIds -> 0..Blocks] /\ \A f \in FileIds : got'[f] <= sent[f]
    BY <2>3, <2>4
  <2> QED
    BY <1>18, <2>5 DEF WriteFails
<1>19. CASE ConnectionReset
  BY <1>19 DEF ConnectionReset
<1>20. CASE ServerExits
  BY <1>20 DEF ServerExits
<1> QED
  BY <1>0, <1>1, <1>2, <1>3, <1>4, <1>5, <1>6, <1>7, <1>8, <1>9, <1>10, <1>11,
     <1>12, <1>13, <1>14, <1>15, <1>16, <1>17, <1>18, <1>19, <1>20
     DEF Next, FrontendRuns, ClientRuns

(* What is stored follows what was sent. *)
LEMMA StoreStep == TransferInv /\ [Next]_vars => StoreInv'
<1> SUFFICES ASSUME TransferInv, [Next]_vars PROVE StoreInv'
  OBVIOUS
<1> USE Singleton DEF TransferInv, PairInv, PhaseInv, StoreInv, FileIds, NotBegun,
        Acknowledged, Done, Whole, Busy, Quiet,
        vars, frontendVars, clientVars, errors
<1>0. CASE UNCHANGED vars
  BY <1>0
<1>1. CASE Announce
  BY <1>1 DEF Announce, Stop
<1>2. CASE Connect
  BY <1>2 DEF Connect
<1>3. CASE SendPacket
  BY <1>3 DEF SendPacket
<1>4. CASE SendFails
  BY <1>4 DEF SendFails
<1>5. CASE FinishSending
  BY <1>5 DEF FinishSending
<1>6. CASE ReadStatus
  <2>1. Done(file) \/ transfer_error'
    BY <1>6 DEF ReadStatus, IsError
  <2>2. file \in Nat /\ FileIds \subseteq Nat
    <3>1. 1..Len(kinds) \subseteq Nat
      BY FileIdsInterval
    <3> QED
      BY <3>1, FileIdsInterval DEF ShapeInv
  <2>3. /\ UNCHANGED <<kinds, sent, got, stored, archive_error, fault>>
        /\ file' = file + 1 /\ fpc' = "announce" /\ pc' # "receive"
        /\ transfer_error => transfer_error'
    BY <1>6 DEF ReadStatus
  <2>4. ~Acknowledged'
    BY <1>6 DEF ReadStatus
  <2>5. ASSUME NEW f \in FileIds, f < file' PROVE transfer_error' \/ Done(f)
    <3>1. CASE f = file
      BY <2>1, <3>1
    <3>2. CASE f < file
      BY <2>3, <3>2
    <3> QED
      BY <2>2, <2>3, <2>5, <3>1, <3>2
  <2>6. \A f \in FileIds : f >= file' => f > file
    BY <2>2, <2>3
  <2>7. \A f \in FileIds : NotBegun(f)' => f >= file'
    BY <2>2, <2>3
  <2>8. \A f \in FileIds : Done(f)' <=> Done(f)
    BY <2>3
  <2> QED
    BY <2>2, <2>3, <2>4, <2>5, <2>6, <2>7, <2>8
<1>7. CASE ReadFinished
  BY <1>7 DEF ReadFinished
<1>8. CASE ArchiveFails
  BY <1>8 DEF ArchiveFails, Happens
<1>9. CASE FrontendDies
  BY <1>9 DEF FrontendDies, Happens
<1>10. CASE ReadCommand
  BY <1>10 DEF ReadCommand, Answers, Stop
<1>11. CASE ReadEnd
  BY <1>11 DEF ReadEnd, AtEnd
<1>12. CASE Accept
  BY <1>12, EmptyPrefix DEF Accept
<1>13. CASE OpenStream
  BY <1>13, EmptyPrefix DEF OpenStream
<1>14. CASE Receive
  <2>1. conn = file /\ name = file /\ file \in FileIds
    BY <1>14 DEF Receive
  <2>2. got[file] \in Nat /\ stored[file] = Prefix(file, got[file])
    BY <1>14, <2>1 DEF Receive, ShapeInv
  <2>3. got' = [got EXCEPT ![file] = got[file] + 1] /\ got'[file] = got[file] + 1
    BY <1>14, <2>1 DEF Receive, ShapeInv
  <2>4. stored' = [stored EXCEPT ![file] = Append(stored[file], <<file, got[file] + 1>>)]
    BY <1>14, <2>1, <2>3 DEF Receive
  <2>5. stored'[file] = Prefix(file, got'[file])
    BY <2>1, <2>2, <2>3, <2>4, PrefixGrows DEF ShapeInv
  <2>6. \A f \in FileIds : f # file => got'[f] = got[f] /\ stored'[f] = stored[f]
    BY <2>3, <2>4 DEF ShapeInv
  <2>7. /\ pc' = "receive" /\ toFrontend' = <<>> /\ toClient' = <<>>
        /\ fpc # "announce" /\ file \in Nat
    BY <1>14 DEF Receive, ShapeInv
  <2>8. \A f \in FileIds : NotBegun(f)' => f > file
    BY <1>14, <2>7 DEF Receive
  <2>9. \A f \in FileIds : f > file \/ f < file => f # file
    BY <2>7, FileIdsInterval
  <2>10. /\ UNCHANGED <<kinds, file, sent, fpc, transfer_error, archive_error, fault>>
         /\ ~Acknowledged'
    BY <1>14, <2>7 DEF Receive
  <2> QED
    BY <2>5, <2>6, <2>8, <2>9, <2>10
<1>15. CASE ReceiveEnd
  <2>1. conn = file /\ name = file /\ file \in FileIds /\ file \in Nat
    BY <1>15 DEF ReceiveEnd, ShapeInv
  <2>2. got[file] = sent[file] /\ file \notin open /\ fpc # "send"
    BY <1>15, <2>1 DEF ReceiveEnd, Unread, ShapeInv
  <2>3. fpc = "status" => Done(file)
    BY <1>15, <2>1, <2>2 DEF ReceiveEnd, Prefix
  <2>4. CASE UNCHANGED stored
    BY <1>15, <2>1, <2>2, <2>3, <2>4 DEF ReceiveEnd, Happens, Answers
  <2>5. CASE /\ Happens("flush_fails")
             /\ stored' = [stored EXCEPT ![name] = SubSeq(@, 1, Len(@) - 1)]
    <3>1. \A f \in FileIds : f # file => stored'[f] = stored[f]
      BY <2>1, <2>5 DEF ShapeInv
    <3>2. fault' = "flush_fails" /\ ~NotBegun(file)'
      BY <1>15, <2>1, <2>5 DEF Happens, ReceiveEnd, Answers
    <3> QED
      BY <1>15, <2>1, <2>2, <3>1, <3>2, FileIdsInterval DEF ReceiveEnd, Answers
  <2> QED
    BY <1>15, <2>4, <2>5 DEF ReceiveEnd
<1>16. CASE TimeOut
  BY <1>16 DEF TimeOut, Answers, Unread, TimeoutError
<1>17. CASE OpenFails
  BY <1>17 DEF OpenFails, Happens, Answers, OpenAfterAccept, OpenError
<1>18. CASE WriteFails
  BY <1>18 DEF WriteFails, Happens, Answers, Unread
<1>19. CASE ConnectionReset
  BY <1>19 DEF ConnectionReset
<1>20. CASE ServerExits
  BY <1>20 DEF ServerExits
<1> QED
  BY <1>0, <1>1, <1>2, <1>3, <1>4, <1>5, <1>6, <1>7, <1>8, <1>9, <1>10, <1>11,
     <1>12, <1>13, <1>14, <1>15, <1>16, <1>17, <1>18, <1>19, <1>20
     DEF Next, FrontendRuns, ClientRuns

LEMMA Invariance == Spec => []TransferInv
<1>1. TransferInv /\ [Next]_vars => TransferInv'
  BY ShapeStep, PairStep, PhaseStep, StoreStep DEF TransferInv
<1> QED
  BY InvInit, <1>1, PTL DEF Spec

(* Whatever fails, a file is received over its own connection and an       *)
(* answer is taken for that to the file it is about: the code keeps no     *)
(* names on its data connections and needs none.                           *)
THEOREM InStepTheorem == Spec => []InStep
<1>1. TransferInv => InStep
  <2> SUFFICES ASSUME TransferInv PROVE InStep
    OBVIOUS
  <2>1. conn # 0 => conn = name
    BY DEF TransferInv, PairInv, ShapeInv, Busy
  <2>2. fpc = "status" /\ toFrontend # <<>> => Head(toFrontend).file = file
    BY DEF TransferInv, PairInv
  <2>3. \A i \in DOMAIN backlog : backlog[i] = file
    BY DEF TransferInv, PairInv
  <2> QED
    BY <2>1, <2>2, <2>3 DEF InStep
<1> QED
  BY <1>1, Invariance, PTL

(* A frontend that returns without having printed an error has stored all  *)
(* its files, whole, however many they are and however long, unless the    *)
(* server's disk has failed silently as a stream was closed.               *)
THEOREM SilenceIsSuccessTheorem == Spec => []SilenceIsSuccess
<1>1. TransferInv => SilenceIsSuccess
  <2> SUFFICES ASSUME TransferInv, fpc = "returned", NEW f \in FileIds,
                      ~transfer_error, ~archive_error, fault # "flush_fails"
               PROVE  stored[f] = Whole(f)
    BY DEF SilenceIsSuccess
  <2>1. file \in Nat \ {0} /\ file \notin FileIds
    BY DEF TransferInv, ShapeInv, PhaseInv
  <2>2. FileIds = 1..Len(kinds) /\ Len(kinds) \in Nat
    BY FileIdsInterval DEF TransferInv
  <2>3. f < file
    BY <2>1, <2>2
  <2> QED
    BY <2>3 DEF TransferInv, StoreInv, Done
<1> QED
  BY <1>1, Invariance, PTL
=============================================================================
