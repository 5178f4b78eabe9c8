------------------------------ MODULE Archive ------------------------------
(***************************************************************************)
(* src.zip: create_src_archive and the class Archive it fills, while the   *)
(* source files it reads may be edited and lost.  libarchive is modelled   *)
(* from how it is used: an entry takes no more bytes than were announced   *)
(* for it, and an archive that is freed without a fatal error gets its     *)
(* table of contents and can be read.  Contents count by their length.     *)
(***************************************************************************)
EXTENDS Integers, Sequences, FiniteSets

CONSTANTS
  Paths,     \* the source files that were found
  Index,     \* stands for the stream index.json is read from
  IndexLen,  \* bytes of that stream
  Excess,    \* bytes add_file_stream is asked to save beyond the stream's end
  BufSize,   \* Archive::buf_size
  MaxSize,   \* bound: bytes of a source file
  MaxEdits   \* bound: changes of source files in a behaviour

ASSUME PathsAssumption == IsFiniteSet(Paths) /\ Index \notin Paths
ASSUME SizesAssumption ==
  /\ IndexLen \in Nat /\ Excess \subseteq Nat
  /\ BufSize \in Nat \ {0} /\ MaxSize \in Nat /\ MaxEdits \in Nat

(* What is found under a path: a regular file of that many bytes, or       *)
(* nothing, or no file to read, or a directory that may not be searched.   *)
Sizes     == 0..MaxSize
Missing   == -1
Irregular == -2
Hidden    == -3

VARIABLES
  disk,        \* what is found under each path
  edits,       \* changes so far
  lost,        \* history: files removed or hidden while they were open
  pc,          \* where create_src_archive is
  todo,        \* paths the loop has still to come to
  src_mapping, \* the number that names each path's entry
  path,        \* the file or stream being added
  length,      \* how long it is now
  total_bytes, \* how much of it has been read
  excess,      \* the number of zeroes asked for
  entries,     \* the archive
  index,       \* what its index.json says
  fatal,       \* libarchive can write no more
  readable     \* the table of contents has been written

sourceVars  == <<disk, edits, lost>>
loopVars    == <<todo, src_mapping>>
streamVars  == <<path, length, total_bytes>>
archiveVars == <<entries, index, fatal, readable>>
vars == <<sourceVars, pc, loopVars, streamVars, excess, archiveVars>>

NoIndex == [p \in {} |-> 0]
IndexName == -1  \* no number names it

Init ==
  /\ disk \in [Paths -> Sizes \cup {Missing, Irregular, Hidden}]
  /\ edits = 0 /\ lost = {}
  /\ pc = "construct"
  /\ todo = Paths /\ src_mapping = NoIndex
  /\ path = Index /\ length = 0 /\ total_bytes = 0
  /\ excess \in Excess
  /\ entries = <<>> /\ index = NoIndex /\ fatal = FALSE /\ readable = FALSE

-----------------------------------------------------------------------------
(* The source files. *)

Open == pc \in {"size", "copy"} /\ path # Index

Edit(p, size) ==
  /\ edits < MaxEdits /\ edits' = edits + 1
  /\ disk[p] \in Sizes
  /\ disk' = [disk EXCEPT ![p] = size]
  /\ length' = IF Open /\ path = p THEN size ELSE length
  /\ UNCHANGED <<lost, pc, loopVars, path, total_bytes, excess, archiveVars>>

(* An open file can be read to its end all the same. *)
Lose(p, to) ==
  /\ edits < MaxEdits /\ edits' = edits + 1
  /\ disk[p] \in Sizes
  /\ disk' = [disk EXCEPT ![p] = to]
  /\ lost' = IF Open /\ path = p THEN lost \cup {p} ELSE lost
  /\ UNCHANGED <<pc, loopVars, streamVars, excess, archiveVars>>

-----------------------------------------------------------------------------
(* Archive.  "exception" is one of its own, which start_profiling_session   *)
(* reports; any other leaves that function.                                *)

Construct ==
  /\ pc = "construct"
  /\ pc' \in {"next", "reported"}
  /\ UNCHANGED <<sourceVars, loopVars, streamVars, excess, archiveVars>>

NotIrregular(p) == disk[p] # Irregular
Openable(p) == disk[p] \in Sizes

SameNumber == 0
NextNumber == Cardinality(DOMAIN src_mapping)

(* The next turn of the loop, as far as the stream is open.  fs::exists    *)
(* throws by itself where it is not told whether there is a file.          *)
OpenFile(p) ==
  /\ pc = "next" /\ p \in todo
  /\ todo' = todo \ {p}
  /\ src_mapping' = [q \in DOMAIN src_mapping \cup {p} |->
                       IF q = p THEN NextNumber ELSE src_mapping[q]]
  /\ \/ /\ disk[p] = Hidden
        /\ pc' = "filesystem_error"
        /\ path' = p /\ UNCHANGED <<length, total_bytes>>
     \/ /\ disk[p] # Hidden /\ Openable(p)
        /\ pc' = "size"
        /\ path' = p /\ length' = disk[p] /\ total_bytes' = 0
     \/ /\ disk[p] # Hidden /\ ~Openable(p)
        /\ pc' = "exception" /\ UNCHANGED streamVars
  /\ UNCHANGED <<sourceVars, excess, archiveVars>>

NewEntry(name, size) ==
  entries' = Append(entries, [name |-> name, of |-> path', size |-> size,
                              bytes |-> 0, zeroes |-> 0, had |-> 0])
Current == entries[Len(entries)]

(* So does fs::file_size, which asks the path, not the stream.              *)
WriteFileHeader ==
  /\ pc = "size"
  /\ IF disk[path] \in {Missing, Hidden}
       THEN pc' = "filesystem_error" /\ UNCHANGED <<path, entries>>
       ELSE /\ pc' = "copy" /\ UNCHANGED path
            /\ NewEntry(src_mapping[path], disk[path])
  /\ UNCHANGED <<sourceVars, loopVars, length, total_bytes, excess,
                 index, fatal, readable>>

WriteIndexHeader ==
  /\ pc = "next" /\ todo = {}
  /\ path' = Index /\ length' = IndexLen /\ total_bytes' = 0
  /\ NewEntry(IndexName, IndexLen + excess)
  /\ index' = src_mapping
  /\ pc' = "copy"
  /\ UNCHANGED <<sourceVars, loopVars, excess, fatal, readable>>

Least(a, b) == IF a <= b THEN a ELSE b

(* A source file is read to its end, a stream as far as its size. *)
Piece == LET rest == length - total_bytes
         IN  Least(IF path = Index THEN Least(rest, Current.size - total_bytes) ELSE rest,
                   BufSize)
(* archive_write_data takes what still fits the entry. *)
Taken(n) == Least(n, Current.size - Current.bytes)

NeverShort(n) == FALSE
Short(n) == Taken(n) # n

Copy ==
  /\ pc = "copy"
  /\ IF Piece > 0
       THEN /\ entries' = [entries EXCEPT ![Len(entries)].bytes = @ + Taken(Piece)]
            /\ total_bytes' = total_bytes + Piece
            /\ pc' = IF Short(Piece) THEN "exception" ELSE "copy"
       ELSE /\ entries' = [entries EXCEPT ![Len(entries)].had = length]
            /\ pc' = IF path = Index THEN "pad" ELSE "next"
            /\ UNCHANGED total_bytes
  /\ UNCHANGED <<sourceVars, loopVars, path, length, excess, index, fatal, readable>>

ZeroesAtLimit(rest) == rest % BufSize
Zeroes(rest) == rest % (BufSize + 1)

Pad ==
  /\ pc = "pad"
  /\ LET rest == Current.size - total_bytes - Current.zeroes
     IN  IF rest > 0
         THEN /\ entries' = [entries EXCEPT ![Len(entries)].zeroes = @ + Zeroes(rest)]
              /\ UNCHANGED pc
         ELSE pc' = "close" /\ UNCHANGED entries
  /\ UNCHANGED <<sourceVars, loopVars, streamVars, excess, index, fatal, readable>>

Close ==
  /\ pc = "close"
  /\ pc' = "closed"
  /\ readable' = TRUE
  /\ UNCHANGED <<sourceVars, loopVars, streamVars, excess, entries, index, fatal>>

(* A full disk, a peer that is gone. *)
WriteFails ==
  /\ pc \in {"size", "copy", "pad", "close"}
  /\ fatal' = TRUE
  /\ pc' = "exception"
  /\ UNCHANGED <<sourceVars, loopVars, streamVars, excess, entries, index, readable>>

(* ~Archive, as the exception leaves: what there is can be read. *)
Destroy ==
  /\ pc \in {"exception", "filesystem_error"}
  /\ readable' \in {FALSE, ~fatal}
  /\ pc' = IF pc = "exception" THEN "reported" ELSE "unwound"
  /\ UNCHANGED <<sourceVars, loopVars, streamVars, excess, entries, index, fatal>>

ArchiveRuns ==
  \/ Construct
  \/ \E p \in Paths : OpenFile(p)
  \/ WriteFileHeader \/ WriteIndexHeader \/ Copy \/ Pad \/ Close
  \/ Destroy

Next ==
  \/ ArchiveRuns
  \/ WriteFails
  \/ \E p \in Paths, size \in Sizes : Edit(p, size)
  \/ \E p \in Paths, to \in {Missing, Hidden} : Lose(p, to)

Spec == Init /\ [][Next]_vars
FairSpec == Spec /\ WF_vars(ArchiveRuns)

-----------------------------------------------------------------------------
(* Properties.                                                              *)

Entries == DOMAIN entries
Sources == {k \in Entries : entries[k].of # Index}

(* An archive that can be read and has an index has the whole index, and   *)
(* every file it names under that name only, whatever became of the files  *)
(* meanwhile and wherever an exception left create_src_archive: the index  *)
(* comes last, and an entry that cannot be finished ends the archive       *)
(* (common.hpp:10-31, archive.cpp:149-162).  Zeroes fill it to the size    *)
(* that was asked for, and no further (archive.cpp:209-228).               *)
IndexTrue ==
  \A i \in Entries : readable /\ entries[i].of = Index =>
    /\ entries[i].bytes = IndexLen
    /\ entries[i].bytes + entries[i].zeroes = entries[i].size
    /\ DOMAIN index = Paths
    /\ \A p \in Paths : \E k \in Sources :
         /\ entries[k].of = p
         /\ {m \in Entries : entries[m].name = index[p]} = {k}

(* Nothing of a file is cut off in silence: behind an entry comes another   *)
(* one only if it has taken no less than the file had when it was read to  *)
(* its end, although its size was announced earlier (archive.cpp:130-162). *)
NothingCut ==
  \A k \in Sources : k < Len(entries) => entries[k].bytes >= entries[k].had

(* An archive that cannot be made is an archive error, which the session    *)
(* survives: missing, irregular and edited files, and those removed before *)
(* their turn.  The exceptions are a file that is removed or hidden under  *)
(* its open stream, and one whose directory may not be searched when its   *)
(* turn comes: the session ends with an error of std::filesystem           *)
(* (archive.cpp:104-130, profiling.cpp:951-960).                           *)
ReportedUnlessLost ==
  pc \in {"filesystem_error", "unwound"} => path \in lost \/ disk[path] = Hidden

(* "If it's larger than the actual file size, the entire file will be      *)
(* added, followed by padding with zeroes" (archive.hpp:75-77): the        *)
(* archive is finished or an exception says why not.  The exception are     *)
(* more zeroes than the buffer holds: what is left after the first piece   *)
(* is a multiple of its size plus one, and nothing is written for ever     *)
(* (archive.cpp:213).  common.hpp:24 asks for none.                        *)
ArchiveEnds ==
  <>(pc \in {"closed", "reported", "unwound"} \/ (pc = "pad" /\ excess > BufSize))
=============================================================================
