---------------------------- MODULE ArchiveProofs ----------------------------
(***************************************************************************)
(* Theorems about module Archive, for any number of source files of any    *)
(* length, edited, removed and hidden any number of times.                 *)
(***************************************************************************)
EXTENDS Archive, FiniteSetTheorems, TLAPS

Entry == [name : Int, of : Paths \cup {Index}, size : Int, bytes : Int,
          zeroes : Int, had : Int]

Early   == {"construct", "next", "size"}
Written == {"copy", "pad", "close", "closed"}
Left    == {"exception", "filesystem_error", "reported", "unwound"}

ShapeInv ==
  /\ pc \in Early \cup Written \cup Left
  /\ disk \in [Paths -> Sizes \cup {Missing, Irregular, Hidden}]
  /\ todo \in SUBSET Paths /\ DOMAIN src_mapping = Paths \ todo
  /\ path \in Paths \cup {Index} /\ length \in Int /\ total_bytes \in Int
  /\ excess \in Nat /\ fatal \in BOOLEAN /\ readable \in BOOLEAN
  /\ entries \in Seq(Entry)
  /\ pc \in Written => Len(entries) > 0 /\ Current.of = path
  /\ pc \in Written \ {"copy"} => path = Index
  /\ pc = "size" => path \in DOMAIN src_mapping

(* Numbers are given out once. *)
NumberInv ==
  /\ \A p \in DOMAIN src_mapping :
       src_mapping[p] \in Nat /\ src_mapping[p] < Cardinality(DOMAIN src_mapping)
  /\ \A p, q \in DOMAIN src_mapping : src_mapping[p] = src_mapping[q] => p = q

Has(p)   == \E k \in Entries : entries[k].of = p

(* Every path the loop has come to has its one entry, but for the one that *)
(* is about to get it; the index comes behind all of them.                 *)
ListInv ==
  /\ \A k \in Entries :
       IF entries[k].of = Index THEN entries[k].name = IndexName
       ELSE entries[k].of \in DOMAIN src_mapping /\ entries[k].name = src_mapping[entries[k].of]
  /\ \A k, m \in Entries : entries[k].of = entries[m].of => k = m
  /\ pc \notin Left \/ Has(Index) =>
       \A p \in DOMAIN src_mapping : Has(p) \/ (pc = "size" /\ p = path)
  /\ pc = "size" => ~Has(path)
  /\ Has(Index) => todo = {} /\ index = src_mapping /\ pc \notin Early
  /\ pc \in Written => (Has(Index) <=> path = Index)

(* What is read is written, until an exception. *)
ByteInv ==
  /\ \A k \in Entries : entries[k].bytes >= entries[k].had
  /\ pc = "size" => total_bytes = 0
  /\ pc = "copy" => /\ Current.bytes = total_bytes /\ Current.zeroes = 0
                    /\ total_bytes >= 0 /\ Current.bytes <= Current.size
  /\ pc \in Written /\ path = Index =>
       /\ Current.size = IndexLen + excess /\ length = IndexLen
       /\ Current.bytes = total_bytes /\ total_bytes <= IndexLen
       /\ Current.zeroes <= excess
  /\ pc \in {"pad", "close", "closed"} => total_bytes = IndexLen
  /\ pc \in {"close", "closed"} => Current.zeroes = excess

EndInv ==
  /\ readable => pc \in {"closed", "reported", "unwound"}
  /\ readable /\ pc # "closed" => ~fatal
  /\ pc \in Left /\ Has(Index) => fatal

LostInv ==
  /\ pc = "size" => disk[path] # Irregular
  /\ pc = "size" /\ disk[path] \in {Missing, Hidden} => path \in lost
  /\ pc \in {"filesystem_error", "unwound"} => path \in lost \/ disk[path] = Hidden

ArchiveInv == ShapeInv /\ NumberInv /\ ListInv /\ ByteInv /\ EndInv /\ LostInv

-----------------------------------------------------------------------------
LEMMA InitInv == Init => ArchiveInv
<1> SUFFICES ASSUME Init PROVE ArchiveInv
  OBVIOUS
<1>1. DOMAIN src_mapping = {} /\ Entries = {} /\ entries = <<>>
  BY DEF Init, NoIndex, Entries
<1>2. \A p : ~Has(p)
  BY <1>1 DEF Has
<1>7. todo \in SUBSET Paths /\ DOMAIN src_mapping = Paths \ todo
  BY <1>1, Zenon DEF Init
<1>8. excess \in Nat
  BY SizesAssumption, Zenon DEF Init
<1>9. entries \in Seq(Entry)
  BY <1>1
<1>10. length \in Int /\ total_bytes \in Int
  BY DEF Init
<1>3. ShapeInv
  BY <1>7, <1>8, <1>9, <1>10, Zenon DEF Init, ShapeInv, Early, Written, Left
<1>4. NumberInv
  BY <1>1, Zenon DEF NumberInv
<1>6. ListInv
  BY <1>1, <1>2, Zenon DEF Init, ListInv, Written
<1>5. ByteInv /\ EndInv /\ LostInv
  BY <1>1, <1>2 DEF Init, ByteInv, EndInv, LostInv, Written
<1> QED BY <1>3, <1>4, <1>5, <1>6 DEF ArchiveInv

(* Steps that add neither a path nor an entry. *)
Moves ==
  \/ pc' = pc /\ path' = path
  \/ pc' \in Left
  \/ pc = "construct" /\ pc' = "next"
  \/ pc \in Written /\ pc' \in Written /\ path' = path
  \/ pc = "copy" /\ pc' = "next" /\ path # Index

SameList ==
  /\ DOMAIN entries' = DOMAIN entries
  /\ \A k \in Entries : entries'[k].of = entries[k].of /\ entries'[k].name = entries[k].name

LEMMA ListKept ==
  ASSUME ArchiveInv, todo' = todo, src_mapping' = src_mapping, index' = index,
         SameList, Moves
  PROVE  NumberInv' /\ ListInv' /\ (\A p : Has(p)' <=> Has(p))
<1>1. NumberInv'
  BY DEF ArchiveInv, NumberInv
<1>2. ASSUME NEW p PROVE Has(p)' <=> Has(p)
  BY DEF Has, Entries, SameList
<1>3. /\ \A k \in Entries' :
            IF entries'[k].of = Index THEN entries'[k].name = IndexName
            ELSE entries'[k].of \in DOMAIN src_mapping' /\ entries'[k].name = src_mapping'[entries'[k].of]
      /\ \A k, m \in Entries' : entries'[k].of = entries'[m].of => k = m
  BY DEF ArchiveInv, ListInv, Entries, SameList
<1>4. pc' \notin Left \/ Has(Index) =>
         \A p \in DOMAIN src_mapping : Has(p) \/ (pc' = "size" /\ p = path')
  BY DEF Moves, ArchiveInv, ListInv, ShapeInv, Early, Written, Left
<1>5. pc' = "size" => ~Has(path')
  BY DEF Moves, ArchiveInv, ListInv, Written, Left
<1>6. /\ Has(Index) => todo = {} /\ index = src_mapping /\ pc' \notin Early
      /\ pc' \in Written => (Has(Index) <=> path' = Index)
  BY DEF Moves, ArchiveInv, ListInv, Early, Written, Left
<1> QED BY <1>1, <1>2, <1>3, <1>4, <1>5, <1>6 DEF ListInv

LEMMA SourcesStep ==
  ASSUME ArchiveInv, NEW p \in Paths,
         (\E to \in {Missing, Hidden} : Lose(p, to)) \/ \E size \in Sizes : Edit(p, size)
  PROVE  ArchiveInv'
<1>1. UNCHANGED <<pc, loopVars, path, total_bytes, excess, archiveVars>>
  BY DEF Lose, Edit, streamVars
<1>2. NumberInv' /\ ListInv'
  <2>1. SameList /\ Moves /\ UNCHANGED <<todo, src_mapping, index>>
    BY <1>1 DEF SameList, Moves, Entries, archiveVars, loopVars
  <2> QED BY <2>1, ListKept
<1>3. disk' \in [Paths -> Sizes \cup {Missing, Irregular, Hidden}] /\ length' \in Int
  BY SizesAssumption DEF Lose, Edit, ArchiveInv, ShapeInv, streamVars, Sizes
<1>4. pc \in Written /\ path = Index => length' = length
  BY DEF Lose, Edit, streamVars, Open
<1>10. pc = "size" => disk'[path] # Irregular
  BY SizesAssumption
     DEF Lose, Edit, ArchiveInv, ShapeInv, LostInv, Sizes, Missing, Irregular, Hidden
<1>5. pc = "size" /\ disk'[path] \in {Missing, Hidden} => path \in lost'
  <2> SUFFICES ASSUME pc = "size", disk'[path] \in {Missing, Hidden} PROVE path \in lost'
    OBVIOUS
  <2>0. path \in Paths /\ Open
    BY PathsAssumption DEF ArchiveInv, ShapeInv, Open
  <2>1. CASE \E to \in {Missing, Hidden} : Lose(p, to)
    BY <2>0, <2>1 DEF Lose, ArchiveInv, ShapeInv, LostInv
  <2>2. CASE \E size \in Sizes : Edit(p, size)
    BY <2>0, <2>2, SizesAssumption
       DEF Edit, ArchiveInv, ShapeInv, LostInv, Sizes, Missing, Hidden
  <2> QED BY <2>1, <2>2
<1>6. lost \subseteq lost'
  BY DEF Lose, Edit
(* A path in a hidden directory stays there.                               *)
<1>11. path \in lost \/ disk[path] = Hidden => path \in lost' \/ disk'[path] = Hidden
  <2> SUFFICES ASSUME disk[path] = Hidden PROVE disk'[path] = Hidden
    BY <1>6
  <2>1. disk[p] \in Sizes /\ Hidden \notin Sizes /\ \E v : disk' = [disk EXCEPT ![p] = v]
    BY SizesAssumption DEF Lose, Edit, Sizes, Hidden
  <2> QED BY <2>1
<1>7. ShapeInv'
  BY <1>1, <1>3 DEF ArchiveInv, ShapeInv, loopVars, archiveVars, Current
<1>8. ByteInv'
  BY <1>1, <1>4 DEF ArchiveInv, ByteInv, archiveVars, Current, Entries
<1>9. EndInv' /\ LostInv'
  BY <1>1, <1>5, <1>10, <1>11 DEF ArchiveInv, EndInv, LostInv, archiveVars, Has, Entries
<1> QED BY <1>2, <1>7, <1>8, <1>9 DEF ArchiveInv

LEMMA OpenStep ==
  ASSUME ArchiveInv, NEW p \in Paths, OpenFile(p)
  PROVE  ArchiveInv'
<1> DEFINE D == DOMAIN src_mapping
<1>1. /\ pc = "next" /\ p \in todo /\ p \notin D /\ D \subseteq Paths /\ p # Index
      /\ UNCHANGED <<sourceVars, excess, archiveVars>>
  BY PathsAssumption DEF OpenFile, ArchiveInv, ShapeInv
<1>2. /\ todo' = todo \ {p}
      /\ src_mapping' = [q \in D \cup {p} |-> IF q = p THEN NextNumber ELSE src_mapping[q]]
      /\ DOMAIN src_mapping' = D \cup {p}
  BY DEF OpenFile
<1>3. \/ disk[p] = Hidden /\ pc' = "filesystem_error" /\ path' = p
         /\ UNCHANGED <<length, total_bytes>>
      \/ disk[p] \in Sizes /\ pc' = "size" /\ path' = p
         /\ length' = disk[p] /\ total_bytes' = 0
      \/ pc' = "exception" /\ UNCHANGED streamVars
  BY DEF OpenFile, Openable
<1>4. \A q : Has(q)' <=> Has(q)
  BY <1>1 DEF Has, Entries, archiveVars
<1>5. ~Has(Index) /\ ~Has(p) /\ \A q \in D : Has(q)
  BY <1>1 DEF ArchiveInv, ListInv, Has, Left, Early
<1>6. NumberInv'
  <2>1. IsFiniteSet(D) /\ NextNumber = Cardinality(D)
    BY <1>1, PathsAssumption, FS_Subset DEF NextNumber
  <2>2. Cardinality(DOMAIN src_mapping') = Cardinality(D) + 1 /\ Cardinality(D) \in Nat
    BY <1>1, <1>2, <2>1, FS_AddElement, FS_CardinalityType
  <2> QED BY <1>1, <1>2, <2>1, <2>2 DEF ArchiveInv, NumberInv
<1>7. ShapeInv'
  BY <1>1, <1>2, <1>3, SizesAssumption
     DEF ArchiveInv, ShapeInv, sourceVars, archiveVars, streamVars, Early, Written, Left, Sizes
<1>8. ListInv'
  <2>1. \A k \in Entries' : entries'[k].of # Index =>
           entries'[k].of \in D /\ src_mapping'[entries'[k].of] = src_mapping[entries[k].of]
    BY <1>1, <1>2 DEF ArchiveInv, ListInv, Entries, archiveVars
  <2>2. /\ \A k \in Entries' :
              IF entries'[k].of = Index THEN entries'[k].name = IndexName
              ELSE entries'[k].of \in DOMAIN src_mapping' /\ entries'[k].name = src_mapping'[entries'[k].of]
        /\ \A k, m \in Entries' : entries'[k].of = entries'[m].of => k = m
    BY <1>1, <1>2, <2>1 DEF ArchiveInv, ListInv, Entries, archiveVars
  <2> QED BY <1>1, <1>2, <1>3, <1>4, <1>5, <2>2 DEF ListInv, Left, Written
<1>9. ByteInv' /\ EndInv' /\ LostInv'
  <2>1. pc' \notin Written /\ pc' # "closed" /\ ~readable'
    BY <1>1, <1>3 DEF ArchiveInv, EndInv, archiveVars, Written
  <2>2. \A k \in Entries' : entries'[k].bytes >= entries'[k].had
    BY <1>1 DEF ArchiveInv, ByteInv, Entries, archiveVars
  <2>3. pc' = "size" => disk'[path'] \notin {Missing, Irregular, Hidden}
    BY <1>1, <1>3, SizesAssumption DEF Sizes, Missing, Irregular, Hidden, sourceVars
  <2>4. pc' \in {"filesystem_error", "unwound"} => disk'[path'] = Hidden
    BY <1>1, <1>3 DEF sourceVars
  <2> QED BY <1>1, <1>3, <1>4, <1>5, <2>1, <2>2, <2>3, <2>4 DEF ByteInv, EndInv, LostInv, Written
<1> QED BY <1>6, <1>7, <1>8, <1>9 DEF ArchiveInv

(* A new entry comes behind the others. *)
LEMMA NewEntryFacts ==
  ASSUME ShapeInv, NEW name \in Int, NEW size \in Int, path' \in Paths \cup {Index},
         NewEntry(name, size)
  PROVE  /\ entries' \in Seq(Entry) /\ Len(entries') = Len(entries) + 1
         /\ Entries' = Entries \cup {Len(entries) + 1} /\ Len(entries) + 1 \notin Entries
         /\ \A k \in Entries : entries'[k] = entries[k]
         /\ Current' = [name |-> name, of |-> path', size |-> size,
                        bytes |-> 0, zeroes |-> 0, had |-> 0]
         /\ Current' = entries'[Len(entries) + 1]
<1> DEFINE e == [name |-> name, of |-> path', size |-> size, bytes |-> 0, zeroes |-> 0, had |-> 0]
<1>1. e \in Entry
  BY DEF Entry
<1>2. entries \in Seq(Entry) /\ entries' = Append(entries, e)
  BY DEF NewEntry, ShapeInv
<1> HIDE DEF e
<1>3. /\ entries' \in Seq(Entry) /\ Len(entries') = Len(entries) + 1
      /\ DOMAIN entries = 1..Len(entries) /\ DOMAIN entries' = 1..(Len(entries) + 1)
      /\ Len(entries) \in Nat
      /\ \A k \in 1..Len(entries) : entries'[k] = entries[k]
      /\ entries'[Len(entries) + 1] = e
  BY <1>1, <1>2
<1>4. 1..(Len(entries) + 1) = 1..Len(entries) \cup {Len(entries) + 1}
  BY <1>3
<1> QED BY <1>3, <1>4 DEF Entries, Current, e

LEMMA FileHeaderStep == ASSUME ArchiveInv, WriteFileHeader PROVE ArchiveInv'
<1>1. /\ pc = "size" /\ path \in Paths /\ path # Index /\ path \in DOMAIN src_mapping
      /\ UNCHANGED <<sourceVars, loopVars, length, total_bytes, excess, index, fatal, readable>>
      /\ path' = path
  BY PathsAssumption DEF WriteFileHeader, ArchiveInv, ShapeInv
<1>2. CASE disk[path] \in {Missing, Hidden}
  <2>1. pc' = "filesystem_error" /\ UNCHANGED entries
    BY <1>2 DEF WriteFileHeader
  <2>2. SameList /\ Moves /\ UNCHANGED <<todo, src_mapping, index>>
    BY <1>1, <2>1 DEF SameList, Moves, Left, loopVars
  <2>3. ShapeInv' /\ ByteInv'
    BY <1>1, <2>1 DEF ArchiveInv, ShapeInv, ByteInv, Left, Written, Entries, sourceVars, loopVars
  <2>4. ~readable /\ ~Has(Index)
    BY <1>1 DEF ArchiveInv, EndInv, ListInv, Early
  <2>5. ListInv' /\ NumberInv' /\ (Has(Index)' <=> Has(Index))
    BY <2>2, ListKept
  <2>6. EndInv' /\ LostInv'
    BY <1>1, <1>2, <2>1, <2>4, <2>5 DEF ArchiveInv, EndInv, LostInv, sourceVars
  <2> QED BY <2>3, <2>5, <2>6 DEF ArchiveInv
<1>3. CASE disk[path] \notin {Missing, Hidden}
  <2>1. /\ pc' = "copy" /\ NewEntry(src_mapping[path], disk[path])
        /\ src_mapping[path] \in Int /\ disk[path] \in Int
    BY <1>1, <1>3, SizesAssumption
       DEF WriteFileHeader, ArchiveInv, ShapeInv, NumberInv, Sizes, Missing, Irregular, Hidden
  <2>2. /\ entries' \in Seq(Entry) /\ Len(entries') = Len(entries) + 1
        /\ Entries' = Entries \cup {Len(entries) + 1} /\ Len(entries) + 1 \notin Entries
        /\ \A k \in Entries : entries'[k] = entries[k]
        /\ Current' = [name |-> src_mapping[path], of |-> path, size |-> disk[path],
                       bytes |-> 0, zeroes |-> 0, had |-> 0]
        /\ Current' = entries'[Len(entries) + 1]
    BY <1>1, <2>1, NewEntryFacts DEF ArchiveInv
  <2>3. \A q : Has(q)' <=> Has(q) \/ q = path
    BY <1>1, <2>2 DEF Has
  <2>4. ~Has(path) /\ ~Has(Index) /\ \A q \in DOMAIN src_mapping : Has(q) \/ q = path
    BY <1>1 DEF ArchiveInv, ListInv, Early, Left
  <2>5. Len(entries) \in Nat
    BY DEF ArchiveInv, ShapeInv
  <2>6. ShapeInv'
    BY <1>1, <2>1, <2>2, <2>5 DEF ArchiveInv, ShapeInv, Early, Written, sourceVars, loopVars
  <2>7. NumberInv'
    BY <1>1 DEF ArchiveInv, NumberInv, loopVars
  <2>8. ListInv'
    <3>1. \A k \in Entries' :
            IF entries'[k].of = Index THEN entries'[k].name = IndexName
            ELSE entries'[k].of \in DOMAIN src_mapping' /\ entries'[k].name = src_mapping'[entries'[k].of]
      BY <1>1, <2>2 DEF ArchiveInv, ListInv, loopVars
    <3>2. \A k, m \in Entries' : entries'[k].of = entries'[m].of => k = m
      BY <1>1, <2>2, <2>4 DEF ArchiveInv, ListInv, Has
    <3> QED BY <1>1, <2>1, <2>3, <2>4, <3>1, <3>2 DEF ListInv, loopVars, Written
  <2>9. ByteInv'
    <3>1. \A k \in Entries' : entries'[k].bytes >= entries'[k].had
      BY <2>2 DEF ArchiveInv, ByteInv
    <3>2. total_bytes = 0 /\ disk[path] >= 0
      BY <1>1, <1>3, SizesAssumption
         DEF ArchiveInv, ShapeInv, ByteInv, LostInv, Sizes, Missing, Irregular, Hidden
    <3> QED BY <1>1, <2>1, <2>2, <3>1, <3>2 DEF ByteInv, Written
  <2>10. EndInv' /\ LostInv'
    BY <1>1, <2>1 DEF ArchiveInv, EndInv, LostInv, Left, sourceVars
  <2> QED BY <2>6, <2>7, <2>8, <2>9, <2>10 DEF ArchiveInv
<1> QED BY <1>2, <1>3

LEMMA IndexHeaderStep == ASSUME ArchiveInv, WriteIndexHeader PROVE ArchiveInv'
<1>1. /\ pc = "next" /\ todo = {} /\ path' = Index /\ length' = IndexLen /\ total_bytes' = 0
      /\ NewEntry(IndexName, IndexLen + excess) /\ index' = src_mapping /\ pc' = "copy"
      /\ UNCHANGED <<sourceVars, loopVars, excess, fatal, readable>>
  BY DEF WriteIndexHeader
<1>2. IndexName \in Int /\ IndexLen + excess \in Int /\ IndexLen \in Nat /\ excess \in Nat
  BY SizesAssumption DEF ArchiveInv, ShapeInv, IndexName
<1>3. /\ entries' \in Seq(Entry) /\ Len(entries') = Len(entries) + 1
      /\ Entries' = Entries \cup {Len(entries) + 1} /\ Len(entries) + 1 \notin Entries
      /\ \A k \in Entries : entries'[k] = entries[k]
      /\ Current' = [name |-> IndexName, of |-> Index, size |-> IndexLen + excess,
                     bytes |-> 0, zeroes |-> 0, had |-> 0]
      /\ Current' = entries'[Len(entries) + 1]
  BY <1>1, <1>2, NewEntryFacts DEF ArchiveInv
<1>4. \A q : Has(q)' <=> Has(q) \/ q = Index
  BY <1>3 DEF Has
<1>5. ~Has(Index) /\ \A q \in DOMAIN src_mapping : Has(q)
  BY <1>1 DEF ArchiveInv, ListInv, Early, Left
<1>6. Len(entries) \in Nat
  BY DEF ArchiveInv, ShapeInv
<1>7. ShapeInv'
  BY <1>1, <1>2, <1>3, <1>6 DEF ArchiveInv, ShapeInv, Early, Written, sourceVars, loopVars
<1>8. NumberInv'
  BY <1>1 DEF ArchiveInv, NumberInv, loopVars
<1>9. ListInv'
  <2>1. \A k \in Entries' :
          IF entries'[k].of = Index THEN entries'[k].name = IndexName
          ELSE entries'[k].of \in DOMAIN src_mapping' /\ entries'[k].name = src_mapping'[entries'[k].of]
    BY <1>1, <1>3 DEF ArchiveInv, ListInv, loopVars
  <2>2. \A k, m \in Entries' : entries'[k].of = entries'[m].of => k = m
    BY <1>3, <1>5 DEF ArchiveInv, ListInv, Has
  <2> QED BY <1>1, <1>4, <1>5, <2>1, <2>2 DEF ListInv, loopVars, Written, Early
<1>10. ByteInv'
  <2>1. \A k \in Entries' : entries'[k].bytes >= entries'[k].had
    BY <1>3 DEF ArchiveInv, ByteInv
  <2> QED BY <1>1, <1>2, <1>3, <2>1 DEF ByteInv, Written
<1>11. EndInv' /\ LostInv'
  BY <1>1 DEF ArchiveInv, EndInv, LostInv, Left
<1> QED BY <1>7, <1>8, <1>9, <1>10, <1>11 DEF ArchiveInv

(* What is written goes to the last entry. *)
LEMMA TouchFacts ==
  ASSUME ShapeInv, Len(entries) > 0, NEW e \in Entry,
         e.of = Current.of, e.name = Current.name,
         entries' = [entries EXCEPT ![Len(entries)] = e]
  PROVE  /\ SameList /\ entries' \in Seq(Entry) /\ Len(entries') = Len(entries)
         /\ Current' = e /\ Entries' = Entries /\ Current \in Entry
         /\ \A k \in Entries : k # Len(entries) => entries'[k] = entries[k]
  BY DEF ShapeInv, SameList, Entries, Current

LEMMA CopyStep == ASSUME ArchiveInv, Copy PROVE ArchiveInv'
<1> DEFINE n == Piece
           e == IF n > 0 THEN [Current EXCEPT !.bytes = @ + Taken(n)]
                ELSE [Current EXCEPT !.had = length]
<1>1. /\ pc = "copy" /\ UNCHANGED <<sourceVars, loopVars, path, length, excess, index, fatal, readable>>
      /\ Len(entries) > 0 /\ Current.of = path /\ ShapeInv
      /\ length \in Int /\ total_bytes \in Int /\ excess \in Nat /\ IndexLen \in Nat /\ BufSize \in Nat /\ BufSize > 0
  BY SizesAssumption DEF Copy, ArchiveInv, ShapeInv, Written
<1>2. Current \in Entry
  BY <1>1 DEF ShapeInv, Current
<1>3. /\ Current.bytes = total_bytes /\ Current.zeroes = 0 /\ total_bytes >= 0
      /\ Current.bytes <= Current.size /\ Current.bytes >= Current.had
      /\ path = Index => Current.size = IndexLen + excess /\ length = IndexLen /\ total_bytes <= IndexLen
  BY <1>1 DEF ArchiveInv, ByteInv, Written, Current, Entries, ShapeInv
<1>4. /\ n \in Int
      /\ n <= 0 => length <= total_bytes /\ (path = Index => total_bytes = IndexLen)
      /\ path = Index => n <= IndexLen - total_bytes /\ n <= Current.size - Current.bytes
  BY <1>1, <1>2, <1>3 DEF Piece, Least, Entry
<1>5. /\ Taken(n) \in Int /\ Taken(n) <= n /\ Taken(n) <= Current.size - Current.bytes
      /\ n > 0 => Taken(n) >= 0
      /\ Short(n) <=> Taken(n) # n
      /\ path = Index => Taken(n) = n
  BY <1>1, <1>2, <1>3, <1>4 DEF Taken, Least, Short, Entry
<1>6. /\ n > 0 => /\ entries' = [entries EXCEPT ![Len(entries)].bytes = @ + Taken(n)]
                  /\ total_bytes' = total_bytes + n
                  /\ pc' = IF Short(n) THEN "exception" ELSE "copy"
      /\ ~(n > 0) => /\ entries' = [entries EXCEPT ![Len(entries)].had = length]
                     /\ pc' = IF path = Index THEN "pad" ELSE "next"
                     /\ total_bytes' = total_bytes
  BY DEF Copy
<1> HIDE DEF n
<1>7. /\ e \in Entry /\ e.of = Current.of /\ e.name = Current.name /\ e.size = Current.size /\ e.zeroes = Current.zeroes
      /\ n > 0 => e.bytes = Current.bytes + Taken(n) /\ e.had = Current.had
      /\ ~(n > 0) => e.bytes = Current.bytes /\ e.had = length
  <2>1. CASE n > 0
    <3>1. e = [Current EXCEPT !.bytes = @ + Taken(n)]
      BY <2>1
    <3> QED BY <1>2, <1>5, <2>1, <3>1 DEF Entry
  <2>2. CASE ~(n > 0)
    <3>1. e = [Current EXCEPT !.had = length]
      BY <2>2
    <3> QED BY <1>1, <1>2, <2>2, <3>1 DEF Entry
  <2> QED BY <2>1, <2>2
<1>8. entries' = [entries EXCEPT ![Len(entries)] = e]
  BY <1>6 DEF Current
<1> HIDE DEF e
<1>9. /\ SameList /\ entries' \in Seq(Entry) /\ Len(entries') = Len(entries)
      /\ Current' = e /\ Entries' = Entries
      /\ \A k \in Entries : k # Len(entries) => entries'[k] = entries[k]
  BY <1>1, <1>7, <1>8, TouchFacts
<1>10. Moves
  BY <1>1, <1>6 DEF Moves, Written, Left
<1>11. NumberInv' /\ ListInv' /\ (\A p : Has(p)' <=> Has(p))
  BY <1>1, <1>9, <1>10, ListKept DEF loopVars
<1>12. ShapeInv'
  <2>1. total_bytes' \in Int
    BY <1>1, <1>4, <1>6
  <2> QED BY <1>1, <1>6, <1>7, <1>9, <2>1
          DEF ShapeInv, Early, Written, Left, sourceVars, loopVars
<1>13. ByteInv'
  <2>1. \A k \in Entries' : entries'[k].bytes >= entries'[k].had
    <3>1. e.bytes >= e.had
      BY <1>2, <1>3, <1>4, <1>5, <1>7, <1>1 DEF Entry
    <3> QED BY <1>9, <3>1 DEF ArchiveInv, ByteInv, Current
  <2>2. CASE n > 0 /\ ~Short(n)
    <3>1. pc' = "copy" /\ total_bytes' = total_bytes + n /\ Taken(n) = n
      BY <1>5, <1>6, <2>2
    <3>2. /\ Current'.bytes = total_bytes + n /\ Current'.zeroes = 0 /\ Current'.size = Current.size
          /\ Current'.bytes <= Current.size
      BY <1>2, <1>3, <1>5, <1>7, <1>9, <2>2, <3>1 DEF Entry
    <3>3. path = Index => total_bytes + n <= IndexLen
      BY <1>1, <1>4
    <3>4. total_bytes + n >= 0
      BY <1>1, <1>3, <1>4, <2>2
    <3> QED BY <1>1, <1>3, <2>1, <3>1, <3>2, <3>3, <3>4 DEF ByteInv
  <2>3. CASE n > 0 /\ Short(n)
    BY <1>6, <2>1, <2>3 DEF ByteInv, Written
  <2>4. CASE ~(n > 0) /\ path = Index
    BY <1>1, <1>2, <1>3, <1>4, <1>6, <1>7, <1>9, <2>1, <2>4 DEF ByteInv, Written, Entry
  <2>5. CASE ~(n > 0) /\ path # Index
    BY <1>6, <2>1, <2>5 DEF ByteInv, Written
  <2> QED BY <2>2, <2>3, <2>4, <2>5
<1>14. EndInv' /\ LostInv'
  <2>1. pc' \in Left => path # Index
    BY <1>5, <1>6 DEF Left
  <2>2. ~readable /\ (Has(Index) => path = Index) /\ pc' \notin {"size", "filesystem_error", "unwound"}
    BY <1>1, <1>6 DEF ArchiveInv, EndInv, ListInv, Written
  <2> QED BY <1>1, <1>11, <2>1, <2>2 DEF EndInv, LostInv
<1> QED BY <1>11, <1>12, <1>13, <1>14 DEF ArchiveInv

(* No more zeroes are written than are missing. *)
LEMMA ZeroesBound ==
  ASSUME NEW r \in Nat
  PROVE  Zeroes(r) \in Nat /\ Zeroes(r) <= r
<1>1. BufSize + 1 \in Nat \ {0}
  BY SizesAssumption
<1> DEFINE m == BufSize + 1
<1>2. r = (m * (r \div m)) + (r % m) /\ r % m \in Nat
  BY <1>1, SMT
<1>3. r \div m \in Nat
  BY <1>1, SMT
<1>4. m * (r \div m) \in Nat
  BY <1>1, <1>3, SMT
<1> QED BY <1>1, <1>2, <1>3, <1>4 DEF Zeroes

LEMMA PadStep == ASSUME ArchiveInv, Pad PROVE ArchiveInv'
<1> DEFINE rest == Current.size - total_bytes - Current.zeroes
           e == [Current EXCEPT !.zeroes = @ + Zeroes(rest)]
<1>1. /\ pc = "pad" /\ UNCHANGED <<sourceVars, loopVars, streamVars, excess, index, fatal, readable>>
      /\ Len(entries) > 0 /\ Current.of = path /\ path = Index /\ ShapeInv
      /\ total_bytes \in Int /\ excess \in Nat /\ IndexLen \in Nat
  BY SizesAssumption DEF Pad, ArchiveInv, ShapeInv, Written
<1>2. Current \in Entry
  BY <1>1 DEF ShapeInv, Current
<1>3. /\ Current.size = IndexLen + excess /\ length = IndexLen /\ total_bytes = IndexLen
      /\ Current.bytes = total_bytes /\ Current.zeroes <= excess
      /\ \A k \in Entries : entries[k].bytes >= entries[k].had
      /\ Len(entries) \in Entries
  BY <1>1 DEF ArchiveInv, ByteInv, Written, Entries, ShapeInv
<1>4. rest = excess - Current.zeroes /\ rest \in Nat
  BY <1>1, <1>2, <1>3 DEF Entry
<1>5. Zeroes(rest) \in Nat /\ Zeroes(rest) <= rest
  BY <1>4, ZeroesBound
<1>6. CASE rest > 0
  <2>1. pc' = pc /\ entries' = [entries EXCEPT ![Len(entries)] = e]
    BY <1>6 DEF Pad, Current
  <2>2. /\ e \in Entry /\ e.of = Current.of /\ e.name = Current.name /\ e.size = Current.size
        /\ e.bytes = Current.bytes /\ e.had = Current.had /\ e.zeroes = Current.zeroes + Zeroes(rest)
    BY <1>2, <1>5 DEF Entry
  <2> HIDE DEF e
  <2>3. /\ SameList /\ entries' \in Seq(Entry) /\ Len(entries') = Len(entries)
        /\ Current' = e /\ Entries' = Entries
        /\ \A k \in Entries : k # Len(entries) => entries'[k] = entries[k]
    BY <1>1, <2>1, <2>2, TouchFacts
  <2>4. Moves /\ todo' = todo /\ src_mapping' = src_mapping /\ index' = index
    BY <1>1, <2>1 DEF Moves, streamVars, loopVars
  <2>5. NumberInv' /\ ListInv' /\ (\A p : Has(p)' <=> Has(p))
    BY <2>3, <2>4, ListKept
  <2>6. ShapeInv'
    BY <1>1, <2>1, <2>2, <2>3 DEF ShapeInv, sourceVars, loopVars, streamVars
  <2>7. e.zeroes <= excess
    BY <1>2, <1>4, <1>5, <2>2, <1>1 DEF Entry
  <2>8. \A k \in Entries' : entries'[k].bytes >= entries'[k].had
    BY <1>3, <2>2, <2>3 DEF Current
  <2>9. ByteInv'
    BY <1>1, <1>3, <2>1, <2>2, <2>3, <2>7, <2>8 DEF ByteInv, streamVars
  <2>10. EndInv' /\ LostInv'
    BY <1>1, <2>1 DEF ArchiveInv, EndInv, LostInv, Left
  <2> QED BY <2>5, <2>6, <2>9, <2>10 DEF ArchiveInv
<1>7. CASE ~(rest > 0)
  <2>1. pc' = "close" /\ entries' = entries
    BY <1>7 DEF Pad
  <2>2. SameList /\ Moves /\ todo' = todo /\ src_mapping' = src_mapping /\ index' = index
    BY <1>1, <2>1 DEF SameList, Moves, Written, streamVars, loopVars
  <2>3. NumberInv' /\ ListInv'
    BY <2>2, ListKept
  <2>4. ShapeInv'
    BY <1>1, <2>1 DEF ShapeInv, Early, Written, Current, sourceVars, loopVars, streamVars
  <2>5. Current.zeroes = excess
    BY <1>1, <1>2, <1>4, <1>7 DEF Entry
  <2>6. ByteInv'
    BY <1>1, <1>3, <2>1, <2>5 DEF ByteInv, streamVars, Current, Entries
  <2>7. EndInv' /\ LostInv'
    BY <1>1, <2>1 DEF ArchiveInv, EndInv, LostInv, Left
  <2> QED BY <2>3, <2>4, <2>6, <2>7 DEF ArchiveInv
<1> QED BY <1>6, <1>7

(* The archive is closed, or left. *)
LEMMA EndStep ==
  ASSUME ArchiveInv, Construct \/ Close \/ WriteFails \/ Destroy
  PROVE  ArchiveInv'
<1>1. UNCHANGED <<sourceVars, loopVars, streamVars, excess, entries, index>>
  BY DEF Construct, Close, WriteFails, Destroy, archiveVars
<1>2. SameList /\ Moves /\ todo' = todo /\ src_mapping' = src_mapping /\ index' = index
  BY <1>1 DEF SameList, Moves, Construct, Close, WriteFails, Destroy, Left, Written,
              loopVars, streamVars
<1>3. NumberInv' /\ ListInv' /\ (Has(Index)' <=> Has(Index))
  BY <1>2, ListKept
<1>4. ShapeInv'
  BY <1>1 DEF Construct, Close, WriteFails, Destroy, ArchiveInv, ShapeInv, Early, Written, Left,
              Current, sourceVars, loopVars, streamVars, archiveVars
<1>5. ByteInv'
  BY <1>1 DEF Construct, Close, WriteFails, Destroy, ArchiveInv, ByteInv, Written,
              Current, Entries, streamVars
<1>6. EndInv' /\ LostInv'
  <2>1. CASE Construct
    BY <1>1, <1>3, <2>1 DEF Construct, ArchiveInv, ListInv, EndInv, LostInv, Early, archiveVars
  <2>2. CASE Close
    BY <1>1, <2>2 DEF Close, EndInv, LostInv, Left
  <2>3. CASE WriteFails
    BY <1>1, <2>3 DEF WriteFails, ArchiveInv, EndInv, LostInv, sourceVars, streamVars
  <2>4. CASE Destroy
    BY <1>1, <1>3, <2>4 DEF Destroy, ArchiveInv, EndInv, LostInv, Left, sourceVars, streamVars
  <2> QED BY <2>1, <2>2, <2>3, <2>4
<1> QED BY <1>3, <1>4, <1>5, <1>6 DEF ArchiveInv

LEMMA Invariance == Spec => []ArchiveInv
<1>1. ArchiveInv /\ [Next]_vars => ArchiveInv'
  <2> SUFFICES ASSUME ArchiveInv, [Next]_vars PROVE ArchiveInv'
    OBVIOUS
  <2>1. CASE ArchiveRuns
    BY <2>1, OpenStep, FileHeaderStep, IndexHeaderStep, CopyStep, PadStep, EndStep DEF ArchiveRuns
  <2>2. CASE WriteFails
    BY <2>2, EndStep
  <2>3. CASE \/ \E p \in Paths, size \in Sizes : Edit(p, size)
            \/ \E p \in Paths, to \in {Missing, Hidden} : Lose(p, to)
    BY <2>3, SourcesStep
  <2>4. CASE UNCHANGED vars
    <3>1. SameList /\ Moves /\ UNCHANGED <<todo, src_mapping, index>>
      BY <2>4 DEF SameList, Moves, vars, loopVars, streamVars, archiveVars
    <3>2. NumberInv' /\ ListInv'
      BY <3>1, ListKept
    <3> QED BY <2>4, <3>2 DEF ArchiveInv, ShapeInv, ByteInv, EndInv, LostInv, Current, Entries, Has,
               vars, sourceVars, loopVars, streamVars, archiveVars
  <2> QED BY <2>1, <2>2, <2>3, <2>4 DEF Next
<1> QED BY <1>1, InitInv, PTL DEF Spec

-----------------------------------------------------------------------------
(* IndexTrue, for any files and whatever becomes of them: an index that can *)
(* be read is whole, filled to its size, and names entries, each its own.  *)
THEOREM IndexTrueTheorem == Spec => []IndexTrue
<1>1. ArchiveInv => IndexTrue
  <2> SUFFICES ASSUME ArchiveInv, NEW i \in Entries, readable, entries[i].of = Index
               PROVE  /\ entries[i].bytes = IndexLen
                      /\ entries[i].bytes + entries[i].zeroes = entries[i].size
                      /\ DOMAIN index = Paths
                      /\ \A p \in Paths : \E k \in Sources :
                           /\ entries[k].of = p
                           /\ {m \in Entries : entries[m].name = index[p]} = {k}
    BY DEF IndexTrue
  <2>1. Has(Index) /\ pc = "closed"
    <3>1. Has(Index)
      BY DEF Has
    <3> QED BY <3>1 DEF ArchiveInv, EndInv, Left
  <2>2. /\ DOMAIN src_mapping = Paths /\ index = src_mapping
        /\ \A p \in Paths : Has(p)
    BY <2>1 DEF ArchiveInv, ListInv, ShapeInv
  <2>3. entries[i].bytes = IndexLen /\ entries[i].bytes + entries[i].zeroes = entries[i].size
    <3>1. /\ Len(entries) \in Entries /\ Current.of = Index /\ Current.bytes = IndexLen
          /\ Current.bytes + Current.zeroes = Current.size
      BY <2>1, SizesAssumption DEF ArchiveInv, ShapeInv, ByteInv, Written, Entries
    <3>2. i = Len(entries)
      BY <3>1 DEF ArchiveInv, ListInv, Current
    <3> QED BY <3>1, <3>2 DEF Current
  <2>4. ASSUME NEW p \in Paths
        PROVE  \E k \in Sources : /\ entries[k].of = p
                                 /\ {m \in Entries : entries[m].name = index[p]} = {k}
    <3>1. PICK k \in Entries : entries[k].of = p
      BY <2>2 DEF Has
    <3>2. p # Index /\ k \in Sources /\ entries[k].name = index[p]
      BY <2>2, <3>1, PathsAssumption DEF Sources, ArchiveInv, ListInv
    <3>3. ASSUME NEW m \in Entries, entries[m].name = index[p] PROVE m = k
      <4>1. index[p] \in Nat /\ index[p] # IndexName
        BY <2>2 DEF ArchiveInv, NumberInv, IndexName
      <4>2. entries[m].of \in Paths /\ src_mapping[entries[m].of] = src_mapping[p]
        BY <2>2, <3>3, <4>1 DEF ArchiveInv, ListInv
      <4>3. entries[m].of = p
        BY <2>2, <4>2 DEF ArchiveInv, NumberInv
      <4> QED BY <3>1, <4>3 DEF ArchiveInv, ListInv
    <3> QED BY <3>1, <3>2, <3>3
  <2> QED BY <2>2, <2>3, <2>4
<1> QED BY <1>1, Invariance, PTL

(* NothingCut, for any sizes and any edits in between. *)
THEOREM NothingCutTheorem == Spec => []NothingCut
<1>1. ArchiveInv => NothingCut
  BY DEF ArchiveInv, ByteInv, NothingCut, Sources
<1> QED BY <1>1, Invariance, PTL

(* ReportedUnlessLost, for any files removed or hidden at any time. *)
THEOREM ReportedUnlessLostTheorem == Spec => []ReportedUnlessLost
<1>1. ArchiveInv => ReportedUnlessLost
  BY DEF ArchiveInv, LostInv, ReportedUnlessLost
<1> QED BY <1>1, Invariance, PTL
=============================================================================
