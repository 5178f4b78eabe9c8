-------------------------- MODULE LineReaderProofs --------------------------
(***************************************************************************)
(* Theorems about module LineReader, for any size of the buffer, any stream *)
(* and any pieces it arrives in.                                           *)
(***************************************************************************)
EXTENDS LineReader, FiniteSetTheorems, SequenceTheorems, TLAPS

-----------------------------------------------------------------------------
(* Sets of positions and their order.                                       *)

LEMMA LeastOf ==
  ASSUME NEW S, S \subseteq Nat, S # {}
  PROVE  \E n \in S : \A m \in S : n <= m
<1>1. \E x \in S : \A y \in S : ~(<<y, x>> \in OpToRel(<, Nat))
  BY NatLessThanWellFounded, WFMin
<1>2. \E x \in S : \A y \in S : ~(y < x)
  BY <1>1, Zenon DEF OpToRel
<1> QED BY <1>2

LEMMA LargestOf ==
  ASSUME NEW N \in Nat, NEW S, S \subseteq 0..N, S # {}
  PROVE  \E m \in S : \A k \in S : k <= m
<1> DEFINE Bounds == {n \in 0..N : \A k \in S : k <= n}
<1>1. N \in Bounds /\ Bounds \subseteq Nat
  OBVIOUS
<1>2. PICK m \in Bounds : \A n \in Bounds : m <= n
  <2> HIDE DEF Bounds
  <2> QED BY <1>1, LeastOf
<1>3. m \in 0..N /\ \A k \in S : k \in Nat /\ k <= m
  BY <1>2
<1>4. m \in S
  <2> SUFFICES ASSUME m \notin S PROVE FALSE
    OBVIOUS
  <2>1. PICK k : k \in S
    OBVIOUS
  <2>2. m - 1 \in 0..N /\ \A l \in S : l <= m - 1
    BY <1>3, <2>1
  <2>3. m - 1 \in Bounds
    BY <2>2
  <2> HIDE DEF Bounds
  <2> QED BY <1>2, <1>3, <2>3
<1> QED BY <1>3, <1>4

Rank(K, k) == Cardinality({m \in K : m <= k})

LEMMA RankOf ==
  ASSUME NEW N \in Nat, NEW K, K \subseteq 1..N
  PROVE  /\ IsFiniteSet(K) /\ Cardinality(K) \in Nat
         /\ \A k : Rank(K, k) \in Nat /\ Rank(K, k) <= Cardinality(K)
         /\ \A k \in K : Rank(K, k) >= 1
         /\ \A k \in K, l \in Nat : l < k => Rank(K, l) < Rank(K, k)
<1>0. \A k \in K : k \in Nat /\ k >= 1 /\ k <= N
  OBVIOUS
<1>1. IsFiniteSet(K) /\ Cardinality(K) \in Nat
  <2> DEFINE All == 1..N
  <2>1. IsFiniteSet(All)
    BY FS_Interval
  <2>2. K \in SUBSET All
    OBVIOUS
  <2> HIDE DEF All
  <2> QED BY <2>1, <2>2, FS_Subset, FS_CardinalityType
<1>2. ASSUME NEW k
      PROVE  /\ IsFiniteSet({m \in K : m <= k})
             /\ Rank(K, k) \in Nat /\ Rank(K, k) <= Cardinality(K)
  <2> DEFINE A == {m \in K : m <= k}
  <2>1. A \in SUBSET K
    OBVIOUS
  <2> HIDE DEF A
  <2>2. IsFiniteSet(A) /\ Cardinality(A) <= Cardinality(K) /\ Cardinality(A) \in Nat
    BY <1>1, <2>1, FS_Subset, FS_CardinalityType
  <2> QED BY <2>2 DEF A, Rank
<1>3. ASSUME NEW k \in K, NEW l \in Nat, l < k
      PROVE  Rank(K, l) < Rank(K, k)
  <2> DEFINE A == {m \in K : m <= l}
             B == {m \in K : m <= k}
  <2>1. A \in SUBSET B /\ k \in B /\ k \notin A
    <3>1. k \in Nat /\ \A m \in K : m \in Nat
      BY <1>0
    <3>2. \A m \in K : m <= l => m <= k
      BY <1>3, <3>1
    <3>3. ~(k <= l) /\ k <= k
      BY <1>3, <3>1
    <3> QED BY <3>2, <3>3
  <2>2. IsFiniteSet(B) /\ Cardinality(A) = Rank(K, l) /\ Cardinality(B) = Rank(K, k)
    BY <1>2 DEF Rank
  <2> HIDE DEF A, B
  <2>3. Cardinality(A) <= Cardinality(B) /\ Cardinality(A) # Cardinality(B)
    <3>1. A # B
      BY <2>1
    <3>2. IsFiniteSet(B) /\ A \in SUBSET B
      BY <2>1, <2>2
    <3>3. Cardinality(A) <= Cardinality(B) /\ (Cardinality(B) = Cardinality(A) => B = A)
      BY <3>2, FS_Subset
    <3> QED BY <3>1, <3>3
  <2>4. Rank(K, k) \in Nat /\ Rank(K, l) \in Nat
    BY <1>2
  <2> QED BY <2>2, <2>3, <2>4
<1>4. ASSUME NEW k \in K PROVE Rank(K, k) >= 1
  <2>1. 0 \in Nat /\ 0 < k
    BY <1>0
  <2>2. Rank(K, 0) < Rank(K, k) /\ Rank(K, 0) \in Nat /\ Rank(K, k) \in Nat
    BY <1>2, <1>3, <2>1
  <2> QED BY <2>2
<1> QED BY <1>1, <1>2, <1>3, <1>4

(* Every number up to that of the positions is the rank of one of them.     *)
LEMMA RankTaken ==
  ASSUME NEW N \in Nat, NEW K, K \subseteq 1..N, NEW j \in 1..Cardinality(K)
  PROVE  \E k \in K : Rank(K, k) = j
<1> DEFINE Late == {k \in K : Rank(K, k) >= j}
<1>1. /\ IsFiniteSet(K) /\ Cardinality(K) \in Nat /\ j \in Nat /\ j >= 1 /\ j <= Cardinality(K)
      /\ \A k : Rank(K, k) \in Nat
      /\ \A k \in K : k \in Nat /\ k >= 1 /\ k <= N
  <2>1. /\ IsFiniteSet(K) /\ Cardinality(K) \in Nat
        /\ \A k : Rank(K, k) \in Nat
    BY RankOf, Zenon
  <2>2. \A k \in K : k \in Nat /\ k >= 1 /\ k <= N
    OBVIOUS
  <2> QED BY <2>1, <2>2
(* The largest of those up to a number, and the rest below it.             *)
<1>2. ASSUME NEW n \in Nat, Rank(K, n) > 0
      PROVE  \E m \in K : m <= n /\ Rank(K, m) = Rank(K, n)
  <2> DEFINE A == {m \in K : m <= n}
  <2>1. A # {} /\ A \subseteq 0..N
    <3>1. Rank(K, n) = Cardinality(A)
      BY DEF Rank
    <3>2. A # {}
      <4> HIDE DEF A
      <4> QED BY <1>2, <3>1, FS_EmptySet
    <3>3. \A k \in K : k \in 0..N
      BY <1>1
    <3> QED BY <3>2, <3>3
  <2>2. PICK m \in A : \A k \in A : k <= m
    <3> HIDE DEF A
    <3> QED BY <2>1, LargestOf
  <2>3. {k \in K : k <= m} = A
    <3>1. m \in K /\ m <= n /\ \A k \in K : k <= n => k <= m
      BY <2>2
    <3>2. m \in Nat /\ \A k \in K : k \in Nat
      BY <1>1, <3>1
    <3>3. \A k \in K : k <= m => k <= n
      BY <3>1, <3>2
    <3> QED BY <3>1, <3>3
  <2> QED BY <2>2, <2>3 DEF Rank
<1>3. Late # {}
  <2>1. {k \in K : k <= N} = K
    BY <1>1
  <2>2. Rank(K, N) = Cardinality(K)
    BY <2>1 DEF Rank
  <2>3. Rank(K, N) > 0
    BY <1>1, <2>2
  <2>4. PICK m \in K : Rank(K, m) = Rank(K, N)
    BY <1>2, <2>3
  <2> QED BY <1>1, <2>2, <2>4
<1>4. PICK first \in Late : \A k \in Late : first <= k
  <2>1. Late \subseteq Nat
    BY <1>1
  <2> HIDE DEF Late
  <2> QED BY <1>3, <2>1, LeastOf
<1>5. first \in K /\ first - 1 \in Nat /\ Rank(K, first) >= j
  BY <1>1, <1>4
<1>6. Rank(K, first) = Rank(K, first - 1) + 1
  <2> DEFINE A == {m \in K : m <= first - 1}
  <2>1. {m \in K : m <= first} = A \cup {first} /\ first \notin A /\ A \in SUBSET K
    <3>1. first \in Nat /\ \A k \in K : k \in Nat
      BY <1>1, <1>5
    <3>2. \A k \in K : k <= first <=> (k <= first - 1 \/ k = first)
      BY <3>1
    <3>3. ~(first <= first - 1)
      BY <3>1
    <3> QED BY <1>5, <3>2, <3>3
  <2>2. Cardinality(A) = Rank(K, first - 1)
    BY DEF Rank
  <2> HIDE DEF A
  <2>3. IsFiniteSet(A)
    BY <1>1, <2>1, FS_Subset
  <2>4. Cardinality(A \cup {first}) = Cardinality(A) + 1
    BY <2>1, <2>3, FS_AddElement
  <2> QED BY <2>1, <2>2, <2>4 DEF Rank
<1>7. ~(Rank(K, first - 1) >= j)
  <2> SUFFICES ASSUME Rank(K, first - 1) >= j PROVE FALSE
    OBVIOUS
  <2>1. Rank(K, first - 1) > 0
    BY <1>1
  <2>2. PICK m \in K : m <= first - 1 /\ Rank(K, m) = Rank(K, first - 1)
    BY <1>2, <1>5, <2>1
  <2>3. m \in Late /\ ~(first <= m)
    BY <1>1, <1>5, <2>2
  <2> QED BY <1>4, <2>3
<1>8. Rank(K, first - 1) \in Nat /\ Rank(K, first) \in Nat
  BY <1>1
<1> QED BY <1>1, <1>5, <1>6, <1>7, <1>8

(* Nth counts the positions through.                                        *)
LEMMA NthIs ==
  ASSUME NEW N \in Nat, NEW K, K \subseteq 1..N
  PROVE  /\ \A k \in K : Rank(K, k) \in 1..Cardinality(K) /\ Nth(K, Rank(K, k)) = k
         /\ \A j \in 1..Cardinality(K) : Nth(K, j) \in K /\ Rank(K, Nth(K, j)) = j
<1>0. /\ \A k : Rank(K, k) \in Nat /\ Rank(K, k) <= Cardinality(K)
      /\ \A k \in K : Rank(K, k) >= 1
      /\ \A k \in K, l \in Nat : l < k => Rank(K, l) < Rank(K, k)
      /\ Cardinality(K) \in Nat
  BY RankOf, Zenon
<1>1. \A k, l \in K : Rank(K, k) = Rank(K, l) => k = l
  <2> SUFFICES ASSUME NEW k \in K, NEW l \in K, Rank(K, k) = Rank(K, l), k # l PROVE FALSE
    OBVIOUS
  <2>1. k \in Nat /\ l \in Nat /\ (k < l \/ l < k)
    OBVIOUS
  <2>2. (k < l => Rank(K, k) < Rank(K, l)) /\ (l < k => Rank(K, l) < Rank(K, k))
    BY <1>0, <2>1
  <2>3. Rank(K, k) \in Nat /\ Rank(K, l) \in Nat
    BY <1>0
  <2> QED BY <2>1, <2>2, <2>3
<1>2. \A j : Nth(K, j) = CHOOSE k \in K : Rank(K, k) = j
  BY DEF Nth, Rank
<1>3. ASSUME NEW j \in 1..Cardinality(K) PROVE Nth(K, j) \in K /\ Rank(K, Nth(K, j)) = j
  <2>1. \E k \in K : Rank(K, k) = j
    BY RankTaken, Zenon
  <2> QED BY <1>2, <2>1
<1>4. ASSUME NEW k \in K PROVE Rank(K, k) \in 1..Cardinality(K) /\ Nth(K, Rank(K, k)) = k
  <2>1. Rank(K, k) \in 1..Cardinality(K)
    BY <1>0
  <2> QED BY <1>1, <1>3, <2>1
<1> QED BY <1>3, <1>4

(* A position after all the others is the last one.                         *)
LEMMA NthGrows ==
  ASSUME NEW N \in Nat, NEW K, K \subseteq 1..N
  PROVE  /\ Cardinality(K) \in Nat
         /\ Cardinality(K \cup {N + 1}) = Cardinality(K) + 1
         /\ \A j \in 1..Cardinality(K) :
              Nth(K \cup {N + 1}, j) = Nth(K, j) /\ Nth(K, j) \in K
         /\ Nth(K \cup {N + 1}, Cardinality(K) + 1) = N + 1
<1> DEFINE L == K \cup {N + 1}
<1>1. /\ N + 1 \in Nat /\ L \subseteq 1..(N + 1) /\ N + 1 \in L /\ N + 1 \notin K
      /\ K \subseteq L /\ \A k \in L : k \in Nat /\ k <= N + 1
  OBVIOUS
<1>2. IsFiniteSet(K) /\ Cardinality(K) \in Nat
  BY RankOf, Zenon
<1>3. Cardinality(L) = Cardinality(K) + 1
  BY <1>1, <1>2, FS_AddElement
<1>4. \A k \in K : {m \in L : m <= k} = {m \in K : m <= k}
  <2>1. \A k \in K : ~(N + 1 <= k)
    OBVIOUS
  <2> QED BY <2>1
<1>5. \A k \in K : Rank(L, k) = Rank(K, k)
  BY <1>4, Zenon DEF Rank
<1>6. {m \in L : m <= N + 1} = L
  BY <1>1
<1>7. Rank(L, N + 1) = Cardinality(L)
  BY <1>6, Zenon DEF Rank
<1> HIDE DEF L
<1>8. \A k \in L : Nth(L, Rank(L, k)) = k
  BY <1>1, NthIs, Zenon
<1>9. \A j \in 1..Cardinality(K) : Nth(K, j) \in K /\ Rank(K, Nth(K, j)) = j
  BY NthIs, Zenon
<1>10. Nth(L, Cardinality(K) + 1) = N + 1
  BY <1>1, <1>3, <1>7, <1>8
<1>11. \A j \in 1..Cardinality(K) : Nth(L, j) = Nth(K, j)
  BY <1>1, <1>5, <1>8, <1>9, Zenon
<1> QED BY <1>2, <1>3, <1>9, <1>10, <1>11, Zenon DEF L

LEMMA MaxIs ==
  ASSUME NEW S, S \subseteq Nat, NEW m \in S, \A k \in S : k <= m
  PROVE  Max(S) = m
<1>1. \A x \in S : (\A y \in S : x >= y) => x = m
  <2> SUFFICES ASSUME NEW x \in S, \A y \in S : x >= y PROVE x = m
    OBVIOUS
  <2>1. x >= m /\ x <= m /\ x \in Nat /\ m \in Nat
    OBVIOUS
  <2> QED BY <2>1
<1>2. \A y \in S : m >= y
  OBVIOUS
<1> QED BY <1>1, <1>2 DEF Max

-----------------------------------------------------------------------------
(* The lines of a stream that grows by a byte.                              *)

Bytes == Nat
Streams == Seq(Bytes)

(* Where the last line of s ends.                                           *)
LastEnd(s) == Max({0} \cup Newlines(s))

LEMMA NewlinesOf ==
  ASSUME NEW s \in Streams
  PROVE  Newlines(s) \subseteq 1..Len(s) /\ Len(s) \in Nat
BY DEF Newlines, Streams, Bytes

LEMMA NewlinesOfAppend ==
  ASSUME NEW s \in Streams, NEW b \in Bytes
  PROVE  /\ Append(s, b) \in Streams /\ Len(Append(s, b)) = Len(s) + 1
         /\ \A k \in 1..Len(s) : Append(s, b)[k] = s[k]
         /\ Newlines(Append(s, b))
              = IF b = Newline THEN Newlines(s) \cup {Len(s) + 1} ELSE Newlines(s)
<1>1. /\ Append(s, b) \in Streams /\ Len(Append(s, b)) = Len(s) + 1
      /\ \A k \in 1..Len(s) : Append(s, b)[k] = s[k]
      /\ Append(s, b)[Len(s) + 1] = b
      /\ Len(s) \in Nat
  BY AppendProperties DEF Streams, Bytes
<1>2. DOMAIN Append(s, b) = 1..(Len(s) + 1) /\ DOMAIN s = 1..Len(s)
  BY <1>1 DEF Streams
<1>3. \A k : k \in 1..(Len(s) + 1) <=> (k \in 1..Len(s) \/ k = Len(s) + 1)
  BY <1>1
<1>4. \A k : k \in Newlines(Append(s, b)) <=>
               (k \in Newlines(s) \/ (k = Len(s) + 1 /\ b = Newline))
  BY <1>1, <1>2, <1>3 DEF Newlines
<1> QED BY <1>1, <1>4

LEMMA LastEndOf ==
  ASSUME NEW s \in Streams
  PROVE  /\ LastEnd(s) \in 0..Len(s)
         /\ \A k \in Newlines(s) : k <= LastEnd(s)
         /\ LastEnd(s) = IF Newlines(s) = {} THEN 0
                         ELSE Nth(Newlines(s), Cardinality(Newlines(s)))
<1> DEFINE K == Newlines(s)
           S == {0} \cup K
<1>1. /\ K \subseteq 1..Len(s) /\ Len(s) \in Nat
      /\ \A k \in K : k \in 1..Len(s)
  BY NewlinesOf
<1>2. S \subseteq 0..Len(s) /\ S # {} /\ 0 \in S /\ S \subseteq Nat
  BY <1>1
<1>3. PICK m \in S : \A k \in S : k <= m
  <2> HIDE DEF S
  <2> QED BY <1>1, <1>2, LargestOf
<1>4. LastEnd(s) = m
  <2>1. Max(S) = m
    <3> HIDE DEF S
    <3> QED BY <1>2, <1>3, MaxIs
  <2> QED BY <2>1 DEF LastEnd
<1>5. CASE K = {}
  BY <1>1, <1>3, <1>4, <1>5
<1>6. CASE K # {}
  <2>1. m \in K /\ \A k \in K : k <= m
    <3>1. PICK k \in K : TRUE
      BY <1>6
    <3>2. k >= 1 /\ k <= m
      BY <1>1, <1>3, <3>1
    <3> QED BY <1>1, <1>3, <3>2
  <2>2. {k \in K : k <= m} = K
    BY <2>1
  <2>3. Rank(K, m) = Cardinality(K)
    BY <2>2, Zenon DEF Rank
  <2>4. Nth(K, Rank(K, m)) = m
    <3> HIDE DEF K
    <3> QED BY <1>1, <2>1, NthIs, Zenon
  <2> QED BY <1>1, <1>4, <1>6, <2>1, <2>3, <2>4
<1> QED BY <1>5, <1>6

PieceStart(s, j) == IF j = 1 THEN 1 ELSE Nth(Newlines(s), j - 1) + 1
Piece(s, j) == SubSeq(s, PieceStart(s, j), Nth(Newlines(s), j) - 1)

LEMMA SegmentsAre ==
  ASSUME NEW s
  PROVE  /\ Segments(s) = [j \in 1..Cardinality(Newlines(s)) |-> Piece(s, j)]
         /\ Remainder(s) = SubSeq(s, 1 + LastEnd(s), Len(s))
BY Zenon DEF Segments, Piece, PieceStart, Remainder, LastEnd

LEMMA StreamCut ==
  ASSUME NEW s \in Streams, NEW m \in Nat \ {0}, NEW n \in Nat, n <= Len(s)
  PROVE  /\ SubSeq(s, m, n) \in Streams
         /\ Len(SubSeq(s, m, n)) = IF m <= n THEN n - m + 1 ELSE 0
         /\ \A i \in 1..(n - m + 1) : SubSeq(s, m, n)[i] = s[m + i - 1]
<1>1. m \in Int /\ n \in Int /\ \A i \in m..n : s[i] \in Bytes
  BY LenProperties, ElementOfSeq DEF Streams
<1> QED BY <1>1, SubSeqProperties DEF Streams

LEMMA SubSeqOfAppend ==
  ASSUME NEW s \in Streams, NEW b \in Bytes, NEW m \in Nat \ {0}, NEW n \in Nat, n <= Len(s)
  PROVE  SubSeq(Append(s, b), m, n) = SubSeq(s, m, n)
<1>1. /\ Append(s, b) \in Streams /\ Len(Append(s, b)) = Len(s) + 1 /\ Len(s) \in Nat
      /\ \A k \in 1..Len(s) : Append(s, b)[k] = s[k]
  BY NewlinesOfAppend, NewlinesOf
<1> DEFINE a == SubSeq(Append(s, b), m, n)
           c == SubSeq(s, m, n)
<1>2. /\ a \in Streams /\ Len(a) = IF m <= n THEN n - m + 1 ELSE 0
      /\ \A i \in 1..(n - m + 1) : a[i] = Append(s, b)[m + i - 1]
  <2>1. Append(s, b) \in Streams /\ n <= Len(Append(s, b))
    BY <1>1
  <2> QED BY <2>1, StreamCut
<1>3. /\ c \in Streams /\ Len(c) = IF m <= n THEN n - m + 1 ELSE 0
      /\ \A i \in 1..(n - m + 1) : c[i] = s[m + i - 1]
  BY StreamCut
<1>4. \A i \in 1..(n - m + 1) : m + i - 1 \in 1..Len(s)
  BY <1>1
<1>5. Len(a) = Len(c) /\ \A i \in 1..Len(a) : i \in 1..(n - m + 1)
  BY <1>2, <1>3
<1> HIDE DEF a, c
<1>6. \A i \in 1..Len(a) : a[i] = c[i]
  BY <1>1, <1>2, <1>3, <1>4, <1>5
<1>7. a = c
  BY <1>2, <1>3, <1>5, <1>6, SeqEqual DEF Streams
<1> QED BY <1>7 DEF a, c

(* The bytes of a line and where they are.                                  *)
LEMMA PieceBounds ==
  ASSUME NEW s \in Streams, NEW j \in 1..Cardinality(Newlines(s))
  PROVE  /\ PieceStart(s, j) \in Nat \ {0}
         /\ Nth(Newlines(s), j) - 1 \in Nat /\ Nth(Newlines(s), j) - 1 < Len(s)
         /\ Nth(Newlines(s), j) \in Newlines(s)
         /\ Piece(s, j) \in Streams
<1> DEFINE K == Newlines(s)
<1>1. K \subseteq 1..Len(s) /\ Len(s) \in Nat
  BY NewlinesOf
<1>2. Cardinality(K) \in Nat /\ \A i \in 1..Cardinality(K) : Nth(K, i) \in K
  <2> HIDE DEF K
  <2> QED BY <1>1, NthGrows, Zenon
<1>3. \A i \in 1..Cardinality(K) : Nth(K, i) \in 1..Len(s)
  BY <1>1, <1>2
<1>4. j = 1 \/ j - 1 \in 1..Cardinality(K)
  BY <1>2
<1>5. PieceStart(s, j) \in Nat \ {0}
  BY <1>3, <1>4 DEF PieceStart
<1>6. Nth(K, j) \in 1..Len(s)
  BY <1>3
<1>7. Nth(K, j) - 1 \in Nat /\ Nth(K, j) - 1 < Len(s)
  BY <1>1, <1>6
<1>8. Piece(s, j) \in Streams
  BY <1>1, <1>5, <1>7, StreamCut DEF Piece
<1> QED BY <1>2, <1>5, <1>7, <1>8

LEMMA SegmentsType ==
  ASSUME NEW s \in Streams
  PROVE  /\ Segments(s) \in Seq(Streams) /\ Len(Segments(s)) = Cardinality(Newlines(s))
         /\ Cardinality(Newlines(s)) \in Nat
         /\ Remainder(s) \in Streams
         /\ Len(Remainder(s)) = Len(s) - LastEnd(s)
         /\ \A i \in 1..Len(Remainder(s)) : Remainder(s)[i] = s[LastEnd(s) + i]
<1>1. Newlines(s) \subseteq 1..Len(s) /\ Len(s) \in Nat /\ LastEnd(s) \in 0..Len(s)
  BY NewlinesOf, LastEndOf
<1>2. Cardinality(Newlines(s)) \in Nat
  BY <1>1, NthGrows, Zenon
<1>3. \A j \in 1..Cardinality(Newlines(s)) : Piece(s, j) \in Streams
  BY PieceBounds
<1>4. Segments(s) \in Seq(Streams) /\ Len(Segments(s)) = Cardinality(Newlines(s))
  <2> DEFINE n == Cardinality(Newlines(s))
  <2>1. n \in Nat /\ Segments(s) = [j \in 1..n |-> Piece(s, j)]
    BY <1>2, SegmentsAre, Zenon
  <2>2. \A j \in 1..n : Piece(s, j) \in Streams
    BY <1>3
  <2> HIDE DEF n
  <2>3. Segments(s) \in Seq(Streams) /\ Len(Segments(s)) = n
    BY <2>1, <2>2
  <2> QED BY <2>3 DEF n
<1>5. 1 + LastEnd(s) \in Nat \ {0} /\ Len(s) - (1 + LastEnd(s)) + 1 = Len(s) - LastEnd(s)
  BY <1>1
<1>6. /\ Remainder(s) \in Streams
      /\ Len(Remainder(s)) = IF 1 + LastEnd(s) <= Len(s) THEN Len(s) - (1 + LastEnd(s)) + 1 ELSE 0
      /\ \A i \in 1..(Len(s) - (1 + LastEnd(s)) + 1) : Remainder(s)[i] = s[(1 + LastEnd(s)) + i - 1]
  <2>1. Len(s) <= Len(s)
    BY <1>1
  <2>2. Remainder(s) = SubSeq(s, 1 + LastEnd(s), Len(s))
    BY SegmentsAre
  <2> QED BY <1>1, <1>5, <2>1, <2>2, StreamCut
<1>7. Len(Remainder(s)) = Len(s) - LastEnd(s)
  BY <1>1, <1>6
<1>8. \A i \in 1..Len(Remainder(s)) : Remainder(s)[i] = s[LastEnd(s) + i]
  <2> SUFFICES ASSUME NEW i \in 1..Len(Remainder(s)) PROVE Remainder(s)[i] = s[LastEnd(s) + i]
    OBVIOUS
  <2>1. i \in 1..(Len(s) - (1 + LastEnd(s)) + 1) /\ (1 + LastEnd(s)) + i - 1 = LastEnd(s) + i
    BY <1>1, <1>7
  <2> QED BY <1>6, <2>1
<1> QED BY <1>2, <1>4, <1>6, <1>7, <1>8

LEMMA NoSegments ==
  ASSUME NEW s \in Streams
  PROVE  /\ Segments(s) = <<>> <=> Newlines(s) = {}
         /\ Newlines(s) = {} => Remainder(s) = s
         /\ Segments(s) # <<>> => Len(Remainder(s)) < Len(s)
<1>1. /\ Segments(s) \in Seq(Streams) /\ Len(Segments(s)) = Cardinality(Newlines(s))
      /\ Cardinality(Newlines(s)) \in Nat
      /\ Len(Remainder(s)) = Len(s) - LastEnd(s)
      /\ Newlines(s) \subseteq 1..Len(s) /\ Len(s) \in Nat
      /\ LastEnd(s) \in 0..Len(s)
      /\ \A k \in Newlines(s) : k <= LastEnd(s)
  BY SegmentsType, NewlinesOf, LastEndOf
<1>2. Cardinality(Newlines(s)) = 0 <=> Newlines(s) = {}
  <2>1. IsFiniteSet(Newlines(s))
    BY <1>1, RankOf, Zenon
  <2> QED BY <2>1, FS_EmptySet
<1>3. Segments(s) = <<>> <=> Len(Segments(s)) = 0
  BY <1>1
<1>4. ASSUME Newlines(s) = {} PROVE Remainder(s) = s
  <2>1. LastEnd(s) = 0
    BY <1>4, LastEndOf
  <2>2. Remainder(s) = SubSeq(s, 1 + LastEnd(s), Len(s))
    BY SegmentsAre
  <2>3. 1 + 0 = 1
    OBVIOUS
  <2>4. SubSeq(s, 1, Len(s)) = s
    BY SubSeqFull DEF Streams
  <2> QED BY <2>1, <2>2, <2>3, <2>4
<1>5. ASSUME Newlines(s) # {} PROVE Len(Remainder(s)) < Len(s)
  <2>1. PICK k \in Newlines(s) : TRUE
    BY <1>5
  <2>2. k \in 1..Len(s) /\ k <= LastEnd(s)
    BY <1>1, <2>1
  <2> QED BY <1>1, <2>2
<1> QED BY <1>1, <1>2, <1>3, <1>4, <1>5

(* A newline ends the piece that was unfinished; any other byte adds to it. *)
LEMMA ByteArrives ==
  ASSUME NEW s \in Streams, NEW b \in Bytes
  PROVE  /\ b = Newline =>
              /\ Segments(Append(s, b)) = Append(Segments(s), Remainder(s))
              /\ Remainder(Append(s, b)) = <<>>
         /\ b # Newline =>
              /\ Segments(Append(s, b)) = Segments(s)
              /\ Remainder(Append(s, b)) = Append(Remainder(s), b)
<1> DEFINE t == Append(s, b)
           K == Newlines(s)
           n == Cardinality(K)
<1>1. /\ t \in Streams /\ Len(t) = Len(s) + 1
      /\ \A k \in 1..Len(s) : t[k] = s[k]
      /\ t[Len(s) + 1] = b
      /\ Newlines(t) = IF b = Newline THEN K \cup {Len(s) + 1} ELSE K
      /\ K \subseteq 1..Len(s) /\ Len(s) \in Nat /\ n \in Nat
      /\ LastEnd(s) \in 0..Len(s)
  <2>1. /\ t \in Streams /\ Len(t) = Len(s) + 1
        /\ \A k \in 1..Len(s) : t[k] = s[k]
        /\ Newlines(t) = IF b = Newline THEN K \cup {Len(s) + 1} ELSE K
    BY NewlinesOfAppend
  <2>2. t[Len(s) + 1] = b
    BY AppendProperties DEF Streams
  <2>3. K \subseteq 1..Len(s) /\ Len(s) \in Nat /\ LastEnd(s) \in 0..Len(s)
    BY NewlinesOf, LastEndOf
  <2>4. n \in Nat
    BY SegmentsType
  <2> QED BY <2>1, <2>2, <2>3, <2>4
<1>2. /\ Segments(s) \in Seq(Streams) /\ Len(Segments(s)) = n
      /\ Remainder(s) \in Streams /\ Len(Remainder(s)) = Len(s) - LastEnd(s)
  BY SegmentsType
<1>3. \A j \in 1..n : Segments(s)[j] = Piece(s, j)
  <2>1. Segments(s) = [j \in 1..n |-> Piece(s, j)]
    BY SegmentsAre
  <2> QED BY <2>1
<1>4. ASSUME NEW j \in 1..n, \A l \in 1..n : Nth(Newlines(t), l) = Nth(K, l)
      PROVE  Piece(t, j) = Piece(s, j)
  <2>1. PieceStart(t, j) = PieceStart(s, j)
    <3>1. j = 1 \/ j - 1 \in 1..n
      BY <1>1
    <3> QED BY <1>4, <3>1 DEF PieceStart
  <2>2. /\ PieceStart(s, j) \in Nat \ {0}
        /\ Nth(K, j) - 1 \in Nat /\ Nth(K, j) - 1 <= Len(s)
    BY <1>1, PieceBounds
  <2>3. SubSeq(t, PieceStart(s, j), Nth(K, j) - 1) = SubSeq(s, PieceStart(s, j), Nth(K, j) - 1)
    BY <2>2, SubSeqOfAppend
  <2> QED BY <1>4, <2>1, <2>3 DEF Piece
<1>5. ASSUME b = Newline
      PROVE  Segments(t) = Append(Segments(s), Remainder(s)) /\ Remainder(t) = <<>>
  <2>1. /\ Cardinality(Newlines(t)) = n + 1
        /\ \A j \in 1..n : Nth(Newlines(t), j) = Nth(K, j)
        /\ Nth(Newlines(t), n + 1) = Len(s) + 1
    <3>1. Newlines(t) = K \cup {Len(s) + 1}
      BY <1>1, <1>5
    <3>2. Len(s) \in Nat /\ K \subseteq 1..Len(s)
      BY <1>1
    <3> HIDE DEF K, t
    <3>3. /\ Cardinality(K \cup {Len(s) + 1}) = Cardinality(K) + 1
          /\ \A j \in 1..Cardinality(K) : Nth(K \cup {Len(s) + 1}, j) = Nth(K, j)
          /\ Nth(K \cup {Len(s) + 1}, Cardinality(K) + 1) = Len(s) + 1
      BY <3>2, NthGrows, Zenon
    <3> QED BY <3>1, <3>3
  <2>2. Segments(t) = [j \in 1..(n + 1) |-> Piece(t, j)]
    BY <2>1, SegmentsAre
  <2>3. PieceStart(t, n + 1) = 1 + LastEnd(s)
    <3>1. CASE n = 0
      <4>1. K = {}
        <5>1. IsFiniteSet(K)
          BY <1>1, RankOf, Zenon
        <5> QED BY <3>1, <5>1, FS_EmptySet
      <4> QED BY <3>1, <4>1, LastEndOf DEF PieceStart
    <3>2. CASE n # 0
      <4>1. K # {} /\ n \in 1..n /\ n + 1 # 1 /\ n + 1 - 1 = n
        BY <1>1, <3>2, FS_EmptySet
      <4>2. LastEnd(s) = Nth(K, n)
        BY <4>1, LastEndOf
      <4>3. PieceStart(t, n + 1) = Nth(K, n) + 1
        BY <2>1, <4>1 DEF PieceStart
      <4> QED BY <1>1, <4>2, <4>3
    <3> QED BY <3>1, <3>2
  <2>4. Piece(t, n + 1) = Remainder(s)
    <3>1. Len(s) + 1 - 1 = Len(s) /\ 1 + LastEnd(s) \in Nat \ {0} /\ Len(s) <= Len(s)
      BY <1>1
    <3>2. Piece(t, n + 1) = SubSeq(t, 1 + LastEnd(s), Len(s))
      BY <2>1, <2>3, <3>1 DEF Piece
    <3>3. SubSeq(t, 1 + LastEnd(s), Len(s)) = SubSeq(s, 1 + LastEnd(s), Len(s))
      BY <1>1, <3>1, SubSeqOfAppend
    <3> QED BY <3>2, <3>3, SegmentsAre
  <2>5. Segments(t) = Append(Segments(s), Remainder(s))
    <3>1. \A j \in 1..n : Piece(t, j) = Segments(s)[j]
      BY <1>3, <1>4, <2>1
    <3>2. Segments(t) \in Seq(Streams) /\ Len(Segments(t)) = n + 1
      BY <1>1, <2>1, SegmentsType
    <3> DEFINE a == Append(Segments(s), Remainder(s))
    <3>3. /\ a \in Seq(Streams) /\ Len(a) = n + 1
          /\ \A j \in 1..n : a[j] = Segments(s)[j]
          /\ a[n + 1] = Remainder(s)
      BY <1>2, AppendProperties
    <3>4. \A j \in 1..(n + 1) : Segments(t)[j] = Piece(t, j)
      BY <2>2
    <3>5. \A j \in 1..(n + 1) : j \in 1..n \/ j = n + 1
      BY <1>1
    <3> HIDE DEF a, n, t
    <3>6. \A j \in 1..(n + 1) : Segments(t)[j] = a[j]
      BY <2>4, <3>1, <3>3, <3>4, <3>5
    <3>7. Segments(t) = a
      BY <3>2, <3>3, <3>6, SeqEqual
    <3> QED BY <3>7 DEF a
  <2>6. LastEnd(t) = Len(t)
    <3>1. Len(s) + 1 \in Newlines(t)
      BY <1>1, <1>5
    <3>2. LastEnd(t) \in 0..Len(t) /\ \A k \in Newlines(t) : k <= LastEnd(t)
      BY <1>1, LastEndOf
    <3> HIDE DEF t
    <3> QED BY <1>1, <3>1, <3>2
  <2>7. Remainder(t) \in Streams /\ Len(Remainder(t)) = Len(t) - LastEnd(t)
    BY <1>1, SegmentsType
  <2>8. Remainder(t) = <<>>
    BY <1>1, <2>6, <2>7 DEF Streams
  <2> QED BY <2>5, <2>8
<1>6. ASSUME b # Newline
      PROVE  Segments(t) = Segments(s) /\ Remainder(t) = Append(Remainder(s), b)
  <2>1. Newlines(t) = K
    BY <1>1, <1>6
  <2>2. Segments(t) = Segments(s)
    <3>1. \A j \in 1..n : Piece(t, j) = Segments(s)[j]
      BY <1>3, <1>4, <2>1
    <3>2. Segments(t) = [j \in 1..n |-> Piece(t, j)]
      BY <2>1, SegmentsAre
    <3>3. Segments(t) \in Seq(Streams) /\ Len(Segments(t)) = n
      BY <1>1, <2>1, SegmentsType
    <3> HIDE DEF n, t
    <3>4. \A j \in 1..n : Segments(t)[j] = Segments(s)[j]
      BY <3>1, <3>2
    <3> QED BY <1>2, <3>3, <3>4, SeqEqual
  <2>3. LastEnd(t) = LastEnd(s)
    BY <2>1, Zenon DEF LastEnd
  <2> DEFINE r == Remainder(s)
             a == Append(r, b)
  <2>4. /\ Remainder(t) \in Streams /\ Len(Remainder(t)) = Len(t) - LastEnd(t)
        /\ \A i \in 1..Len(Remainder(t)) : Remainder(t)[i] = t[LastEnd(t) + i]
        /\ \A i \in 1..Len(r) : r[i] = s[LastEnd(s) + i]
    BY <1>1, SegmentsType
  <2>5. /\ a \in Streams /\ Len(a) = Len(r) + 1
        /\ \A i \in 1..Len(r) : a[i] = r[i]
        /\ a[Len(r) + 1] = b
    BY <1>2, AppendProperties DEF Streams
  <2>6. Len(Remainder(t)) = Len(a) /\ Len(a) = Len(s) - LastEnd(s) + 1 /\ Len(r) = Len(s) - LastEnd(s)
    BY <1>1, <1>2, <2>3, <2>4, <2>5
  <2> HIDE DEF a, r, t
  <2>7. ASSUME NEW i \in 1..Len(a) PROVE Remainder(t)[i] = a[i]
    <3>1. CASE i \in 1..Len(r)
      <4>1. LastEnd(s) + i \in 1..Len(s)
        BY <1>1, <2>6, <3>1
      <4> QED BY <1>1, <2>3, <2>4, <2>5, <2>6, <2>7, <3>1, <4>1
    <3>2. CASE i = Len(r) + 1
      <4>1. LastEnd(s) + i = Len(s) + 1
        BY <1>1, <2>6, <3>2
      <4> QED BY <1>1, <2>3, <2>4, <2>5, <2>6, <2>7, <3>2, <4>1
    <3>3. i \in 1..Len(r) \/ i = Len(r) + 1
      BY <1>1, <2>6, <2>7
    <3> QED BY <3>1, <3>2, <3>3
  <2>8. Remainder(t) = a
    BY <2>4, <2>5, <2>6, <2>7, SeqEqual DEF Streams
  <2> QED BY <2>2, <2>8 DEF a, r, t
<1> QED BY <1>5, <1>6

-----------------------------------------------------------------------------
(* Sequences that end in, or begin with, others.                            *)

(* A set that holds the empty sequence and every sequence one longer than   *)
(* one of its own holds them all.                                           *)
LEMMA SeqInduction ==
  ASSUME NEW S, NEW G, <<>> \in G,
         \A d \in Seq(S), b \in S : d \in G => Append(d, b) \in G
  PROVE  Seq(S) \subseteq G
<1> DEFINE Bad == {n \in Nat : \E d \in Seq(S) : Len(d) = n /\ d \notin G}
<1>1. SUFFICES ASSUME Bad # {} PROVE FALSE
  <2>1. \A d \in Seq(S) : Len(d) \in Nat
    BY LenProperties
  <2> QED BY <2>1
<1>2. Bad \subseteq Nat
  OBVIOUS
<1>3. PICK n \in Bad : \A m \in Bad : n <= m
  <2> HIDE DEF Bad
  <2> QED BY <1>1, <1>2, LeastOf
<1>4. PICK d \in Seq(S) : Len(d) = n /\ d \notin G
  BY <1>3
<1>5. d # <<>>
  BY <1>4
<1>6. PICK c \in Seq(S), b \in S : d = Append(c, b)
  BY <1>5, SequenceEmptyOrAppend
<1>7. Len(c) \in Nat /\ Len(d) = Len(c) + 1
  BY <1>6, AppendProperties, LenProperties
<1>8. c \notin G
  BY <1>4, <1>6
<1>9. Len(c) \in Bad
  BY <1>7, <1>8
<1>10. ~(n <= Len(c))
  BY <1>4, <1>7
<1> HIDE DEF Bad
<1> QED BY <1>3, <1>9, <1>10

LEMMA ConcatAppend ==
  ASSUME NEW S, NEW s \in Seq(S), NEW d \in Seq(S), NEW b \in S
  PROVE  s \o Append(d, b) = Append(s \o d, b) /\ s \o d \in Seq(S)
<1>1. <<b>> \in Seq(S) /\ s \o d \in Seq(S)
  BY ConcatProperties
<1>2. Append(d, b) = d \o <<b>> /\ Append(s \o d, b) = (s \o d) \o <<b>>
  BY <1>1, AppendIsConcat
<1>3. (s \o d) \o <<b>> = s \o (d \o <<b>>)
  BY <1>1, ConcatAssociative
<1> QED BY <1>1, <1>2, <1>3

(* What the peer sent that has arrived, when n more bytes of it do.         *)
LEMMA MoreReceived ==
  ASSUME NEW s \in Streams, NEW m \in Nat, NEW n \in Nat, m + n <= Len(s)
  PROVE  /\ SubSeq(s, 1, m) \in Streams /\ SubSeq(s, m + 1, m + n) \in Streams
         /\ SubSeq(s, 1, m + n) = SubSeq(s, 1, m) \o SubSeq(s, m + 1, m + n)
         /\ Len(SubSeq(s, 1, m)) = m /\ Len(SubSeq(s, m + 1, m + n)) = n
<1>1. Len(s) \in Nat /\ m <= Len(s) /\ m + n \in Nat /\ m + 1 \in Nat \ {0}
  BY LenProperties DEF Streams
<1>2. 1 \in 1..Len(s) + 1 /\ m \in 1 - 1..Len(s) /\ m + n \in m..Len(s)
  BY <1>1
<1>3. SubSeq(s, 1, m) \o SubSeq(s, m + 1, m + n) = SubSeq(s, 1, m + n)
  BY <1>2, ConcatAdjacentSubSeq DEF Streams
<1>4. SubSeq(s, 1, m) \in Streams /\ Len(SubSeq(s, 1, m)) = m
  BY <1>1, StreamCut
<1>5. SubSeq(s, m + 1, m + n) \in Streams /\ Len(SubSeq(s, m + 1, m + n)) = n
  BY <1>1, StreamCut
<1> QED BY <1>3, <1>4, <1>5

-----------------------------------------------------------------------------
(* The lines that are not empty.                                            *)

Kept(segs) == {j \in DOMAIN segs : segs[j] # <<>>}

LEMMA NotEmptyType ==
  ASSUME NEW segs \in Seq(Streams)
  PROVE  /\ Kept(segs) \subseteq 1..Len(segs) /\ Len(segs) \in Nat
         /\ Cardinality(Kept(segs)) \in Nat
         /\ NotEmpty(segs) \in Seq(Streams) /\ Len(NotEmpty(segs)) = Cardinality(Kept(segs))
         /\ \A j \in 1..Cardinality(Kept(segs)) : NotEmpty(segs)[j] = segs[Nth(Kept(segs), j)]
<1> DEFINE n == Cardinality(Kept(segs))
<1>1. Kept(segs) \subseteq 1..Len(segs) /\ Len(segs) \in Nat
  BY DEF Kept
<1>2. n \in Nat /\ \A j \in 1..n : Nth(Kept(segs), j) \in Kept(segs)
  BY <1>1, NthGrows, Zenon
<1>3. NotEmpty(segs) = [j \in 1..n |-> segs[Nth(Kept(segs), j)]]
  BY Zenon DEF NotEmpty, Kept
<1>4. \A j \in 1..n : segs[Nth(Kept(segs), j)] \in Streams
  <2>1. \A k \in 1..Len(segs) : segs[k] \in Streams
    BY ElementOfSeq
  <2> QED BY <1>1, <1>2, <2>1
<1> HIDE DEF n
<1>5. NotEmpty(segs) \in Seq(Streams) /\ Len(NotEmpty(segs)) = n
  BY <1>2, <1>3, <1>4
<1>6. \A j \in 1..n : NotEmpty(segs)[j] = segs[Nth(Kept(segs), j)]
  BY <1>3
<1> QED BY <1>1, <1>2, <1>5, <1>6 DEF n

LEMMA NotEmptyAppend ==
  ASSUME NEW segs \in Seq(Streams), NEW x \in Streams
  PROVE  NotEmpty(Append(segs, x))
           = IF x = <<>> THEN NotEmpty(segs) ELSE Append(NotEmpty(segs), x)
<1> DEFINE t == Append(segs, x)
           K == Kept(segs)
           n == Cardinality(K)
<1>1. /\ t \in Seq(Streams) /\ Len(t) = Len(segs) + 1 /\ Len(segs) \in Nat
      /\ \A k \in 1..Len(segs) : t[k] = segs[k]
      /\ t[Len(segs) + 1] = x
  BY AppendProperties, LenProperties
<1>2. /\ K \subseteq 1..Len(segs) /\ n \in Nat
      /\ NotEmpty(segs) \in Seq(Streams) /\ Len(NotEmpty(segs)) = n
      /\ \A j \in 1..n : NotEmpty(segs)[j] = segs[Nth(K, j)]
  BY NotEmptyType
<1>3. /\ NotEmpty(t) \in Seq(Streams) /\ Len(NotEmpty(t)) = Cardinality(Kept(t))
      /\ \A j \in 1..Cardinality(Kept(t)) : NotEmpty(t)[j] = t[Nth(Kept(t), j)]
  BY <1>1, NotEmptyType
<1>4. Kept(t) = IF x = <<>> THEN K ELSE K \cup {Len(segs) + 1}
  <2>1. DOMAIN t = 1..(Len(segs) + 1) /\ DOMAIN segs = 1..Len(segs)
    BY <1>1, LenProperties
  <2>2. \A k : k \in 1..(Len(segs) + 1) <=> (k \in 1..Len(segs) \/ k = Len(segs) + 1)
    BY <1>1
  <2> HIDE DEF t
  <2>3. \A k : k \in Kept(t) <=> (k \in K \/ (k = Len(segs) + 1 /\ x # <<>>))
    BY <1>1, <2>1, <2>2 DEF Kept
  <2> QED BY <2>3
<1>5. /\ Cardinality(K \cup {Len(segs) + 1}) = n + 1
      /\ \A j \in 1..n : Nth(K \cup {Len(segs) + 1}, j) = Nth(K, j) /\ Nth(K, j) \in K
      /\ Nth(K \cup {Len(segs) + 1}, n + 1) = Len(segs) + 1
  BY <1>1, <1>2, NthGrows, Zenon
<1>6. \A j \in 1..n : t[Nth(K, j)] = segs[Nth(K, j)]
  <2>1. \A j \in 1..n : Nth(K, j) \in 1..Len(segs)
    BY <1>2, <1>5
  <2> QED BY <1>1, <2>1
<1> HIDE DEF t, K, n
<1>7. CASE x = <<>>
  <2>1. Kept(t) = K
    BY <1>4, <1>7
  <2>2. \A j \in 1..n : NotEmpty(t)[j] = NotEmpty(segs)[j]
    BY <1>2, <1>3, <1>6, <2>1 DEF n
  <2>3. NotEmpty(t) = NotEmpty(segs)
    BY <1>2, <1>3, <2>1, <2>2, SeqEqual DEF n
  <2> QED BY <1>7, <2>3 DEF t
<1>8. CASE x # <<>>
  <2> DEFINE a == Append(NotEmpty(segs), x)
  <2>1. Kept(t) = K \cup {Len(segs) + 1}
    BY <1>4, <1>8
  <2>2. /\ a \in Seq(Streams) /\ Len(a) = n + 1
        /\ \A j \in 1..n : a[j] = NotEmpty(segs)[j]
        /\ a[n + 1] = x
    BY <1>2, AppendProperties
  <2>3. Cardinality(Kept(t)) = n + 1 /\ Len(NotEmpty(t)) = n + 1
    BY <1>3, <1>5, <2>1
  <2>9. \A j \in 1..(n + 1) : NotEmpty(t)[j] = t[Nth(K \cup {Len(segs) + 1}, j)]
    BY <1>3, <2>1, <2>3, Zenon
  <2>4. \A j \in 1..n : NotEmpty(t)[j] = NotEmpty(segs)[j]
    <3>1. \A j \in 1..n : j \in 1..(n + 1)
      BY <1>2
    <3>2. \A j \in 1..n : NotEmpty(t)[j] = segs[Nth(K, j)]
      BY <1>5, <1>6, <2>9, <3>1, Zenon
    <3> QED BY <1>2, <3>2, Zenon
  <2>5. NotEmpty(t)[n + 1] = x
    <3>1. n + 1 \in 1..(n + 1)
      BY <1>2
    <3>2. NotEmpty(t)[n + 1] = t[Nth(K \cup {Len(segs) + 1}, n + 1)]
      BY <2>9, <3>1, Zenon
    <3> QED BY <1>1, <1>5, <3>2
  <2>6. \A j \in 1..(n + 1) : j \in 1..n \/ j = n + 1
    BY <1>2
  <2> HIDE DEF a
  <2>7. \A j \in 1..(n + 1) : NotEmpty(t)[j] = a[j]
    BY <2>2, <2>4, <2>5, <2>6
  <2>8. NotEmpty(t) = a
    BY <1>3, <2>2, <2>3, <2>7, SeqEqual
  <2> QED BY <1>8, <2>8 DEF a, t
<1> QED BY <1>7, <1>8

LEMMA NotEmptyConcat ==
  ASSUME NEW l \in Seq(Streams), NEW m \in Seq(Streams)
  PROVE  NotEmpty(l \o m) = NotEmpty(l) \o NotEmpty(m)
<1> DEFINE G == {d \in Seq(Streams) : NotEmpty(l \o d) = NotEmpty(l) \o NotEmpty(d)}
<1>1. NotEmpty(l) \in Seq(Streams)
  BY NotEmptyType
<1>2. <<>> \in G
  <2>1. NotEmpty(<<>>) = <<>>
    <3>1. Kept(<<>>) = {}
      BY DEF Kept
    <3>2. <<>> \in Seq(Streams)
      OBVIOUS
    <3>3. Cardinality({}) = 0
      BY FS_EmptySet
    <3>4. NotEmpty(<<>>) \in Seq(Streams) /\ Len(NotEmpty(<<>>)) = 0
      BY <3>1, <3>2, <3>3, NotEmptyType
    <3> QED BY <3>4
  <2>2. l \o <<>> = l /\ NotEmpty(l) \o <<>> = NotEmpty(l)
    BY <1>1, ConcatEmptySeq
  <2>3. <<>> \in Seq(Streams)
    OBVIOUS
  <2> QED BY <2>1, <2>2, <2>3
<1>3. ASSUME NEW d \in Seq(Streams), NEW x \in Streams, d \in G PROVE Append(d, x) \in G
  <2>1. l \o Append(d, x) = Append(l \o d, x) /\ l \o d \in Seq(Streams)
    BY ConcatAppend
  <2>2. NotEmpty(Append(l \o d, x))
          = IF x = <<>> THEN NotEmpty(l \o d) ELSE Append(NotEmpty(l \o d), x)
    BY <2>1, NotEmptyAppend
  <2>3. NotEmpty(Append(d, x)) = IF x = <<>> THEN NotEmpty(d) ELSE Append(NotEmpty(d), x)
    BY NotEmptyAppend
  <2>4. NotEmpty(d) \in Seq(Streams)
    BY NotEmptyType
  <2>5. NotEmpty(l) \o Append(NotEmpty(d), x) = Append(NotEmpty(l) \o NotEmpty(d), x)
    BY <1>1, <2>4, ConcatAppend
  <2>6. NotEmpty(l \o d) = NotEmpty(l) \o NotEmpty(d)
    BY <1>3
  <2>7. NotEmpty(l \o Append(d, x)) = NotEmpty(l) \o NotEmpty(Append(d, x))
    BY <2>1, <2>2, <2>3, <2>5, <2>6
  <2>8. Append(d, x) \in Seq(Streams)
    BY AppendProperties
  <2> QED BY <2>7, <2>8
<1>4. Seq(Streams) \subseteq G
  <2> HIDE DEF G
  <2> QED BY <1>2, <1>3, SeqInduction
<1> QED BY <1>4

-----------------------------------------------------------------------------
(* The lines of a stream that grows by a piece.                             *)

LEMMA EmptyStream ==
  /\ <<>> \in Streams
  /\ Segments(<<>>) = <<>> /\ Remainder(<<>>) = <<>>
<1>1. <<>> \in Streams /\ Newlines(<<>>) = {}
  BY DEF Streams, Newlines
<1> QED BY <1>1, NoSegments

(* What no newline ends holds none.                                         *)
LEMMA RemainderOpen ==
  ASSUME NEW s \in Streams
  PROVE  Segments(Remainder(s)) = <<>> /\ Remainder(Remainder(s)) = Remainder(s)
<1> DEFINE Open(r) == Segments(r) = <<>> /\ Remainder(r) = r
           G == {d \in Streams : Open(Remainder(d))}
<1>1. <<>> \in G
  BY EmptyStream
<1>2. ASSUME NEW d \in Streams, NEW b \in Bytes, d \in G PROVE Append(d, b) \in G
  <2>1. Append(d, b) \in Streams
    BY NewlinesOfAppend
  <2>2. Remainder(d) \in Streams
    BY SegmentsType
  <2>3. CASE b = Newline
    BY <2>1, <2>3, ByteArrives, EmptyStream
  <2>4. CASE b # Newline
    <3>1. Remainder(Append(d, b)) = Append(Remainder(d), b)
      BY <2>4, ByteArrives
    <3>2. /\ Segments(Append(Remainder(d), b)) = Segments(Remainder(d))
          /\ Remainder(Append(Remainder(d), b)) = Append(Remainder(Remainder(d)), b)
      BY <2>2, <2>4, ByteArrives
    <3>3. Open(Remainder(d))
      BY <1>2
    <3> QED BY <2>1, <3>1, <3>2, <3>3
  <2> QED BY <2>3, <2>4
<1>3. Streams \subseteq G
  <2> HIDE DEF G
  <2> QED BY <1>1, <1>2, SeqInduction DEF Streams
<1> QED BY <1>3

LEMMA PieceArrives ==
  ASSUME NEW s \in Streams, NEW d \in Streams
  PROVE  /\ s \o d \in Streams
         /\ Segments(s \o d) = Segments(s) \o Segments(Remainder(s) \o d)
         /\ Remainder(s \o d) = Remainder(Remainder(s) \o d)
<1> DEFINE r == Remainder(s)
           Split(e) == /\ Segments(s \o e) = Segments(s) \o Segments(r \o e)
                       /\ Remainder(s \o e) = Remainder(r \o e)
           G == {e \in Streams : Split(e)}
<1>1. r \in Streams /\ Segments(s) \in Seq(Streams)
  BY SegmentsType
<1>2. <<>> \in G
  <2>1. s \o <<>> = s /\ r \o <<>> = r
    BY <1>1, ConcatEmptySeq DEF Streams
  <2>2. Segments(r) = <<>> /\ Remainder(r) = r
    BY RemainderOpen
  <2>3. Segments(s) \o <<>> = Segments(s)
    BY <1>1, ConcatEmptySeq
  <2> HIDE DEF r
  <2>4. Split(<<>>)
    BY <2>1, <2>2, <2>3 DEF r
  <2> QED BY <2>4, EmptyStream
<1>3. ASSUME NEW e \in Streams, NEW b \in Bytes, e \in G PROVE Append(e, b) \in G
  <2>1. /\ s \o Append(e, b) = Append(s \o e, b) /\ s \o e \in Streams
        /\ r \o Append(e, b) = Append(r \o e, b) /\ r \o e \in Streams
    <3>1. r \in Streams
      BY <1>1
    <3> HIDE DEF r
    <3>2. s \o Append(e, b) = Append(s \o e, b) /\ s \o e \in Streams
      BY ConcatAppend DEF Streams
    <3>3. r \o Append(e, b) = Append(r \o e, b) /\ r \o e \in Streams
      BY <3>1, ConcatAppend DEF Streams
    <3> QED BY <3>2, <3>3
  <2>2. Append(e, b) \in Streams /\ Split(e)
    BY <1>3, NewlinesOfAppend
  <2>3. Segments(r \o e) \in Seq(Streams) /\ Remainder(r \o e) \in Streams
    BY <2>1, SegmentsType
  <2> HIDE DEF r
  <2>4. CASE b = Newline
    <3>1. /\ Segments(Append(s \o e, b)) = Append(Segments(s \o e), Remainder(s \o e))
          /\ Remainder(Append(s \o e, b)) = <<>>
      BY <2>1, <2>4, ByteArrives
    <3>2. /\ Segments(Append(r \o e, b)) = Append(Segments(r \o e), Remainder(r \o e))
          /\ Remainder(Append(r \o e, b)) = <<>>
      BY <2>1, <2>4, ByteArrives
    <3>3. Segments(s) \o Append(Segments(r \o e), Remainder(r \o e))
            = Append(Segments(s) \o Segments(r \o e), Remainder(r \o e))
      BY <1>1, <2>3, ConcatAppend
    <3>4. Split(Append(e, b))
      BY <2>1, <2>2, <3>1, <3>2, <3>3
    <3> QED BY <2>2, <3>4
  <2>5. CASE b # Newline
    <3>1. /\ Segments(Append(s \o e, b)) = Segments(s \o e)
          /\ Remainder(Append(s \o e, b)) = Append(Remainder(s \o e), b)
      BY <2>1, <2>5, ByteArrives
    <3>2. /\ Segments(Append(r \o e, b)) = Segments(r \o e)
          /\ Remainder(Append(r \o e, b)) = Append(Remainder(r \o e), b)
      BY <2>1, <2>5, ByteArrives
    <3>3. Split(Append(e, b))
      BY <2>1, <2>2, <3>1, <3>2
    <3> QED BY <2>2, <3>3
  <2> QED BY <2>4, <2>5
<1>4. Streams \subseteq G
  <2> HIDE DEF G
  <2> QED BY <1>2, <1>3, SeqInduction DEF Streams
<1>5. Split(d)
  BY <1>4
<1>6. s \o d \in Streams
  BY ConcatProperties DEF Streams
<1> QED BY <1>5, <1>6

(* A line that begins with c, which holds no newline.                       *)
FirstWith(c, segs) == [j \in DOMAIN segs |-> IF j = 1 THEN c \o segs[1] ELSE segs[j]]

LEMMA FirstWithAppend ==
  ASSUME NEW c \in Streams, NEW segs \in Seq(Streams), NEW x \in Streams
  PROVE  /\ FirstWith(c, segs) \in Seq(Streams)
         /\ Append(segs, x) \in Seq(Streams)
         /\ FirstWith(c, Append(segs, x))
              = IF segs = <<>> THEN Append(<<>>, c \o x) ELSE Append(FirstWith(c, segs), x)
<1>0. \A l \in Seq(Streams) :
        /\ FirstWith(c, l) \in Seq(Streams) /\ Len(FirstWith(c, l)) = Len(l) /\ Len(l) \in Nat
        /\ \A j \in 1..Len(l) : FirstWith(c, l)[j] = IF j = 1 THEN c \o l[1] ELSE l[j]
  <2> SUFFICES ASSUME NEW l \in Seq(Streams)
               PROVE  /\ FirstWith(c, l) \in Seq(Streams)
                      /\ Len(FirstWith(c, l)) = Len(l) /\ Len(l) \in Nat
                      /\ \A j \in 1..Len(l) : FirstWith(c, l)[j] = IF j = 1 THEN c \o l[1] ELSE l[j]
    OBVIOUS
  <2>1. DOMAIN l = 1..Len(l) /\ Len(l) \in Nat
    BY LenProperties
  <2>2. FirstWith(c, l) = [j \in 1..Len(l) |-> IF j = 1 THEN c \o l[1] ELSE l[j]]
    BY <2>1, Zenon DEF FirstWith
  <2>3. \A j \in 1..Len(l) : (IF j = 1 THEN c \o l[1] ELSE l[j]) \in Streams
    <3> SUFFICES ASSUME NEW j \in 1..Len(l)
                 PROVE  (IF j = 1 THEN c \o l[1] ELSE l[j]) \in Streams
      OBVIOUS
    <3>1. l[j] \in Streams
      BY ElementOfSeq
    <3>2. \A y \in Streams : c \o y \in Streams
      BY ConcatProperties DEF Streams
    <3>3. j = 1 => c \o l[1] \in Streams
      BY <3>1, <3>2
    <3> QED BY <3>1, <3>3
  <2>4. FirstWith(c, l) \in Seq(Streams) /\ Len(FirstWith(c, l)) = Len(l)
    BY <2>1, <2>2, <2>3
  <2>5. \A j \in 1..Len(l) : FirstWith(c, l)[j] = IF j = 1 THEN c \o l[1] ELSE l[j]
    BY <2>2, Zenon
  <2> QED BY <2>1, <2>4, <2>5
<1> DEFINE t == Append(segs, x)
           n == Len(segs)
           y == c \o x
           u == FirstWith(c, t)
<1>1. /\ t \in Seq(Streams) /\ Len(t) = n + 1 /\ n \in Nat
      /\ \A k \in 1..n : t[k] = segs[k]
      /\ t[n + 1] = x
  BY AppendProperties, LenProperties
<1>2. y \in Streams
  BY ConcatProperties DEF Streams
<1>3. /\ u \in Seq(Streams) /\ Len(u) = n + 1
      /\ \A j \in 1..(n + 1) : u[j] = IF j = 1 THEN c \o t[1] ELSE t[j]
  <2> HIDE DEF t
  <2> QED BY <1>0, <1>1
<1>4. CASE segs = <<>>
  <2>1. n = 0
    BY <1>4
  <2>2. /\ Append(<<>>, y) \in Seq(Streams) /\ Len(Append(<<>>, y)) = 1
        /\ Append(<<>>, y)[1] = y
    <3>1. <<>> \in Seq(Streams)
      OBVIOUS
    <3> HIDE DEF y
    <3> QED BY <1>2, <3>1, AppendProperties
  <2>3. u[1] = y
    <3>1. n + 1 = 1 /\ 1 \in 1..1
      BY <2>1
    <3>2. u[1] = c \o t[1] /\ t[1] = x
      BY <1>1, <1>3, <3>1
    <3> QED BY <3>2
  <2> HIDE DEF y, u
  <2>4. Len(u) = 1 /\ \A j \in 1..1 : u[j] = Append(<<>>, y)[j]
    BY <1>3, <2>1, <2>2, <2>3
  <2>5. u = Append(<<>>, y)
    BY <1>3, <2>2, <2>4, SeqEqual
  <2> QED BY <1>0, <1>1, <1>4, <2>5 DEF u, y
<1>5. CASE segs # <<>>
  <2> DEFINE f == FirstWith(c, segs)
             a == Append(f, x)
  <2>1. n >= 1
    BY <1>5, EmptySeq
  <2>2. /\ f \in Seq(Streams) /\ Len(f) = n
        /\ \A j \in 1..n : f[j] = IF j = 1 THEN c \o segs[1] ELSE segs[j]
    BY <1>0
  <2>3. /\ a \in Seq(Streams) /\ Len(a) = n + 1
        /\ \A j \in 1..n : a[j] = f[j]
        /\ a[n + 1] = x
    <3> HIDE DEF f
    <3> QED BY <2>2, AppendProperties
  <2>4. \A j \in 1..n : u[j] = f[j]
    <3>1. t[1] = segs[1] /\ \A j \in 1..n : j \in 1..(n + 1) /\ t[j] = segs[j]
      BY <1>1, <2>1
    <3> HIDE DEF t, f, u, n
    <3> QED BY <1>3, <2>2, <3>1
  <2>5. u[n + 1] = x
    <3>1. n + 1 \in 1..(n + 1) /\ n + 1 # 1
      BY <1>1, <2>1
    <3> HIDE DEF t, u, n
    <3> QED BY <1>1, <1>3, <3>1
  <2>6. \A j \in 1..(n + 1) : j \in 1..n \/ j = n + 1
    BY <1>1
  <2> HIDE DEF a, u, f, n
  <2>7. \A j \in 1..(n + 1) : u[j] = a[j]
    BY <2>3, <2>4, <2>5, <2>6
  <2>8. u = a
    BY <1>3, <2>3, <2>7, SeqEqual
  <2> QED BY <1>0, <1>1, <1>5, <2>8 DEF u, a, f
<1> QED BY <1>4, <1>5

LEMMA LineGoesOn ==
  ASSUME NEW c \in Streams, Segments(c) = <<>>, NEW d \in Streams
  PROVE  /\ c \o d \in Streams
         /\ Segments(c \o d) = FirstWith(c, Segments(d))
         /\ Remainder(c \o d) = IF Segments(d) = <<>> THEN c \o Remainder(d) ELSE Remainder(d)
<1> DEFINE Split(e) ==
             /\ Segments(c \o e) = FirstWith(c, Segments(e))
             /\ Remainder(c \o e) = IF Segments(e) = <<>> THEN c \o Remainder(e) ELSE Remainder(e)
           G == {e \in Streams : Split(e)}
<1>1. Remainder(c) = c
  BY NoSegments
<1>2. <<>> \in G
  <2>1. c \o <<>> = c
    BY ConcatEmptySeq DEF Streams
  <2>2. FirstWith(c, <<>>) = <<>>
    BY DEF FirstWith
  <2>3. Split(<<>>)
    BY <1>1, <2>1, <2>2, EmptyStream
  <2> QED BY <2>3, EmptyStream
<1>3. ASSUME NEW e \in Streams, NEW b \in Bytes, e \in G PROVE Append(e, b) \in G
  <2>1. c \o Append(e, b) = Append(c \o e, b) /\ c \o e \in Streams
    BY ConcatAppend DEF Streams
  <2>2. Append(e, b) \in Streams /\ Split(e)
    BY <1>3, NewlinesOfAppend
  <2>3. Segments(e) \in Seq(Streams) /\ Remainder(e) \in Streams
    BY SegmentsType
  <2>4. CASE b = Newline
    <3>1. /\ Segments(Append(c \o e, b)) = Append(Segments(c \o e), Remainder(c \o e))
          /\ Remainder(Append(c \o e, b)) = <<>>
      BY <2>1, <2>4, ByteArrives
    <3>2. /\ Segments(Append(e, b)) = Append(Segments(e), Remainder(e))
          /\ Remainder(Append(e, b)) = <<>>
      BY <2>4, ByteArrives
    <3>3. Append(Segments(e), Remainder(e)) # <<>>
      BY <2>3, AppendProperties
    <3>4. FirstWith(c, Append(Segments(e), Remainder(e)))
            = IF Segments(e) = <<>> THEN Append(<<>>, c \o Remainder(e))
              ELSE Append(FirstWith(c, Segments(e)), Remainder(e))
      BY <2>3, FirstWithAppend
    <3>5. FirstWith(c, <<>>) = <<>>
      BY DEF FirstWith
    <3>6. Segments(Append(c \o e, b)) = FirstWith(c, Append(Segments(e), Remainder(e)))
      BY <2>2, <3>1, <3>4, <3>5
    <3>7. Split(Append(e, b))
      BY <2>1, <3>1, <3>2, <3>3, <3>6
    <3> QED BY <2>2, <3>7
  <2>5. CASE b # Newline
    <3>1. /\ Segments(Append(c \o e, b)) = Segments(c \o e)
          /\ Remainder(Append(c \o e, b)) = Append(Remainder(c \o e), b)
      BY <2>1, <2>5, ByteArrives
    <3>2. /\ Segments(Append(e, b)) = Segments(e)
          /\ Remainder(Append(e, b)) = Append(Remainder(e), b)
      BY <2>5, ByteArrives
    <3>3. c \o Append(Remainder(e), b) = Append(c \o Remainder(e), b)
      BY <2>3, ConcatAppend DEF Streams
    <3>4. Split(Append(e, b))
      BY <2>1, <2>2, <3>1, <3>2, <3>3
    <3> QED BY <2>2, <3>4
  <2> QED BY <2>4, <2>5
<1>4. Streams \subseteq G
  <2> HIDE DEF G
  <2> QED BY <1>2, <1>3, SeqInduction DEF Streams
<1>5. Split(d)
  BY <1>4
<1>6. c \o d \in Streams
  BY ConcatProperties DEF Streams
<1> QED BY <1>5, <1>6

(* A stream whose lines all fit in the buffer has had no other before.       *)
LEMMA ShortBefore ==
  ASSUME NEW s \in Streams, NEW d \in Streams, AllShort(s \o d)
  PROVE  AllShort(s)
<1> DEFINE r == Remainder(s)
           l == Segments(s)
           m == Segments(r \o d)
<1>1. /\ s \o d \in Streams
      /\ Segments(s \o d) = l \o m
      /\ Remainder(s \o d) = Remainder(r \o d)
      /\ r \in Streams /\ l \in Seq(Streams) /\ r \o d \in Streams
  <2>1. r \in Streams /\ l \in Seq(Streams)
    BY SegmentsType
  <2>2. r \o d \in Streams
    <3> HIDE DEF r
    <3> QED BY <2>1, ConcatProperties DEF Streams
  <2> QED BY <2>1, <2>2, PieceArrives
<1>2. m \in Seq(Streams)
  <2>1. r \o d \in Streams
    BY <1>1
  <2> HIDE DEF r
  <2> QED BY <2>1, SegmentsType
<1>3. /\ l \o m \in Seq(Streams) /\ Len(l) \in Nat /\ Len(m) \in Nat
      /\ Len(l \o m) = Len(l) + Len(m)
      /\ \A i \in 1..Len(l) + Len(m) : (l \o m)[i] = IF i <= Len(l) THEN l[i] ELSE m[i - Len(l)]
  <2>1. l \in Seq(Streams) /\ m \in Seq(Streams)
    BY <1>1, <1>2
  <2> HIDE DEF l, m
  <2> QED BY <2>1, ConcatProperties, LenProperties
<1>4. /\ Len(Remainder(r \o d)) < BufSize
      /\ \A j \in 1..Len(l) + Len(m) : Len((l \o m)[j]) < BufSize
  <2>1. DOMAIN (l \o m) = 1..Len(l) + Len(m)
    <3> HIDE DEF l, m
    <3> QED BY <1>3, LenProperties
  <2> QED BY <1>1, <2>1 DEF AllShort
<1>5. \A j \in DOMAIN l : Len(l[j]) < BufSize
  <2>1. DOMAIN l = 1..Len(l)
    BY <1>1, LenProperties
  <2>2. \A j \in 1..Len(l) : j \in 1..Len(l) + Len(m) /\ j <= Len(l)
    BY <1>3
  <2> HIDE DEF l, m
  <2> QED BY <1>3, <1>4, <2>1, <2>2
<1>6. Len(r) < BufSize
  <2>1. /\ Segments(r \o d) = FirstWith(r, Segments(d))
        /\ Remainder(r \o d) = IF Segments(d) = <<>> THEN r \o Remainder(d) ELSE Remainder(d)
        /\ Segments(d) \in Seq(Streams) /\ Remainder(d) \in Streams
    <3>1. Segments(r) = <<>> /\ r \in Streams
      BY <1>1, RemainderOpen
    <3>2. Segments(d) \in Seq(Streams) /\ Remainder(d) \in Streams
      BY SegmentsType
    <3> HIDE DEF r
    <3> QED BY <3>1, <3>2, LineGoesOn
  <2>2. \A x \in Streams : Len(r \o x) >= Len(r) /\ Len(r) \in Nat /\ Len(r \o x) \in Nat
    <3>1. r \in Streams
      BY <1>1
    <3> HIDE DEF r
    <3> QED BY <3>1, ConcatProperties, LenProperties DEF Streams
  <2>3. BufSize \in Nat
    BY BufSizeAssumption
  <2>4. CASE Segments(d) = <<>>
    <3>1. Len(r \o Remainder(d)) < BufSize
      BY <1>4, <2>1, <2>4
    <3> QED BY <2>1, <2>2, <2>3, <3>1
  <2>5. CASE Segments(d) # <<>>
    <3>1. Len(Segments(d)) >= 1 /\ Len(Segments(d)) \in Nat /\ DOMAIN Segments(d) = 1..Len(Segments(d))
      BY <2>1, <2>5, EmptySeq, LenProperties
    <3>2. m = [j \in 1..Len(Segments(d)) |-> IF j = 1 THEN r \o Segments(d)[1] ELSE Segments(d)[j]]
      BY <2>1, <3>1, Zenon DEF FirstWith
    <3>3. 1 \in 1..Len(Segments(d))
      BY <3>1
    <3>4. m[1] = r \o Segments(d)[1] /\ Segments(d)[1] \in Streams
      BY <2>1, <3>2, <3>3, ElementOfSeq
    <3>5. Len(m) >= 1
      <4>1. m # <<>>
        <5>1. DOMAIN m = 1..Len(Segments(d))
          BY <3>2, Zenon
        <5>2. 1 \in DOMAIN m
          BY <3>3, <5>1
        <5> HIDE DEF m
        <5> QED BY <1>2, <5>2
      <4> QED BY <1>2, <4>1, EmptySeq
    <3>6. Len(l) + 1 \in 1..Len(l) + Len(m) /\ ~(Len(l) + 1 <= Len(l)) /\ Len(l) + 1 - Len(l) = 1
      BY <1>3, <3>5
    <3>7. (l \o m)[Len(l) + 1] = m[1]
      <4> HIDE DEF l, m
      <4> QED BY <1>3, <3>6
    <3>8. Len(r \o Segments(d)[1]) < BufSize
      BY <1>4, <3>4, <3>6, <3>7
    <3> QED BY <2>2, <2>3, <3>4, <3>8
  <2> QED BY <2>4, <2>5
<1> QED BY <1>5, <1>6 DEF AllShort

LEMMA HeadMoves ==
  ASSUME NEW S, NEW l \in Seq(S), NEW q \in Seq(S), q # <<>>
  PROVE  /\ Append(l, Head(q)) \in Seq(S) /\ Tail(q) \in Seq(S)
         /\ Append(l, Head(q)) \o Tail(q) = l \o q
<1>1. Head(q) \in S /\ Tail(q) \in Seq(S) /\ <<Head(q)>> \in Seq(S)
  BY HeadTailProperties
<1>2. q = <<Head(q)>> \o Tail(q)
  <2>1. Len(q) \in Nat \ {0}
    BY EmptySeq
  <2>2. 1 \in 1..Len(q) /\ Len(q) \in 1..Len(q) /\ 1 + 1 = 2
    BY <2>1
  <2>3. SubSeq(q, 1, Len(q)) = <<q[1]>> \o SubSeq(q, 2, Len(q))
    BY <2>2, SubSeqRecursiveFirst
  <2>4. SubSeq(q, 1, Len(q)) = q /\ Tail(q) = SubSeq(q, 2, Len(q)) /\ Head(q) = q[1]
    BY SubSeqFull, TailIsSubSeq
  <2> QED BY <2>3, <2>4
<1>3. Append(l, Head(q)) = l \o <<Head(q)>> /\ Append(l, Head(q)) \in Seq(S)
  BY <1>1, AppendIsConcat, AppendProperties
<1>4. (l \o <<Head(q)>>) \o Tail(q) = l \o (<<Head(q)>> \o Tail(q))
  BY <1>1, ConcatAssociative
<1> QED BY <1>1, <1>2, <1>3, <1>4

-----------------------------------------------------------------------------
(* The reader.                                                              *)

Received == SubSeq(sent, 1, got)

(* What each variable holds; between two calls no part of a line is outside *)
(* the buffer.                                                              *)
ReaderType ==
  /\ sent \in Streams /\ Len(sent) <= MaxBytes /\ got \in 0..Len(sent)
  /\ closed \in BOOLEAN /\ timed_out \in BOOLEAN
  /\ pc \in {"idle", "reading", "ended"}
  /\ buf \in Streams /\ Len(buf) < BufSize
  /\ cur_msg \in Streams /\ Segments(cur_msg) = <<>>
  /\ delivered \in Seq(Streams) /\ buffered_msgs \in Seq(Streams)
  /\ pc = "reading" => buffered_msgs = <<>>
  /\ pc = "idle" => cur_msg = <<>>

(* Until a call that has given a part of a line away is lost to a timeout,  *)
(* the lines are handed out or queued and what is left of the stream is the *)
(* part of it in cur_msg and then the buffer.                               *)
LinesInv ==
  ~timed_out \/ AllShort(Received) =>
    /\ delivered \o buffered_msgs = NotEmpty(Segments(Received))
    /\ Remainder(Received) = cur_msg \o buf

(* Only a line that outgrows the buffer is in two places.                   *)
ShortInv == AllShort(Received) => cur_msg = <<>>

EndInv == pc = "ended" => closed /\ got = Len(sent) /\ last = buf

ReaderInv == ReaderType /\ LinesInv /\ ShortInv /\ EndInv

LEMMA ReaderInit ==
  ASSUME Init
  PROVE  ReaderInv
<1>1. <<>> \in Streams /\ Len(<<>>) = 0 /\ <<>> \in Seq(Streams)
  BY DEF Streams
<1>2. SubSeq(<<>>, 1, 0) = <<>>
  BY SubSeqEmpty
<1>3. Received = <<>>
  BY <1>2, Zenon DEF Init, Received
<1>4. NotEmpty(<<>>) = <<>> /\ <<>> \o <<>> = <<>>
  <2>1. <<>> \o <<>> = <<>>
    BY <1>1, ConcatEmptySeq
  <2>2. Kept(<<>>) = {}
    BY DEF Kept
  <2>3. Len(NotEmpty(<<>>)) = 0 /\ NotEmpty(<<>>) \in Seq(Streams)
    BY <1>1, <2>2, NotEmptyType, FS_EmptySet
  <2> QED BY <2>1, <2>3
<1>5. ReaderType
  <2>1. 0 <= MaxBytes /\ 0 \in 0..0 /\ 0 < BufSize
    BY BufSizeAssumption, MaxBytesAssumption
  <2>2. /\ sent = <<>> /\ got = 0 /\ buf = <<>> /\ cur_msg = <<>> /\ buffered_msgs = <<>>
        /\ delivered = <<>> /\ closed = FALSE /\ timed_out = FALSE /\ pc = "idle"
    BY Zenon DEF Init
  <2>3. /\ closed \in BOOLEAN /\ timed_out \in BOOLEAN
        /\ pc \in {"idle", "reading", "ended"}
    BY <2>2
  <2> QED BY <1>1, <2>1, <2>2, <2>3, EmptyStream, Zenon DEF ReaderType
<1>6. LinesInv
  BY <1>3, <1>4, EmptyStream, Zenon DEF Init, LinesInv
<1>7. ShortInv /\ EndInv
  BY DEF Init, ShortInv, EndInv
<1> QED BY <1>5, <1>6, <1>7 DEF ReaderInv

LEMMA PeerKeeps ==
  ASSUME ReaderInv, PeerWrites \/ PeerCloses
  PROVE  ReaderInv'
<1>1. /\ ReaderType /\ LinesInv /\ ShortInv /\ EndInv
      /\ sent \in Streams /\ got \in Nat /\ got <= Len(sent) /\ Len(sent) \in Nat
  BY LenProperties DEF ReaderInv, ReaderType, Streams
<1>2. UNCHANGED <<got, buf, cur_msg, buffered_msgs, pc, delivered, timed_out, last>> /\ ~closed
  BY Zenon DEF PeerWrites, PeerCloses
<1>3. /\ sent' \in Streams /\ Len(sent') <= MaxBytes /\ got \in 0..Len(sent')
      /\ SubSeq(sent', 1, got) = SubSeq(sent, 1, got)
      /\ closed' \in BOOLEAN
  <2>1. CASE PeerWrites
    <3>1. PICK b \in {Newline, Len(sent) + 1} : sent' = Append(sent, b)
      BY <2>1 DEF PeerWrites
    <3>2. b \in Bytes
      BY <1>1, <3>1 DEF Bytes, Newline
    <3>3. Append(sent, b) \in Streams /\ Len(Append(sent, b)) = Len(sent) + 1
      BY <1>1, <3>2, NewlinesOfAppend
    <3>4. SubSeq(Append(sent, b), 1, got) = SubSeq(sent, 1, got)
      BY <1>1, <3>2, SubSeqOfAppend
    <3>5. Len(sent) < MaxBytes /\ closed' = closed
      BY <2>1 DEF PeerWrites
    <3>6. Len(sent) + 1 <= MaxBytes /\ got \in 0..(Len(sent) + 1)
      BY <1>1, <3>5, MaxBytesAssumption
    <3> QED BY <1>1, <3>1, <3>3, <3>4, <3>5, <3>6 DEF ReaderType
  <2>2. CASE PeerCloses
    BY <1>1, <2>2 DEF PeerCloses, ReaderType
  <2>3. PeerWrites \/ PeerCloses
    OBVIOUS
  <2> QED BY <2>1, <2>2, <2>3
<1>4. Received' = Received
  BY <1>2, <1>3, Zenon DEF Received
<1>5. ReaderType'
  BY <1>1, <1>2, <1>3, Zenon DEF ReaderType
<1>6. LinesInv' /\ ShortInv'
  BY <1>1, <1>2, <1>4, Zenon DEF LinesInv, ShortInv, AllShort
<1>7. EndInv'
  BY <1>1, <1>2, Zenon DEF EndInv
<1> QED BY <1>5, <1>6, <1>7, Zenon DEF ReaderInv

LEMMA CallKeeps ==
  ASSUME ReaderInv, ReadQueued \/ StartRead \/ ReadEnd \/ TimeOut
  PROVE  ReaderInv'
<1>1. ReaderType /\ LinesInv /\ ShortInv /\ EndInv
  BY Zenon DEF ReaderInv
<1>2. UNCHANGED <<sent, closed, got, buf>>
  BY Zenon DEF ReadQueued, StartRead, ReadEnd, TimeOut, peerVars
<1>3. Received' = Received
  BY <1>2, Zenon DEF Received
<1>4. CASE ReadQueued
  <2>1. /\ delivered' \in Seq(Streams) /\ buffered_msgs' \in Seq(Streams)
        /\ delivered' \o buffered_msgs' = delivered \o buffered_msgs
    BY <1>1, <1>4, HeadMoves DEF ReadQueued, ReaderType
  <2>2. UNCHANGED <<cur_msg, pc, timed_out, last>> /\ pc = "idle"
    BY <1>4, Zenon DEF ReadQueued
  <2>3. ReaderType'
    BY <1>1, <1>2, <2>1, <2>2 DEF ReaderType
  <2>4. LinesInv' /\ ShortInv' /\ EndInv'
    BY <1>1, <1>2, <1>3, <2>1, <2>2, Zenon DEF LinesInv, ShortInv, EndInv, AllShort
  <2> QED BY <2>3, <2>4, Zenon DEF ReaderInv
<1>5. CASE StartRead
  <2>1. /\ UNCHANGED <<cur_msg, delivered, buffered_msgs, timed_out, last>>
        /\ pc' = "reading" /\ buffered_msgs = <<>>
    BY <1>1, <1>5 DEF StartRead, ReaderType
  <2>2. ReaderType'
    BY <1>1, <1>2, <2>1 DEF ReaderType
  <2>3. LinesInv' /\ ShortInv'
    BY <1>1, <1>2, <1>3, <2>1, Zenon DEF LinesInv, ShortInv, AllShort
  <2>4. EndInv'
    BY <2>1 DEF EndInv
  <2> QED BY <2>2, <2>3, <2>4, Zenon DEF ReaderInv
<1>6. CASE ReadEnd
  <2>1. /\ UNCHANGED <<cur_msg, delivered, buffered_msgs, timed_out>>
        /\ pc' = "ended" /\ last' = buf
        /\ Room = 0 \/ (closed /\ got = Len(sent))
    BY <1>6, Zenon DEF ReadEnd
  <2>2. Room # 0
    BY <1>1, BufSizeAssumption, LenProperties DEF Room, ReaderType, Streams
  <2>3. ReaderType'
    BY <1>1, <1>2, <2>1 DEF ReaderType
  <2>4. LinesInv' /\ ShortInv'
    BY <1>1, <1>2, <1>3, <2>1, Zenon DEF LinesInv, ShortInv, AllShort
  <2>5. EndInv'
    BY <1>2, <2>1, <2>2, Zenon DEF EndInv
  <2> QED BY <2>3, <2>4, <2>5, Zenon DEF ReaderInv
<1>7. CASE TimeOut
  <2>1. /\ UNCHANGED <<delivered, buffered_msgs, last>>
        /\ pc' = "idle" /\ cur_msg' = <<>> /\ timed_out' = TRUE
    BY <1>7, Zenon DEF TimeOut
  <2>2. ReaderType'
    BY <1>1, <1>2, <2>1, EmptyStream DEF ReaderType
  <2>3. LinesInv'
    <3> SUFFICES ASSUME AllShort(Received) PROVE LinesInv'
      BY <1>3, <2>1, Zenon DEF LinesInv, AllShort
    <3>1. cur_msg' = cur_msg
      BY <1>1, <2>1 DEF ShortInv
    <3> QED BY <1>1, <1>2, <1>3, <2>1, <3>1, Zenon DEF LinesInv
  <2>4. ShortInv' /\ EndInv'
    BY <2>1 DEF ShortInv, EndInv
  <2> QED BY <2>2, <2>3, <2>4, Zenon DEF ReaderInv
<1> QED BY <1>4, <1>5, <1>6, <1>7

LEMMA NoneNotEmpty == NotEmpty(<<>>) = <<>>
<1>1. <<>> \in Seq(Streams)
  OBVIOUS
<1>2. Kept(<<>>) = {}
  BY DEF Kept
<1>3. Len(NotEmpty(<<>>)) = 0 /\ NotEmpty(<<>>) \in Seq(Streams)
  BY <1>1, <1>2, NotEmptyType, FS_EmptySet
<1> QED BY <1>3

(* A piece arrives: what it ends is handed out, and what it leaves open     *)
(* stays, in the buffer or, once it fills that, in cur_msg.                 *)
LEMMA ReceiveKeeps ==
  ASSUME ReaderInv, NEW n \in 1..BufSize, Receive(n)
  PROVE  ReaderInv'
<1> DEFINE chunk == SubSeq(sent, got + 1, got + n)
           data == buf \o chunk
           segs == Segments(data)
           lines == FirstWith(cur_msg, segs)
           msgs == NotEmpty(lines)
           all == cur_msg \o data
<1>1. /\ ReaderType /\ LinesInv /\ ShortInv /\ EndInv
      /\ UNCHANGED <<sent, closed, timed_out, last>>
      /\ pc = "reading" /\ buffered_msgs = <<>>
      /\ n \in Nat /\ got \in Nat /\ Len(buf) \in Nat /\ BufSize \in Nat \ {0}
      /\ n <= BufSize - Len(buf) /\ n <= Len(sent) - got
      /\ got' = got + n /\ got + n <= Len(sent) /\ Len(sent) \in Nat
  <2>1. /\ ReaderType /\ LinesInv /\ ShortInv /\ EndInv
        /\ UNCHANGED <<sent, closed, timed_out, last>> /\ pc = "reading"
        /\ n <= Room /\ n <= Len(sent) - got /\ got' = got + n
    BY Zenon DEF ReaderInv, Receive, peerVars
  <2>2. Len(sent) \in Nat /\ Len(buf) \in Nat /\ got \in Nat /\ buffered_msgs = <<>>
    BY <2>1, LenProperties DEF ReaderType, Streams
  <2>3. BufSize \in Nat \ {0} /\ n \in Nat
    BY BufSizeAssumption
  <2> QED BY <2>1, <2>2, <2>3 DEF Room
<1>2. /\ chunk \in Streams /\ Len(chunk) = n
      /\ Received \in Streams /\ Received' = Received \o chunk
  <2>1. sent \in Streams
    BY <1>1 DEF ReaderType
  <2>2. /\ SubSeq(sent, 1, got) \in Streams /\ chunk \in Streams
        /\ SubSeq(sent, 1, got + n) = SubSeq(sent, 1, got) \o chunk /\ Len(chunk) = n
    <3>1. got \in Nat /\ n \in Nat /\ got + n <= Len(sent)
      BY <1>1
    <3> QED BY <2>1, <3>1, MoreReceived, Zenon
  <2>3. Received' = SubSeq(sent, 1, got + n)
    BY <1>1, Zenon DEF Received
  <2> HIDE DEF chunk
  <2> QED BY <2>2, <2>3 DEF Received
<1>3. /\ buf \in Streams /\ cur_msg \in Streams /\ Segments(cur_msg) = <<>>
      /\ data \in Streams /\ Len(data) = Len(buf) + n
      /\ all \in Streams /\ all = (cur_msg \o buf) \o chunk
  <2>1. buf \in Streams /\ cur_msg \in Streams /\ Segments(cur_msg) = <<>> /\ chunk \in Streams
    BY <1>1, <1>2 DEF ReaderType
  <2>2. data \in Streams /\ Len(data) = Len(buf) + n
    <3> HIDE DEF chunk
    <3> QED BY <1>2, <2>1, ConcatProperties DEF Streams
  <2>3. all = (cur_msg \o buf) \o chunk
    <3> HIDE DEF chunk
    <3> QED BY <2>1, ConcatAssociative DEF Streams
  <2>4. all \in Streams
    <3> HIDE DEF data
    <3> QED BY <2>1, <2>2, ConcatProperties DEF Streams
  <2> QED BY <2>1, <2>2, <2>3, <2>4
<1>4. /\ segs \in Seq(Streams) /\ Remainder(data) \in Streams
      /\ segs = <<>> => Remainder(data) = data
      /\ segs # <<>> => Len(Remainder(data)) < Len(data)
      /\ Segments(all) = lines
      /\ Remainder(all) = IF segs = <<>> THEN cur_msg \o Remainder(data) ELSE Remainder(data)
      /\ segs = <<>> => lines = <<>>
  <2>1. segs \in Seq(Streams) /\ Remainder(data) \in Streams
    BY <1>3, SegmentsType
  <2>2. /\ segs = <<>> => Remainder(data) = data
        /\ segs # <<>> => Len(Remainder(data)) < Len(data)
    BY <1>3, NoSegments
  <2>3. FirstWith(cur_msg, <<>>) = <<>>
    BY DEF FirstWith
  <2>4. data \in Streams /\ cur_msg \in Streams /\ Segments(cur_msg) = <<>>
    BY <1>3
  <2> HIDE DEF data
  <2>5. /\ Segments(all) = lines
        /\ Remainder(all) = IF segs = <<>> THEN cur_msg \o Remainder(data) ELSE Remainder(data)
    BY <2>4, LineGoesOn
  <2> QED BY <2>1, <2>2, <2>3, <2>5
<1>5. lines \in Seq(Streams) /\ msgs \in Seq(Streams) /\ (segs = <<>> => msgs = <<>>)
  <2>1. segs \in Seq(Streams) /\ cur_msg \in Streams
    BY <1>3, <1>4
  <2>2. lines \in Seq(Streams)
    <3>1. <<>> \in Streams
      BY EmptyStream
    <3> HIDE DEF segs
    <3> QED BY <2>1, <3>1, FirstWithAppend
  <2>3. msgs \in Seq(Streams)
    <3> HIDE DEF lines
    <3> QED BY <2>2, NotEmptyType
  <2>4. segs = <<>> => msgs = <<>>
    BY <1>4, NoneNotEmpty
  <2> QED BY <2>2, <2>3, <2>4
<1>6. /\ IF segs = <<>> /\ Len(data) = BufSize
           THEN buf' = <<>> /\ cur_msg' = all
           ELSE /\ buf' = Remainder(data)
                /\ cur_msg' = IF segs = <<>> THEN cur_msg ELSE <<>>
      /\ IF msgs = <<>>
           THEN UNCHANGED <<pc, delivered, buffered_msgs>>
           ELSE /\ pc' = "idle"
                /\ delivered' = Append(delivered, Head(msgs))
                /\ buffered_msgs' = Tail(msgs)
  <2>1. WithOutgrown(segs) = lines
    BY Zenon DEF WithOutgrown, FirstWith
  <2> QED BY <2>1, Zenon DEF Receive, Spills
<1> HIDE DEF chunk, data, segs, lines, msgs, all
<1>7. cur_msg' \o buf' = Remainder(all) /\ cur_msg' \in Streams /\ buf' \in Streams
  <2>1. CASE segs = <<>> /\ Len(data) = BufSize
    <3>1. all \o <<>> = all
      BY <1>3, ConcatEmptySeq DEF Streams
    <3>2. Remainder(all) = all
      BY <1>4, <2>1 DEF all
    <3> QED BY <1>3, <1>6, <2>1, <3>1, <3>2, EmptyStream
  <2>2. CASE segs = <<>> /\ Len(data) # BufSize
    <3>1. buf' = Remainder(data) /\ cur_msg' = cur_msg
      BY <1>6, <2>2, Zenon
    <3>2. Remainder(all) = cur_msg \o Remainder(data)
      BY <1>4, <2>2, Zenon
    <3> QED BY <1>3, <1>4, <3>1, <3>2, Zenon
  <2>3. CASE segs # <<>>
    <3>1. <<>> \o Remainder(data) = Remainder(data)
      BY <1>4, ConcatEmptySeq DEF Streams
    <3> QED BY <1>4, <1>6, <2>3, <3>1, EmptyStream
  <2> QED BY <2>1, <2>2, <2>3
<1>8. Len(buf') < BufSize /\ Segments(cur_msg') = <<>>
  <2>1. CASE segs = <<>> /\ Len(data) = BufSize
    <3>1. Segments(all) = <<>>
      BY <1>4, <2>1
    <3> QED BY <1>1, <1>6, <2>1, <3>1
  <2>2. CASE segs = <<>> /\ Len(data) # BufSize
    <3>1. buf' = Remainder(data) /\ cur_msg' = cur_msg
      BY <1>6, <2>2, Zenon
    <3>2. Remainder(data) = data /\ Segments(cur_msg) = <<>>
      BY <1>3, <1>4, <2>2, Zenon
    <3>3. Len(data) < BufSize
      BY <1>1, <1>3, <2>2
    <3> QED BY <3>1, <3>2, <3>3, Zenon
  <2>3. CASE segs # <<>>
    <3>1. Len(Remainder(data)) \in Nat
      BY <1>4, LenProperties DEF Streams
    <3> QED BY <1>1, <1>3, <1>4, <1>6, <2>3, <3>1, EmptyStream
  <2> QED BY <2>1, <2>2, <2>3
<1>9. /\ delivered' \in Seq(Streams) /\ buffered_msgs' \in Seq(Streams)
      /\ delivered' \o buffered_msgs' = delivered \o msgs
      /\ pc' \in {"idle", "reading"}
      /\ pc' = "reading" => buffered_msgs' = <<>>
      /\ pc' = "idle" => cur_msg' = <<>>
  <2>1. delivered \in Seq(Streams)
    BY <1>1 DEF ReaderType
  <2>2. CASE msgs = <<>>
    BY <1>1, <1>6, <2>1, <2>2, EmptySeq
  <2>3. CASE msgs # <<>>
    <3>1. /\ Append(delivered, Head(msgs)) \in Seq(Streams) /\ Tail(msgs) \in Seq(Streams)
          /\ Append(delivered, Head(msgs)) \o Tail(msgs) = delivered \o msgs
      BY <1>5, <2>1, <2>3, HeadMoves
    <3>2. segs # <<>>
      BY <1>5, <2>3
    <3> QED BY <1>6, <2>3, <3>1, <3>2
  <2> QED BY <2>2, <2>3
<1>10. ReaderType'
  <2>1. got' \in 0..Len(sent')
    BY <1>1
  <2>2. pc' \in {"idle", "reading", "ended"}
    BY <1>9
  <2> QED BY <1>1, <1>7, <1>8, <1>9, <2>1, <2>2, Zenon DEF ReaderType
<1>11. ASSUME ~timed_out \/ AllShort(Received')
       PROVE  /\ delivered' \o buffered_msgs' = NotEmpty(Segments(Received'))
              /\ Remainder(Received') = Remainder(all)
  <2>1. ~timed_out \/ AllShort(Received)
    BY <1>2, <1>11, ShortBefore
  <2>2. /\ delivered \o <<>> = NotEmpty(Segments(Received))
        /\ Remainder(Received) = cur_msg \o buf
    BY <1>1, <2>1 DEF LinesInv
  <2>3. delivered \o <<>> = delivered
    BY <1>1, ConcatEmptySeq DEF ReaderType
  <2>4. /\ Segments(Received') = Segments(Received) \o Segments(Remainder(Received) \o chunk)
        /\ Remainder(Received') = Remainder(Remainder(Received) \o chunk)
    BY <1>2, PieceArrives
  <2>5. Remainder(Received) \o chunk = all
    BY <1>3, <2>2
  <2>6. Segments(Received') = Segments(Received) \o lines /\ Remainder(Received') = Remainder(all)
    BY <1>4, <2>4, <2>5
  <2>7. Segments(Received) \in Seq(Streams)
    BY <1>2, SegmentsType
  <2>8. NotEmpty(Segments(Received) \o lines) = NotEmpty(Segments(Received)) \o msgs
    BY <1>5, <2>7, NotEmptyConcat DEF msgs
  <2> QED BY <1>9, <2>2, <2>3, <2>6, <2>8
<1>12. LinesInv'
  <2> SUFFICES ASSUME (~timed_out \/ AllShort(Received))'
               PROVE  /\ (delivered \o buffered_msgs = NotEmpty(Segments(Received)))'
                      /\ (Remainder(Received) = cur_msg \o buf)'
    BY Zenon DEF LinesInv
  <2>1. ~timed_out \/ AllShort(Received')
    BY <1>1, Zenon DEF AllShort
  <2>2. /\ delivered' \o buffered_msgs' = NotEmpty(Segments(Received'))
        /\ Remainder(Received') = Remainder(all)
    BY <1>11, <2>1
  <2> QED BY <1>7, <2>2
<1>13. ShortInv'
  <2> SUFFICES ASSUME AllShort(Received') PROVE cur_msg' = <<>>
    BY Zenon DEF ShortInv, AllShort
  <2>1. cur_msg = <<>>
    BY <1>1, <1>2, ShortBefore DEF ShortInv
  <2>2. CASE segs = <<>> /\ Len(data) = BufSize
    <3>1. Remainder(Received') = Remainder(all) /\ Len(Remainder(Received')) < BufSize
      BY <1>11, Zenon DEF AllShort
    <3>2. Remainder(all) = data
      <4>1. Remainder(all) = cur_msg \o data
        BY <1>4, <2>2
      <4>2. <<>> \o data = data
        BY <1>3, ConcatEmptySeq DEF Streams
      <4> QED BY <2>1, <4>1, <4>2
    <3> QED BY <1>1, <2>2, <3>1, <3>2
  <2>3. CASE ~(segs = <<>> /\ Len(data) = BufSize)
    BY <1>6, <2>1, <2>3
  <2> QED BY <2>2, <2>3
<1>14. EndInv'
  BY <1>9 DEF EndInv
<1> QED BY <1>10, <1>12, <1>13, <1>14, Zenon DEF ReaderInv

LEMMA ReaderNext ==
  ASSUME ReaderInv, [Next]_vars
  PROVE  ReaderInv'
<1>1. CASE UNCHANGED vars
  <2>1. UNCHANGED <<sent, closed, got, buf, cur_msg, buffered_msgs, pc, delivered, timed_out, last>>
    BY <1>1, Zenon DEF vars, peerVars
  <2>2. Received' = Received
    BY <2>1, Zenon DEF Received
  <2>3. ReaderType' /\ EndInv'
    BY <2>1, Zenon DEF ReaderInv, ReaderType, EndInv
  <2>4. LinesInv' /\ ShortInv'
    BY <2>1, <2>2, Zenon DEF ReaderInv, LinesInv, ShortInv, AllShort
  <2> QED BY <2>3, <2>4, Zenon DEF ReaderInv
<1>2. CASE Next
  <2>1. CASE PeerWrites \/ PeerCloses
    BY <2>1, PeerKeeps, Zenon
  <2>2. CASE ReadQueued \/ StartRead \/ ReadEnd \/ TimeOut
    BY <2>2, CallKeeps, Zenon
  <2>3. CASE \E n \in 1..BufSize : Receive(n)
    BY <2>3, ReceiveKeeps, Zenon
  <2> QED BY <1>2, <2>1, <2>2, <2>3, Zenon DEF Next
<1> QED BY <1>1, <1>2

LEMMA ReaderSafe ==
  ASSUME ReaderInv
  PROVE  TypeOK /\ ExactLines /\ EndIsEnd
<1>1. TypeOK
  BY DEF ReaderInv, ReaderType, TypeOK
<1>2. ExactLines
  BY Zenon DEF ReaderInv, LinesInv, Received, ExactLines
<1>3. EndIsEnd
  <2> SUFFICES ASSUME pc = "ended"
               PROVE  /\ closed /\ got = Len(sent)
                      /\ AllShort(sent) => last = Remainder(sent)
    BY Zenon DEF EndIsEnd
  <2>1. closed /\ got = Len(sent) /\ last = buf
    BY DEF ReaderInv, EndInv
  <2>2. Received = sent
    <3>1. SubSeq(sent, 1, Len(sent)) = sent
      BY SubSeqFull DEF ReaderInv, ReaderType, Streams
    <3> QED BY <2>1, <3>1 DEF Received
  <2>3. ASSUME AllShort(sent) PROVE last = Remainder(sent)
    <3>1. cur_msg = <<>> /\ Remainder(sent) = cur_msg \o buf
      BY <2>2, <2>3 DEF ReaderInv, ShortInv, LinesInv
    <3>2. <<>> \o buf = buf
      BY ConcatEmptySeq DEF ReaderInv, ReaderType, Streams
    <3> QED BY <2>1, <3>1, <3>2
  <2> QED BY <2>1, <2>3
<1> QED BY <1>1, <1>2, <1>3

LEMMA ReaderAlways == Spec => []ReaderInv
<1>1. Init => ReaderInv
  BY ReaderInit
<1>2. ReaderInv /\ [Next]_vars => ReaderInv'
  BY ReaderNext
<1> QED BY <1>1, <1>2, PTL DEF Spec

(* Every variable of the reader keeps its type, and there is always room    *)
(* for a byte more (socket.cpp:137-217, 337-417).                           *)
THEOREM ReaderTypeTheorem == Spec => []TypeOK
<1>1. ReaderInv => TypeOK
  BY ReaderSafe
<1> QED BY <1>1, ReaderAlways, PTL

(* In whatever pieces a stream arrives, and with any number of bytes in the *)
(* buffer, the lines that read() returns and queues are exactly those of    *)
(* the stream (socket.cpp:137-217, 337-417).                                *)
THEOREM ExactLinesTheorem == Spec => []ExactLines
<1>1. ReaderInv => ExactLines
  BY ReaderSafe
<1> QED BY <1>1, ReaderAlways, PTL

(* The reader ends where the stream does and returns what no newline has    *)
(* ended (socket.cpp:160-162, 363-365).                                     *)
THEOREM EndIsEndTheorem == Spec => []EndIsEnd
<1>1. ReaderInv => EndIsEnd
  BY ReaderSafe
<1> QED BY <1>1, ReaderAlways, PTL
=============================================================================
