------------------------ MODULE PartialTranscript_proofs ------------------------
(***************************************************************************)
(* Theorems about PartialTranscript, for any slots, bytes, transcripts and *)
(* bounds.  The inductive invariant is                                     *)
(*     TypeOK /\ AuthedSound /\ WireSound /\ NoLeak                        *)
(* where WireSound says of the serialised transcript what AuthedSound says *)
(* of a slot: without it a deserialised slot could hold any bytes.         *)
(***************************************************************************)
EXTENDS PartialTranscript, FiniteSetTheorems, TLAPS

(* What the operators of RangeSets return, for index sets and buffers of    *)
(* any size.                                                                *)

(* The positions of an index below i are finitely many, and fewer than the  *)
(* index has when i is one of them.                                         *)
LEMMA RankBounds ==
    ASSUME NEW idx, IsFiniteSet(idx), idx \subseteq Nat, NEW i \in idx
    PROVE  Rank(idx, i) \in 1 .. Cardinality(idx)
PROOF
  <1> DEFINE below == {j \in idx : j < i}
  <1>1. IsFiniteSet(below) /\ Cardinality(below) <= Cardinality(idx)
        /\ (Cardinality(below) = Cardinality(idx) => below = idx)
    BY FS_Subset
  <1>2. Cardinality(below) \in Nat /\ Cardinality(idx) \in Nat
    BY <1>1, FS_CardinalityType
  <1>3. i \notin below
    OBVIOUS
  <1>4. Cardinality(below) # Cardinality(idx)
    BY <1>1, <1>3
  <1> QED
    BY <1>1, <1>2, <1>4 DEF Rank

(* copy_to and the decompression loops advance their offset: a later        *)
(* position of an index has a larger place.                                 *)
LEMMA RankIncreases ==
    ASSUME NEW idx, IsFiniteSet(idx), idx \subseteq Nat,
           NEW i \in idx, NEW j \in idx, i < j
    PROVE  Rank(idx, i) < Rank(idx, j)
PROOF
  <1> DEFINE belowI == {k \in idx : k < i}
             belowJ == {k \in idx : k < j}
  <1>1. IsFiniteSet(belowJ)
    BY FS_Subset
  <1>i. i \in Nat /\ j \in Nat
    OBVIOUS
  <1>s. ASSUME NEW k \in belowI PROVE k \in belowJ
    <2>1. k \in idx /\ k \in Nat /\ k < i
      OBVIOUS
    <2> QED
      BY <1>i, <2>1
  <1>m. i \in belowJ /\ i \notin belowI
    BY <1>i
  <1>c. belowI \in SUBSET belowJ
    BY <1>s, Zenon
  <1>2. belowI \in SUBSET belowJ /\ i \in belowJ /\ i \notin belowI
    BY <1>m, <1>c
  <1>3. IsFiniteSet(belowI) /\ Cardinality(belowI) <= Cardinality(belowJ)
        /\ (Cardinality(belowI) = Cardinality(belowJ) => belowJ = belowI)
    BY <1>1, <1>2, FS_Subset
  <1>4. Cardinality(belowI) \in Nat /\ Cardinality(belowJ) \in Nat
    BY <1>1, <1>3, FS_CardinalityType
  <1>5. Cardinality(belowI) # Cardinality(belowJ)
    BY <1>2, <1>3
  <1> QED
    BY <1>3, <1>4, <1>5 DEF Rank

(* Different positions of an index have different places. *)
LEMMA RankInjective ==
    ASSUME NEW idx, IsFiniteSet(idx), idx \subseteq Nat,
           NEW i \in idx, NEW j \in idx, Rank(idx, i) = Rank(idx, j)
    PROVE  i = j
PROOF
  <1>1. Cardinality(idx) \in Nat
    BY FS_CardinalityType
  <1>2. Rank(idx, i) \in 1 .. Cardinality(idx)
    BY RankBounds
  <1>3. Rank(idx, i) \in Nat /\ i \in Nat /\ j \in Nat
    BY <1>1, <1>2
  <1>4. CASE i < j
    <2>1. Rank(idx, i) < Rank(idx, j)
      BY <1>4, RankIncreases, Zenon
    <2> QED
      BY <1>3, <2>1
  <1>5. CASE j < i
    <2>1. Rank(idx, j) < Rank(idx, i)
      BY <1>5, RankIncreases, Zenon
    <2> QED
      BY <1>3, <2>1
  <1> QED
    BY <1>3, <1>4, <1>5

(* Every place up to the size of the index is the place of a position.      *)
LEMMA RankSurjective ==
    ASSUME NEW idx, IsFiniteSet(idx), idx \subseteq Nat,
           NEW k \in 1 .. Cardinality(idx)
    PROVE  \E i \in idx : Rank(idx, i) = k
PROOF
  <1> DEFINE n == Cardinality(idx)
             place == [i \in idx |-> Rank(idx, i)]
  <1>1. n \in Nat
    BY FS_CardinalityType
  <1>2. place \in [idx -> 1 .. n]
    BY RankBounds
  <1>3. \A i, j \in idx : place[i] = place[j] => i = j
    BY RankInjective
  <1>4. place \in Injection(idx, 1 .. n)
    BY <1>2, <1>3 DEF Injection, IsInjective
  <1>5. IsFiniteSet(1 .. n) /\ Cardinality(1 .. n) = n
    BY <1>1, FS_Interval
  <1>6. place \in Surjection(idx, 1 .. n)
    BY <1>4, <1>5, FS_Injection
  <1> QED
    BY <1>6 DEF Surjection

(* index_ranges returns as many bytes as the index has positions. *)
LEMMA IndexRangesType ==
    ASSUME NEW idx, IsFiniteSet(idx), idx \subseteq Nat, NEW S, NEW data,
           \A i \in idx : data[i] \in S
    PROVE  /\ IndexRanges(data, idx) \in Seq(S)
           /\ Len(IndexRanges(data, idx)) = Cardinality(idx)
PROOF
  <1> DEFINE n == Cardinality(idx)
             at(k) == CHOOSE i \in idx : Rank(idx, i) = k
  <1>1. n \in Nat
    BY FS_CardinalityType
  <1>2. \A k \in 1 .. n : at(k) \in idx
    BY RankSurjective
  <1>3. IndexRanges(data, idx) = [k \in 1 .. n |-> data[at(k)]]
    BY DEF IndexRanges
  <1>4. \A k \in 1 .. n : data[at(k)] \in S
    BY <1>2
  <1> HIDE DEF n, at
  <1>5. IndexRanges(data, idx) \in [1 .. n -> S]
    BY <1>3, <1>4
  <1>6. IndexRanges(data, idx) \in Seq(S)
    BY <1>1, <1>5
  <1>7. Len(IndexRanges(data, idx)) = n
    BY <1>1, <1>3
  <1> QED
    BY <1>6, <1>7 DEF n

(* The round trip of compression and decompression: the byte read back for  *)
(* a position of the index is the byte that was there.                      *)
LEMMA ByteAtIndexRanges ==
    ASSUME NEW idx, IsFiniteSet(idx), idx \subseteq Nat, NEW data, NEW i \in idx
    PROVE  ByteAt(IndexRanges(data, idx), idx, i) = data[i]
PROOF
  <1> DEFINE k == Rank(idx, i)
             at == CHOOSE j \in idx : Rank(idx, j) = k
  <1>1. k \in 1 .. Cardinality(idx)
    BY RankBounds
  <1>2. at \in idx /\ Rank(idx, at) = k
    OBVIOUS
  <1>3. at = i
    BY <1>2, RankInjective
  <1>4. IndexRanges(data, idx)[k] = data[at]
    BY <1>1 DEF IndexRanges
  <1> QED
    BY <1>3, <1>4 DEF ByteAt

-------------------------------------------------------------------------------

(* Every byte that was serialised is a byte of a transcript it came from,   *)
(* and sits at the place of its position.                                   *)
WireSound ==
    wire # None =>
        \A d \in Direction : \A i \in wire.idx[d] :
            ByteOfSome(wireSources, d, i, ByteAt(wire.bytes[d], wire.idx[d], i))

IInv == TypeOK /\ AuthedSound /\ WireSound /\ NoLeak

-------------------------------------------------------------------------------
(* Buffers. *)

(* A buffer is a function on the positions below its length. *)
LEMMA BufferLength ==
    ASSUME NEW b \in Buffer
    PROVE  /\ Length(b) \in 0 .. MaxLength
           /\ DOMAIN b = 0 .. Length(b) - 1
           /\ DOMAIN b \subseteq Position
           /\ b \in [0 .. Length(b) - 1 -> Byte]
PROOF
  <1>1. PICK n \in 0 .. MaxLength : b \in [0 .. n - 1 -> Byte]
    BY DEF Buffer
  <1>2. DOMAIN b = 0 .. n - 1 /\ n \in Int
    BY <1>1, LengthAssumption
  <1>3. Cardinality(0 .. n - 1) = n
    BY <1>1, LengthAssumption, FS_Interval, n \in Nat
  <1>4. Length(b) = n
    BY <1>2, <1>3 DEF Length
  <1> QED
    BY <1>1, <1>2, <1>4, LengthAssumption DEF Position

(* Any function of bytes on the positions below a length is a buffer. *)
LEMMA IsBuffer ==
    ASSUME NEW n \in 0 .. MaxLength, NEW b \in [0 .. n - 1 -> Byte]
    PROVE  b \in Buffer
  BY DEF Buffer

(* Copying keeps the length of the buffer. *)
LEMMA CopyFromType ==
    ASSUME NEW b \in Buffer, NEW S, NEW other, \A i \in S \cap DOMAIN b : other[i] \in Byte
    PROVE  CopyFrom(b, S, other) \in Buffer /\ DOMAIN CopyFrom(b, S, other) = DOMAIN b
PROOF
  <1> DEFINE n == Length(b)
  <1>1. n \in 0 .. MaxLength /\ DOMAIN b = 0 .. n - 1 /\ b \in [0 .. n - 1 -> Byte]
    BY BufferLength
  <1> HIDE DEF n
  <1>2. CopyFrom(b, S, other) \in [0 .. n - 1 -> Byte]
    BY <1>1 DEF CopyFrom
  <1> QED
    BY <1>1, <1>2, IsBuffer DEF CopyFrom

(* Filling keeps the length of the buffer. *)
LEMMA FillType ==
    ASSUME NEW b \in Buffer, NEW S, NEW value \in Byte
    PROVE  Fill(b, S, value) \in Buffer /\ DOMAIN Fill(b, S, value) = DOMAIN b
PROOF
  <1> DEFINE n == Length(b)
  <1>1. n \in 0 .. MaxLength /\ DOMAIN b = 0 .. n - 1 /\ b \in [0 .. n - 1 -> Byte]
    BY BufferLength
  <1> HIDE DEF n
  <1>2. Fill(b, S, value) \in [0 .. n - 1 -> Byte]
    BY <1>1 DEF Fill
  <1> QED
    BY <1>1, <1>2, IsBuffer DEF Fill

(* A buffer of zeroes of a given length. *)
LEMMA ZeroesType ==
    ASSUME NEW b \in Buffer
    PROVE  Zeroes(Length(b)) \in Buffer /\ DOMAIN Zeroes(Length(b)) = DOMAIN b
PROOF
  <1> DEFINE n == Length(b)
  <1>1. n \in 0 .. MaxLength /\ DOMAIN b = 0 .. n - 1
    BY BufferLength
  <1> HIDE DEF n
  <1>2. Zeroes(n) \in [0 .. n - 1 -> Byte]
    BY ByteAssumption DEF Zeroes
  <1>3. Zeroes(n) \in Buffer /\ DOMAIN Zeroes(n) = DOMAIN b
    BY <1>1, <1>2, IsBuffer
  <1> QED
    BY <1>3 DEF n

(* An index is a finite set of naturals. *)
LEMMA IndexFinite ==
    ASSUME NEW idx \in SUBSET Position
    PROVE  IsFiniteSet(idx) /\ idx \subseteq Nat
PROOF
  <1>1. IsFiniteSet(Position) /\ Position \subseteq Nat
    BY LengthAssumption, FS_Interval DEF Position
  <1> QED
    BY <1>1, FS_Subset

-------------------------------------------------------------------------------
(* The three things the invariant says of one partial transcript. *)

WellFormed(p) ==
    p \in Partial /\ \A d \in Direction : p.authed[d] \subseteq DOMAIN p.data[d]

Sound(p, S) ==
    \A d \in Direction : \A i \in p.authed[d] : ByteOfSome(S, d, i, p.data[d][i])

Clean(p) ==
    \A d \in Direction : \A i \in Unauthed(p, d) : p.data[d][i] \in Filler \cup {0}

(* The bytes of a transcript are bytes. *)
LEMMA TranscriptType ==
    ASSUME NEW t \in Transcripts, NEW d \in Direction
    PROVE  t[d] \in Buffer /\ \A i \in DOMAIN t[d] : t[d][i] \in Byte
PROOF
  <1>1. t[d] \in Buffer
    BY TranscriptAssumption
  <1> QED
    BY <1>1, BufferLength

(* What TypeOK says of one held slot. *)
LEMMA HeldType ==
    ASSUME TypeOK, NEW s \in Held
    PROVE  s \in Slot /\ WellFormed(slots[s])
  BY DEF TypeOK, Held, WellFormed, InBounds

(* What being well formed says of one direction. *)
LEMMA DataType ==
    ASSUME NEW p, WellFormed(p), NEW d \in Direction
    PROVE  /\ p.data[d] \in Buffer
           /\ p.authed[d] \in SUBSET Position
           /\ \A i \in DOMAIN p.data[d] : p.data[d][i] \in Byte
PROOF
  <1>1. p.data[d] \in Buffer /\ p.authed[d] \in SUBSET Position
    BY DEF WellFormed, Partial
  <1> QED
    BY <1>1, BufferLength

(* to_partial: authenticated where the index says, zero elsewhere. *)
LEMMA ToPartialCorrect ==
    ASSUME NEW t \in Transcripts, NEW idx \in [Direction -> SUBSET Position],
           \A d \in Direction : InBounds(idx[d], t[d])
    PROVE  /\ WellFormed(ToPartial(t, idx))
           /\ Sound(ToPartial(t, idx), {t})
           /\ Clean(ToPartial(t, idx))
PROOF
  <1> DEFINE p == ToPartial(t, idx)
             b(d) == CopyFrom(Zeroes(Length(t[d])), idx[d], t[d])
  <1>1. p = [data |-> [d \in Direction |-> b(d)], authed |-> idx]
    BY DEF ToPartial
  <1>2. ASSUME NEW d \in Direction
        PROVE  /\ b(d) \in Buffer
               /\ DOMAIN b(d) = DOMAIN t[d]
               /\ \A i \in idx[d] : i \in DOMAIN t[d] /\ b(d)[i] = t[d][i]
               /\ \A i \in DOMAIN t[d] \ idx[d] : b(d)[i] = 0
    <2>1. t[d] \in Buffer /\ \A i \in DOMAIN t[d] : t[d][i] \in Byte
      BY TranscriptType
    <2>2. Zeroes(Length(t[d])) \in Buffer /\ DOMAIN Zeroes(Length(t[d])) = DOMAIN t[d]
      BY <2>1, ZeroesType
    <2>3. b(d) \in Buffer /\ DOMAIN b(d) = DOMAIN t[d]
      BY <2>1, <2>2, CopyFromType
    <2>4. \A i \in DOMAIN t[d] : Zeroes(Length(t[d]))[i] = 0
      BY <2>2 DEF Zeroes
    <2> QED
      BY <2>2, <2>3, <2>4 DEF CopyFrom, InBounds
  <1> HIDE DEF b
  <1>3. WellFormed(p)
    BY <1>1, <1>2 DEF WellFormed, Partial, InBounds
  <1>4. Sound(p, {t})
    BY <1>1, <1>2 DEF Sound, ByteOfSome
  <1>5. Clean(p)
    BY <1>1, <1>2 DEF Clean, Unauthed
  <1> QED
    BY <1>3, <1>4, <1>5

(* new: the caller's index over the caller's data. *)
LEMMA NewCorrect ==
    ASSUME NEW t \in Transcripts, NEW idx \in [Direction -> SUBSET Position],
           \A d \in Direction : InBounds(idx[d], t[d])
    PROVE  WellFormed(NewPartial(t, idx)) /\ Sound(NewPartial(t, idx), {t})
  BY TranscriptAssumption DEF NewPartial, WellFormed, Partial, Sound, ByteOfSome, InBounds

(* union_transcript: sound for the transcripts of both sides, and as clean  *)
(* as its left side, whatever the right side holds outside its index.       *)
LEMMA UnionCorrect ==
    ASSUME NEW p, NEW q, WellFormed(p), WellFormed(q), SameLengths(p, q)
    PROVE  /\ WellFormed(UnionOf(p, q))
           /\ \A S, T : Sound(p, S) /\ Sound(q, T) => Sound(UnionOf(p, q), S \cup T)
           /\ Clean(p) => Clean(UnionOf(p, q))
PROOF
  <1> DEFINE u == UnionOf(p, q)
             b(d) == CopyFrom(p.data[d], q.authed[d] \ p.authed[d], q.data[d])
             a(d) == p.authed[d] \cup q.authed[d]
  <1>1. u = [data |-> [d \in Direction |-> b(d)], authed |-> [d \in Direction |-> a(d)]]
    BY DEF UnionOf
  <1>2. ASSUME NEW d \in Direction
        PROVE  /\ b(d) \in Buffer
               /\ DOMAIN b(d) = DOMAIN p.data[d]
               /\ DOMAIN q.data[d] = DOMAIN p.data[d]
               /\ p.authed[d] \subseteq DOMAIN p.data[d]
               /\ q.authed[d] \subseteq DOMAIN p.data[d]
               /\ \A i \in p.authed[d] : b(d)[i] = p.data[d][i]
               /\ \A i \in q.authed[d] \ p.authed[d] : b(d)[i] = q.data[d][i]
               /\ \A i \in DOMAIN p.data[d] \ a(d) : b(d)[i] = p.data[d][i]
               /\ a(d) \in SUBSET Position
    <2>1. /\ p.data[d] \in Buffer /\ q.data[d] \in Buffer
          /\ p.authed[d] \in SUBSET Position /\ q.authed[d] \in SUBSET Position
          /\ \A i \in DOMAIN q.data[d] : q.data[d][i] \in Byte
      BY DataType
    <2>2. DOMAIN q.data[d] = DOMAIN p.data[d]
      BY <2>1, BufferLength DEF SameLengths
    <2>3. p.authed[d] \subseteq DOMAIN p.data[d] /\ q.authed[d] \subseteq DOMAIN p.data[d]
      BY <2>2 DEF WellFormed
    <2>4. b(d) \in Buffer /\ DOMAIN b(d) = DOMAIN p.data[d]
      BY <2>1, <2>2, CopyFromType
    <2> QED
      BY <2>1, <2>2, <2>3, <2>4 DEF CopyFrom
  <1> HIDE DEF b
  <1>3. WellFormed(u)
    BY <1>1, <1>2 DEF WellFormed, Partial
  <1>4. ASSUME NEW S, NEW T, Sound(p, S), Sound(q, T)
        PROVE  Sound(u, S \cup T)
    <2>s. \A d \in Direction : u.authed[d] = a(d) /\ u.data[d] = b(d)
      BY <1>1
    <2>1. SUFFICES ASSUME NEW d \in Direction, NEW i \in a(d)
                   PROVE  ByteOfSome(S \cup T, d, i, b(d)[i])
      BY <2>s, Zenon DEF Sound
    <2>2. CASE i \in p.authed[d]
      BY <1>2, <1>4, <2>2 DEF Sound, ByteOfSome
    <2>3. CASE i \in q.authed[d] \ p.authed[d]
      BY <1>2, <1>4, <2>3 DEF Sound, ByteOfSome
    <2> QED
      BY <2>2, <2>3
  <1>5. Clean(p) => Clean(u)
    BY <1>1, <1>2 DEF Clean, Unauthed
  <1> QED
    BY <1>3, <1>4, <1>5

(* union_subsequence within bounds. *)
LEMMA OverwriteCorrect ==
    ASSUME NEW p, WellFormed(p), NEW d \in Direction, NEW t \in Transcripts,
           NEW idx \in SUBSET DOMAIN t[d], InBounds(idx, p.data[d])
    PROVE  /\ WellFormed(Overwrite(p, d, idx, t))
           /\ \A S : Sound(p, S) => Sound(Overwrite(p, d, idx, t), S \cup {t})
           /\ Clean(p) => Clean(Overwrite(p, d, idx, t))
PROOF
  <1> DEFINE o == Overwrite(p, d, idx, t)
             b == CopyFrom(p.data[d], idx, t[d])
  <1>1. /\ p.data \in [Direction -> Buffer] /\ p.authed \in [Direction -> SUBSET Position]
        /\ p = [data |-> p.data, authed |-> p.authed]
    BY DEF WellFormed, Partial
  <1>2. o = [data |-> [p.data EXCEPT ![d] = b],
             authed |-> [p.authed EXCEPT ![d] = p.authed[d] \cup idx]]
    BY <1>1 DEF Overwrite
  <1>3. t[d] \in Buffer /\ \A i \in DOMAIN t[d] : t[d][i] \in Byte
    BY TranscriptType
  <1>4. b \in Buffer /\ DOMAIN b = DOMAIN p.data[d]
    BY <1>1, <1>3, CopyFromType
  <1>5. /\ \A i \in idx : i \in DOMAIN t[d] /\ i \in DOMAIN p.data[d] /\ b[i] = t[d][i]
        /\ \A i \in DOMAIN p.data[d] \ idx : b[i] = p.data[d][i]
    BY DEF CopyFrom, InBounds
  <1>6. idx \in SUBSET Position
    BY <1>3, BufferLength
  <1> HIDE DEF b
  <1>7. WellFormed(o)
    BY <1>1, <1>2, <1>4, <1>5, <1>6 DEF WellFormed, Partial
  <1>8. ASSUME NEW S, Sound(p, S)
        PROVE  Sound(o, S \cup {t})
    <2>1. SUFFICES ASSUME NEW e \in Direction, NEW i \in o.authed[e]
                   PROVE  ByteOfSome(S \cup {t}, e, i, o.data[e][i])
      BY DEF Sound
    <2>2. CASE e = d /\ i \in idx
      BY <1>1, <1>2, <1>5, <2>2 DEF ByteOfSome
    <2>3. CASE ~ (e = d /\ i \in idx)
      <3>1. i \in p.authed[e] /\ o.data[e][i] = p.data[e][i]
        BY <1>1, <1>2, <1>5, <2>3 DEF WellFormed
      <3> QED
        BY <1>8, <3>1 DEF Sound, ByteOfSome
    <2> QED
      BY <2>2, <2>3
  <1>9. Clean(p) => Clean(o)
    BY <1>1, <1>2, <1>4, <1>5 DEF Clean, Unauthed
  <1> QED
    BY <1>7, <1>8, <1>9

(* union_subsequence that panics half way: bytes of the transcript, no      *)
(* change of the index.                                                     *)
LEMMA OverwriteHalfwayCorrect ==
    ASSUME NEW p, WellFormed(p), NEW d \in Direction, NEW t \in Transcripts,
           NEW idx \in SUBSET DOMAIN t[d]
    PROVE  /\ WellFormed(OverwriteHalfway(p, d, idx, t))
           /\ \A S : Sound(p, S) => Sound(OverwriteHalfway(p, d, idx, t), S \cup {t})
PROOF
  <1> DEFINE o == OverwriteHalfway(p, d, idx, t)
             done == Completed(idx, Length(p.data[d]))
             b == CopyFrom(p.data[d], done, t[d])
  <1>1. /\ p.data \in [Direction -> Buffer] /\ p.authed \in [Direction -> SUBSET Position]
        /\ p = [data |-> p.data, authed |-> p.authed]
    BY DEF WellFormed, Partial
  <1>2. o = [data |-> [p.data EXCEPT ![d] = b], authed |-> p.authed]
    BY <1>1 DEF OverwriteHalfway
  <1>3. t[d] \in Buffer /\ \A i \in DOMAIN t[d] : t[d][i] \in Byte
    BY TranscriptType
  <1>4. done \subseteq DOMAIN t[d]
    BY DEF Completed
  <1>5. b \in Buffer /\ DOMAIN b = DOMAIN p.data[d]
    BY <1>1, <1>3, <1>4, CopyFromType
  <1>6. \A i \in DOMAIN p.data[d] : b[i] = IF i \in done THEN t[d][i] ELSE p.data[d][i]
    BY DEF CopyFrom
  <1> HIDE DEF b, done
  <1>7. WellFormed(o)
    BY <1>1, <1>2, <1>5 DEF WellFormed, Partial
  <1>8. ASSUME NEW S, Sound(p, S)
        PROVE  Sound(o, S \cup {t})
    <2>s. o.authed = p.authed
      BY <1>2
    <2>1. SUFFICES ASSUME NEW e \in Direction, NEW i \in p.authed[e]
                   PROVE  ByteOfSome(S \cup {t}, e, i, o.data[e][i])
      BY <2>s, Zenon DEF Sound
    <2>2. i \in DOMAIN p.data[e]
      BY DEF WellFormed
    <2>3. CASE e = d /\ i \in done
      BY <1>1, <1>2, <1>4, <1>6, <2>2, <2>3 DEF ByteOfSome
    <2>4. CASE ~ (e = d /\ i \in done)
      <3>1. o.data[e][i] = p.data[e][i]
        BY <1>1, <1>2, <1>6, <2>2, <2>4
      <3> QED
        BY <1>8, <3>1 DEF Sound, ByteOfSome
    <2> QED
      BY <2>3, <2>4
  <1> QED
    BY <1>7, <1>8

(* set_unauthed touches nothing authenticated and leaves nothing else.      *)
LEMMA SetUnauthedCorrect ==
    ASSUME NEW p, WellFormed(p), NEW value \in Filler
    PROVE  /\ WellFormed(SetUnauthed(p, value))
           /\ \A S : Sound(p, S) => Sound(SetUnauthed(p, value), S)
           /\ Clean(SetUnauthed(p, value))
PROOF
  <1> DEFINE o == SetUnauthed(p, value)
             b(d) == Fill(p.data[d], Unauthed(p, d), value)
  <1>1. /\ p.data \in [Direction -> Buffer] /\ p.authed \in [Direction -> SUBSET Position]
        /\ p = [data |-> p.data, authed |-> p.authed]
    BY DEF WellFormed, Partial
  <1>2. o = [data |-> [d \in Direction |-> b(d)], authed |-> p.authed]
    BY <1>1 DEF SetUnauthed
  <1>3. ASSUME NEW d \in Direction
        PROVE  /\ b(d) \in Buffer /\ DOMAIN b(d) = DOMAIN p.data[d]
               /\ p.authed[d] \subseteq DOMAIN p.data[d]
               /\ \A i \in p.authed[d] : b(d)[i] = p.data[d][i]
               /\ \A i \in DOMAIN p.data[d] \ p.authed[d] : b(d)[i] = value
    <2>1. b(d) \in Buffer /\ DOMAIN b(d) = DOMAIN p.data[d]
      BY <1>1, ByteAssumption, FillType
    <2> QED
      BY <2>1 DEF Fill, Unauthed, WellFormed
  <1> HIDE DEF b
  <1>4. WellFormed(o)
    BY <1>1, <1>2, <1>3 DEF WellFormed, Partial
  <1>5. \A S : Sound(p, S) => Sound(o, S)
    BY <1>2, <1>3 DEF Sound
  <1>6. Clean(o)
    BY <1>2, <1>3 DEF Clean, Unauthed
  <1> QED
    BY <1>4, <1>5, <1>6

(* set_unauthed_range, complete or stopped by a panic.                      *)
LEMMA SetUnauthedInCorrect ==
    ASSUME NEW p, WellFormed(p), NEW d \in Direction, NEW range, NEW value \in Filler
    PROVE  /\ WellFormed(SetUnauthedIn(p, d, range, value))
           /\ \A S : Sound(p, S) => Sound(SetUnauthedIn(p, d, range, value), S)
           /\ Clean(p) => Clean(SetUnauthedIn(p, d, range, value))
PROOF
  <1> DEFINE o == SetUnauthedIn(p, d, range, value)
             done == Completed(range \ p.authed[d], Length(p.data[d]))
             b == Fill(p.data[d], done, value)
  <1>1. /\ p.data \in [Direction -> Buffer] /\ p.authed \in [Direction -> SUBSET Position]
        /\ p = [data |-> p.data, authed |-> p.authed]
    BY DEF WellFormed, Partial
  <1>2. o = [data |-> [p.data EXCEPT ![d] = b], authed |-> p.authed]
    BY <1>1 DEF SetUnauthedIn
  <1>3. done \cap p.authed[d] = {}
    BY DEF Completed
  <1>4. b \in Buffer /\ DOMAIN b = DOMAIN p.data[d]
    BY <1>1, ByteAssumption, FillType
  <1>5. \A i \in DOMAIN p.data[d] : b[i] = IF i \in done THEN value ELSE p.data[d][i]
    BY DEF Fill
  <1> HIDE DEF b, done
  <1>6. WellFormed(o)
    BY <1>1, <1>2, <1>4 DEF WellFormed, Partial
  <1>7. ASSUME NEW e \in Direction, NEW i \in p.authed[e]
        PROVE  o.data[e][i] = p.data[e][i]
    BY <1>1, <1>2, <1>3, <1>5 DEF WellFormed
  <1>8. \A S : Sound(p, S) => Sound(o, S)
    BY <1>2, <1>7 DEF Sound
  <1>9. Clean(p) => Clean(o)
    BY <1>1, <1>2, <1>4, <1>5 DEF Clean, Unauthed
  <1> QED
    BY <1>6, <1>8, <1>9

-------------------------------------------------------------------------------
(* The wire. *)

(* What WireSound says of one message. *)
SoundMessage(c, S) ==
    \A d \in Direction : \A i \in c.idx[d] :
        ByteOfSome(S, d, i, ByteAt(c.bytes[d], c.idx[d], i))

(* Compression yields a message its own receiver accepts, with the same     *)
(* bytes at the same positions.                                             *)
LEMMA CompressCorrect ==
    ASSUME NEW p, WellFormed(p)
    PROVE  /\ Compress(p) \in Compressed
           /\ Valid(Compress(p))
           /\ \A S : Sound(p, S) => SoundMessage(Compress(p), S)
PROOF
  <1> DEFINE c == Compress(p)
             b(d) == IndexRanges(p.data[d], p.authed[d])
             n(d) == Length(p.data[d])
  <1>1. c = [bytes |-> [d \in Direction |-> b(d)], idx |-> p.authed,
             total |-> [d \in Direction |-> n(d)]]
    BY DEF Compress
  <1>2. p.authed \in [Direction -> SUBSET Position]
    BY DEF WellFormed, Partial
  <1>3. ASSUME NEW d \in Direction
        PROVE  /\ b(d) \in Seq(Byte) /\ Len(b(d)) = Cardinality(p.authed[d])
               /\ n(d) \in 0 .. MaxLength
               /\ p.authed[d] \subseteq 0 .. n(d) - 1
               /\ \A i \in p.authed[d] : ByteAt(b(d), p.authed[d], i) = p.data[d][i]
    <2>1. /\ p.data[d] \in Buffer /\ p.authed[d] \in SUBSET Position
          /\ \A i \in DOMAIN p.data[d] : p.data[d][i] \in Byte
      BY DataType
    <2>2. p.authed[d] \subseteq DOMAIN p.data[d]
      BY DEF WellFormed
    <2>3. IsFiniteSet(p.authed[d]) /\ p.authed[d] \subseteq Nat
      BY <2>1, IndexFinite
    <2>4. \A i \in p.authed[d] : p.data[d][i] \in Byte
      BY <2>1, <2>2
    <2>5. b(d) \in Seq(Byte) /\ Len(b(d)) = Cardinality(p.authed[d])
      BY <2>3, <2>4, IndexRangesType
    <2>6. \A i \in p.authed[d] : ByteAt(b(d), p.authed[d], i) = p.data[d][i]
      BY <2>3, ByteAtIndexRanges
    <2>7. n(d) \in 0 .. MaxLength /\ DOMAIN p.data[d] = 0 .. n(d) - 1
      BY <2>1, BufferLength
    <2> QED
      BY <2>2, <2>5, <2>6, <2>7
  <1> HIDE DEF b, n
  <1>4. c \in Compressed
    BY <1>1, <1>2, <1>3 DEF Compressed
  <1>5. Valid(c)
    BY <1>1, <1>3 DEF Valid
  <1>6. \A S : Sound(p, S) => SoundMessage(c, S)
    BY <1>1, <1>3 DEF Sound, SoundMessage
  <1> QED
    BY <1>4, <1>5, <1>6

(* Validation: of all the damage to its lengths, a message that is accepted *)
(* can only have suffered another total.                                    *)
LEMMA DamagedIsWhole ==
    ASSUME NEW w \in Compressed, Valid(w), NEW c \in Damaged(w), Valid(c)
    PROVE  c \in Compressed /\ c.bytes = w.bytes /\ c.idx = w.idx
PROOF
  <1>1. CASE c = w
    BY <1>1
  <1>2. CASE \E d \in Direction : \E n \in 0 .. MaxLength : c = [w EXCEPT !.total[d] = n]
    BY <1>2 DEF Compressed
  <1>3. CASE \E d \in Direction : c = [w EXCEPT !.bytes[d] = Append(@, 0)]
    <2>1. PICK d \in Direction : c = [w EXCEPT !.bytes[d] = Append(@, 0)]
      BY <1>3
    <2>2. w.bytes \in [Direction -> Seq(Byte)]
      BY DEF Compressed
    <2>3. c.idx = w.idx /\ c.bytes[d] = Append(w.bytes[d], 0)
      BY <2>1, <2>2 DEF Compressed
    <2>4. Len(c.bytes[d]) = Len(w.bytes[d]) + 1 /\ Len(w.bytes[d]) \in Nat
      BY <2>2, <2>3, ByteAssumption
    <2>5. Len(c.bytes[d]) = Len(w.bytes[d])
      BY <2>3 DEF Valid
    <2> QED
      BY <2>4, <2>5
  <1>4. CASE \E d \in Direction : \E n \in {Len(w.bytes[d]) - 1} \cap Nat :
                c = [w EXCEPT !.bytes[d] = SubSeq(@, 1, n)]
    <2>1. PICK d \in Direction : \E n \in {Len(w.bytes[d]) - 1} \cap Nat :
                c = [w EXCEPT !.bytes[d] = SubSeq(@, 1, n)]
      BY <1>4
    <2>2. PICK n \in Nat : n = Len(w.bytes[d]) - 1 /\ c = [w EXCEPT !.bytes[d] = SubSeq(@, 1, n)]
      BY <2>1
    <2>3. w.bytes \in [Direction -> Seq(Byte)]
      BY DEF Compressed
    <2>4. c.idx = w.idx /\ c.bytes[d] = SubSeq(w.bytes[d], 1, n)
      BY <2>2, <2>3 DEF Compressed
    <2>5. Len(w.bytes[d]) \in Nat /\ w.bytes[d] \in Seq(Byte)
      BY <2>3
    <2>6. Len(SubSeq(w.bytes[d], 1, n)) = n
      BY <2>2, <2>5
    <2>7. Len(c.bytes[d]) = Len(w.bytes[d])
      BY <2>4 DEF Valid
    <2> QED
      BY <2>2, <2>4, <2>5, <2>6, <2>7
  <1> QED
    BY <1>1, <1>2, <1>3, <1>4 DEF Damaged

(* Decompression of an accepted message: the bytes that were sent where the *)
(* index says, zero elsewhere.                                              *)
LEMMA DecompressCorrect ==
    ASSUME NEW c \in Compressed, Valid(c)
    PROVE  /\ WellFormed(Decompress(c))
           /\ \A S : SoundMessage(c, S) => Sound(Decompress(c), S)
           /\ Clean(Decompress(c))
PROOF
  <1> DEFINE p == Decompress(c)
             byte(d, i) == ByteAt(c.bytes[d], c.idx[d], i)
             b(d) == [i \in 0 .. c.total[d] - 1 |-> IF i \in c.idx[d] THEN byte(d, i) ELSE 0]
  <1>1. p = [data |-> [d \in Direction |-> b(d)], authed |-> c.idx]
    BY DEF Decompress
  <1>2. /\ c.idx \in [Direction -> SUBSET Position]
        /\ c.bytes \in [Direction -> Seq(Byte)]
        /\ c.total \in [Direction -> 0 .. MaxLength]
    BY DEF Compressed
  <1>3. ASSUME NEW d \in Direction, NEW i \in c.idx[d]
        PROVE  byte(d, i) \in Byte
    <2>1. IsFiniteSet(c.idx[d]) /\ c.idx[d] \subseteq Nat
      BY <1>2, IndexFinite
    <2>2. Rank(c.idx[d], i) \in 1 .. Cardinality(c.idx[d])
      BY <2>1, RankBounds
    <2>3. c.bytes[d] \in Seq(Byte) /\ Len(c.bytes[d]) = Cardinality(c.idx[d])
      BY <1>2 DEF Valid
    <2> QED
      BY <2>2, <2>3 DEF ByteAt
  <1> HIDE DEF byte
  <1>4. ASSUME NEW d \in Direction
        PROVE  /\ b(d) \in Buffer /\ DOMAIN b(d) = 0 .. c.total[d] - 1
               /\ c.idx[d] \subseteq DOMAIN b(d)
               /\ \A i \in c.idx[d] : b(d)[i] = byte(d, i)
               /\ \A i \in DOMAIN b(d) \ c.idx[d] : b(d)[i] = 0
    <2>1. c.total[d] \in 0 .. MaxLength /\ c.idx[d] \subseteq 0 .. c.total[d] - 1
      BY <1>2 DEF Valid
    <2>2. b(d) \in [0 .. c.total[d] - 1 -> Byte]
      BY <1>3, ByteAssumption
    <2>3. b(d) \in Buffer
      BY <2>1, <2>2, IsBuffer
    <2> QED
      BY <2>1, <2>3
  <1> HIDE DEF b
  <1>5. WellFormed(p)
    BY <1>1, <1>2, <1>4 DEF WellFormed, Partial
  <1>6. \A S : SoundMessage(c, S) => Sound(p, S)
    BY <1>1, <1>4 DEF SoundMessage, Sound, byte
  <1>7. Clean(p)
    BY <1>1, <1>4 DEF Clean, Unauthed
  <1> QED
    BY <1>5, <1>6, <1>7

-------------------------------------------------------------------------------
(* The steps. *)

(* A call that assigns one slot and leaves the wire alone keeps the         *)
(* invariant if the partial transcript it assigns is right.                 *)
LEMMA AssignSlot ==
    ASSUME IInv, NEW s \in Slot, NEW p, NEW S \in SUBSET Transcripts,
           WellFormed(p), Sound(p, S), s \notin raw' => Clean(p),
           slots' = [slots EXCEPT ![s] = p],
           sources' = [sources EXCEPT ![s] = S],
           raw' \in SUBSET Slot, raw \subseteq raw' \cup {s},
           UNCHANGED <<wire, wireSources>>,
           calls' \in 0 .. MaxCalls
    PROVE  IInv'
PROOF
  <1>1. slots \in [Slot -> Partial \cup {None}] /\ sources \in [Slot -> SUBSET Transcripts]
    BY DEF IInv, TypeOK
  <1>2. p \in Partial /\ p # None
    BY NoneAssumption DEF WellFormed
  <1>3. /\ slots' \in [Slot -> Partial \cup {None}]
        /\ sources' \in [Slot -> SUBSET Transcripts]
        /\ slots'[s] = p /\ sources'[s] = S
        /\ \A r \in Slot \ {s} : slots'[r] = slots[r] /\ sources'[r] = sources[r]
    BY <1>1, <1>2
  <1>4. Held' = Held \cup {s}
    BY <1>2, <1>3 DEF Held
  <1>5. ASSUME NEW r \in Held'
        PROVE  /\ WellFormed(slots'[r])
               /\ Sound(slots'[r], sources'[r])
               /\ r \notin raw' => Clean(slots'[r])
    <2>1. CASE r = s
      BY <1>3, <2>1
    <2>2. CASE r # s
      <3>1. r \in Held /\ r \in Slot /\ slots'[r] = slots[r] /\ sources'[r] = sources[r]
        BY <1>3, <1>4, <2>2 DEF Held
      <3>2. WellFormed(slots[r])
        BY <3>1, HeldType DEF IInv
      <3>3. Sound(slots[r], sources[r])
        BY <3>1 DEF IInv, AuthedSound, Sound
      <3>4. r \notin raw' => Clean(slots[r])
        BY <2>2, <3>1 DEF IInv, NoLeak, Clean
      <3> QED
        BY <3>1, <3>2, <3>3, <3>4
    <2> QED
      BY <2>1, <2>2
  <1>6. TypeOK'
    BY <1>3, <1>5 DEF IInv, TypeOK, WellFormed, InBounds, Valid
  <1>7. AuthedSound'
    BY <1>5 DEF AuthedSound, Sound
  <1>8. WireSound'
    BY DEF IInv, WireSound
  <1>9. NoLeak'
    BY <1>5 DEF NoLeak, Clean
  <1> QED
    BY <1>6, <1>7, <1>8, <1>9 DEF IInv

(* Initially no slot holds anything. *)
LEMMA InitInvariant == Init => IInv
PROOF
  <1> SUFFICES ASSUME Init PROVE IInv
    OBVIOUS
  <1>1. Held = {}
    BY DEF Init, Held
  <1>2. TypeOK
    BY <1>1, LengthAssumption DEF Init, TypeOK
  <1> QED
    BY <1>1, <1>2 DEF Init, IInv, AuthedSound, WireSound, NoLeak

(* Every call keeps the invariant. *)
LEMMA StepInvariant ==
    IInv /\ [Next]_vars => IInv'
PROOF
  <1> SUFFICES ASSUME IInv, [Next]_vars
               PROVE  IInv'
    OBVIOUS
  <1> DEFINE Counted == calls' \in 0 .. MaxCalls
  <1>t. /\ slots \in [Slot -> Partial \cup {None}]
        /\ sources \in [Slot -> SUBSET Transcripts]
        /\ wireSources \in SUBSET Transcripts
        /\ raw \in SUBSET Slot
        /\ \A s \in Held : s \in Slot /\ WellFormed(slots[s]) /\ Sound(slots[s], sources[s])
        /\ \A s \in Held \ raw : Clean(slots[s])
    <2>1. \A s \in Held : s \in Slot /\ WellFormed(slots[s])
      BY HeldType DEF IInv
    <2>2. \A s \in Held : Sound(slots[s], sources[s])
      BY DEF IInv, AuthedSound, Sound
    <2>3. \A s \in Held \ raw : Clean(slots[s])
      BY DEF IInv, NoLeak, Clean
    <2> QED
      BY <2>1, <2>2, <2>3 DEF IInv, TypeOK
  <1>c. ASSUME Next PROVE Counted
    BY <1>c, LengthAssumption DEF Next, IInv, TypeOK
  <1>1. ASSUME NEW s \in Slot, NEW t \in Transcripts, CreatePartial(s, t), Counted PROVE IInv'
    <2>1. PICK idx \in [Direction -> SUBSET Position] :
            /\ \A d \in Direction : InBounds(idx[d], t[d])
            /\ slots' = [slots EXCEPT ![s] = ToPartial(t, idx)]
            /\ sources' = [sources EXCEPT ![s] = {t}]
            /\ raw' = raw \ {s}
            /\ UNCHANGED <<wire, wireSources>>
      BY <1>1 DEF CreatePartial
    <2>2. /\ WellFormed(ToPartial(t, idx))
          /\ Sound(ToPartial(t, idx), {t})
          /\ Clean(ToPartial(t, idx))
      BY <2>1, ToPartialCorrect
    <2>3. {t} \in SUBSET Transcripts /\ raw' \in SUBSET Slot /\ raw \subseteq raw' \cup {s}
      BY <1>t, <2>1
    <2> QED
      BY <1>1, <2>1, <2>2, <2>3, AssignSlot
  <1>2. ASSUME NEW s \in Slot, NEW t \in Transcripts, New(s, t), Counted PROVE IInv'
    <2>1. PICK idx \in [Direction -> SUBSET Position] :
            /\ \A d \in Direction : InBounds(idx[d], t[d])
            /\ slots' = [slots EXCEPT ![s] = NewPartial(t, idx)]
            /\ sources' = [sources EXCEPT ![s] = {t}]
            /\ raw' = raw \cup {s}
            /\ UNCHANGED <<wire, wireSources>>
      BY <1>2 DEF New
    <2>2. WellFormed(NewPartial(t, idx)) /\ Sound(NewPartial(t, idx), {t})
      BY <2>1, NewCorrect
    <2>3. /\ {t} \in SUBSET Transcripts /\ raw' \in SUBSET Slot
          /\ raw \subseteq raw' \cup {s} /\ s \in raw'
      BY <1>t, <2>1
    <2> QED
      BY <1>2, <2>1, <2>2, <2>3, AssignSlot
  <1>3. ASSUME NEW s \in Slot, NEW r \in Slot, UnionTranscript(s, r), Counted PROVE IInv'
    <2> DEFINE u == UnionOf(slots[s], slots[r])
               S == sources[s] \cup sources[r]
    <2>1. /\ s \in Held /\ r \in Held
          /\ SameLengths(slots[s], slots[r])
          /\ slots' = [slots EXCEPT ![s] = u]
          /\ sources' = [sources EXCEPT ![s] = S]
          /\ UNCHANGED <<wire, wireSources, raw>>
      BY <1>3 DEF UnionTranscript
    <2>2. /\ WellFormed(slots[s]) /\ Sound(slots[s], sources[s])
          /\ WellFormed(slots[r]) /\ Sound(slots[r], sources[r])
          /\ s \notin raw => Clean(slots[s])
      BY <1>t, <2>1
    <2>3. WellFormed(u) /\ Sound(u, S) /\ (s \notin raw' => Clean(u))
      BY <2>1, <2>2, UnionCorrect
    <2>4. S \in SUBSET Transcripts /\ raw' \in SUBSET Slot /\ raw \subseteq raw' \cup {s}
      BY <1>t, <2>1
    <2> HIDE DEF u, S
    <2> QED
      BY <1>3, <2>1, <2>3, <2>4, AssignSlot
  <1>4. ASSUME NEW s \in Slot, NEW t \in Transcripts, NEW d \in Direction,
               UnionSubsequence(s, t, d), Counted
        PROVE  IInv'
    <2>1. PICK idx \in SUBSET DOMAIN t[d] :
            /\ s \in Held
            /\ InBounds(idx, slots[s].data[d])
            /\ slots' = [slots EXCEPT ![s] = Overwrite(slots[s], d, idx, t)]
            /\ sources' = [sources EXCEPT ![s] = sources[s] \cup {t}]
            /\ UNCHANGED <<wire, wireSources, raw>>
      BY <1>4 DEF UnionSubsequence
    <2> DEFINE o == Overwrite(slots[s], d, idx, t)
               S == sources[s] \cup {t}
    <2>2. /\ WellFormed(slots[s]) /\ Sound(slots[s], sources[s])
          /\ s \notin raw => Clean(slots[s])
      BY <1>t, <2>1
    <2>3. WellFormed(o) /\ Sound(o, S) /\ (s \notin raw' => Clean(o))
      BY <2>1, <2>2, OverwriteCorrect
    <2>4. S \in SUBSET Transcripts /\ raw' \in SUBSET Slot /\ raw \subseteq raw' \cup {s}
      BY <1>t, <2>1
    <2>5. slots' = [slots EXCEPT ![s] = o] /\ sources' = [sources EXCEPT ![s] = S]
      BY <2>1
    <2> HIDE DEF o, S
    <2> QED
      BY <1>4, <2>1, <2>3, <2>4, <2>5, AssignSlot
  <1>5. ASSUME NEW s \in Slot, NEW t \in Transcripts, NEW d \in Direction,
               UnionSubsequencePanics(s, t, d), Counted
        PROVE  IInv'
    <2>1. PICK idx \in SUBSET DOMAIN t[d] :
            /\ s \in Held
            /\ slots' = [slots EXCEPT ![s] = OverwriteHalfway(slots[s], d, idx, t)]
            /\ sources' = [sources EXCEPT ![s] = sources[s] \cup {t}]
            /\ raw' = raw \cup {s}
            /\ UNCHANGED <<wire, wireSources>>
      BY <1>5 DEF UnionSubsequencePanics
    <2> DEFINE o == OverwriteHalfway(slots[s], d, idx, t)
               S == sources[s] \cup {t}
    <2>2. WellFormed(slots[s]) /\ Sound(slots[s], sources[s])
      BY <1>t, <2>1
    <2>3. WellFormed(o) /\ Sound(o, S)
      BY <2>1, <2>2, OverwriteHalfwayCorrect
    <2>4. S \in SUBSET Transcripts /\ raw' \in SUBSET Slot /\ raw \subseteq raw' \cup {s} /\ s \in raw'
      BY <1>t, <2>1
    <2>5. slots' = [slots EXCEPT ![s] = o] /\ sources' = [sources EXCEPT ![s] = S]
      BY <2>1
    <2> HIDE DEF o, S
    <2> QED
      BY <1>5, <2>1, <2>3, <2>4, <2>5, AssignSlot
  <1>6. ASSUME NEW s \in Slot, NEW value \in Filler, SetAllUnauthed(s, value), Counted
        PROVE  IInv'
    <2> DEFINE o == SetUnauthed(slots[s], value)
    <2>1. /\ s \in Held
          /\ slots' = [slots EXCEPT ![s] = o]
          /\ raw' = raw \ {s}
          /\ UNCHANGED <<wire, sources, wireSources>>
      BY <1>6 DEF SetAllUnauthed
    <2>2. WellFormed(slots[s]) /\ Sound(slots[s], sources[s])
      BY <1>t, <2>1
    <2>3. WellFormed(o) /\ Sound(o, sources[s]) /\ Clean(o)
      BY <2>2, SetUnauthedCorrect
    <2>4. /\ sources[s] \in SUBSET Transcripts /\ raw' \in SUBSET Slot
          /\ raw \subseteq raw' \cup {s}
          /\ sources' = [sources EXCEPT ![s] = sources[s]]
      BY <1>t, <2>1
    <2> HIDE DEF o
    <2> QED
      BY <1>6, <2>1, <2>3, <2>4, AssignSlot
  <1>7. ASSUME NEW s \in Slot, NEW d \in Direction, NEW value \in Filler,
               SetUnauthedRange(s, d, value), Counted
        PROVE  IInv'
    <2>1. PICK first \in Position : \E last \in first .. MaxLength :
            /\ s \in Held
            /\ slots' = [slots EXCEPT ![s] = SetUnauthedIn(slots[s], d, first .. last - 1, value)]
            /\ UNCHANGED <<wire, sources, wireSources, raw>>
      BY <1>7 DEF SetUnauthedRange
    <2>2. PICK last \in first .. MaxLength :
            /\ s \in Held
            /\ slots' = [slots EXCEPT ![s] = SetUnauthedIn(slots[s], d, first .. last - 1, value)]
            /\ UNCHANGED <<wire, sources, wireSources, raw>>
      BY <2>1
    <2> DEFINE o == SetUnauthedIn(slots[s], d, first .. last - 1, value)
    <2>3. /\ WellFormed(slots[s]) /\ Sound(slots[s], sources[s])
          /\ s \notin raw => Clean(slots[s])
      BY <1>t, <2>2
    <2>4. WellFormed(o) /\ Sound(o, sources[s]) /\ (s \notin raw' => Clean(o))
      BY <2>2, <2>3, SetUnauthedInCorrect
    <2>5. /\ sources[s] \in SUBSET Transcripts /\ raw' \in SUBSET Slot
          /\ raw \subseteq raw' \cup {s}
          /\ sources' = [sources EXCEPT ![s] = sources[s]]
      BY <1>t, <2>2
    <2>6. slots' = [slots EXCEPT ![s] = o]
      BY <2>2
    <2> HIDE DEF o
    <2> QED
      BY <1>7, <2>2, <2>4, <2>5, <2>6, AssignSlot
  <1>8. ASSUME NEW s \in Slot, Serialize(s), Counted PROVE IInv'
    <2> DEFINE c == Compress(slots[s])
    <2>1. /\ s \in Held /\ wire' = c /\ wireSources' = sources[s]
          /\ UNCHANGED <<slots, sources, raw>>
      BY <1>8 DEF Serialize
    <2>2. WellFormed(slots[s]) /\ Sound(slots[s], sources[s]) /\ sources[s] \subseteq Transcripts
      BY <1>t, <2>1
    <2>3. c \in Compressed /\ Valid(c) /\ SoundMessage(c, sources[s])
      BY <2>2, CompressCorrect
    <2> HIDE DEF c
    <2>4. Held' = Held
      BY <2>1 DEF Held
    <2>5. Valid(wire)'
      BY <2>1, <2>3 DEF Valid
    <2>6. TypeOK'
      BY <1>8, <2>1, <2>2, <2>3, <2>4, <2>5 DEF IInv, TypeOK, InBounds
    <2>7. WireSound'
      BY <2>1, <2>3 DEF WireSound, SoundMessage, ByteOfSome
    <2>8. AuthedSound' /\ NoLeak'
      BY <2>1, <2>4 DEF IInv, AuthedSound, NoLeak, ByteOfSome, Unauthed
    <2> QED
      BY <2>6, <2>7, <2>8 DEF IInv
  <1>9. ASSUME NEW s \in Slot, Deserialize(s), Counted PROVE IInv'
    <2>1. PICK c \in Damaged(wire) :
            /\ wire # None
            /\ Valid(c)
            /\ slots' = [slots EXCEPT ![s] = Decompress(c)]
            /\ sources' = [sources EXCEPT ![s] = wireSources]
            /\ raw' = raw \ {s}
            /\ UNCHANGED <<wire, wireSources>>
      BY <1>9 DEF Deserialize
    <2>2. wire \in Compressed /\ Valid(wire) /\ SoundMessage(wire, wireSources)
      BY <2>1 DEF IInv, TypeOK, WireSound, SoundMessage
    <2>3. c \in Compressed /\ c.bytes = wire.bytes /\ c.idx = wire.idx
      BY <2>1, <2>2, DamagedIsWhole
    <2>4. SoundMessage(c, wireSources)
      BY <2>2, <2>3 DEF SoundMessage
    <2> DEFINE p == Decompress(c)
    <2>5. WellFormed(p) /\ Sound(p, wireSources) /\ Clean(p)
      BY <2>1, <2>3, <2>4, DecompressCorrect
    <2>6. raw' \in SUBSET Slot /\ raw \subseteq raw' \cup {s}
      BY <1>t, <2>1
    <2>7. slots' = [slots EXCEPT ![s] = p]
      BY <2>1
    <2> HIDE DEF p
    <2> QED
      BY <1>t, <1>9, <2>1, <2>5, <2>6, <2>7, AssignSlot
  <1>10. CASE UNCHANGED vars
    BY <1>10 DEF vars, IInv, TypeOK, AuthedSound, WireSound, NoLeak, Held, InBounds, Valid,
                 ByteOfSome, Unauthed
  <1>11. CASE Next
    BY <1>c, <1>1, <1>2, <1>3, <1>4, <1>5, <1>6, <1>7, <1>8, <1>9, <1>11 DEF Next, Call
  <1> QED
    BY <1>10, <1>11

-------------------------------------------------------------------------------
(* The theorems. *)

(* The inductive invariant holds in every reachable state. *)
THEOREM Invariance == Spec => []IInv
PROOF
  <1>1. Init => IInv
    BY InitInvariant
  <1>2. IInv /\ [Next]_vars => IInv'
    BY StepInvariant
  <1> QED
    BY <1>1, <1>2, PTL DEF Spec

(* Shapes are kept, and no authenticated index ever leaves its buffer: none *)
(* of iter, index_ranges or union_transcript can panic on an index.         *)
THEOREM TypeCorrect == Spec => []TypeOK
PROOF
  <1>1. IInv => TypeOK
    BY DEF IInv
  <1> QED
    BY <1>1, Invariance, PTL

(* Authenticated bytes are bytes of the transcripts they came from, at      *)
(* their positions, after any sequence of merges, deliveries and panics.    *)
THEOREM AuthedIsTranscript == Spec => []AuthedSound
PROOF
  <1>1. IInv => AuthedSound
    BY DEF IInv
  <1> QED
    BY <1>1, Invariance, PTL

(* Nothing but zeroes and filler shows outside the index of a slot that was *)
(* not filled by new or by a call that panicked.                            *)
THEOREM UnauthedIsBlank == Spec => []NoLeak
PROOF
  <1>1. IInv => NoLeak
    BY DEF IInv
  <1> QED
    BY <1>1, Invariance, PTL

(* is_complete, a comparison of lengths, means that every byte is the       *)
(* transcript's: an index within bounds with as many positions as the       *)
(* buffer has is the whole buffer.                                          *)
THEOREM CompleteMeansTranscript == Spec => []CompleteIsTranscript
PROOF
  <1>1. IInv => CompleteIsTranscript
    <2> SUFFICES ASSUME IInv, NEW s \in Held, NEW t \in Transcripts,
                        sources[s] = {t}, IsComplete(slots[s]),
                        NEW d \in Direction, NEW i \in DOMAIN slots[s].data[d]
                 PROVE  i \in DOMAIN t[d] /\ slots[s].data[d][i] = t[d][i]
      BY DEF CompleteIsTranscript
    <2>1. WellFormed(slots[s])
      BY HeldType DEF IInv
    <2>2. slots[s].data[d] \in Buffer /\ slots[s].authed[d] \subseteq DOMAIN slots[s].data[d]
      BY <2>1, DataType DEF WellFormed
    <2>3. IsFiniteSet(DOMAIN slots[s].data[d])
      BY <2>2, BufferLength, IndexFinite
    <2>4. Cardinality(slots[s].authed[d]) = Cardinality(DOMAIN slots[s].data[d])
      BY DEF IsComplete, Length
    <2>5. i \in slots[s].authed[d]
      BY <2>2, <2>3, <2>4, FS_Subset
    <2>6. ByteOfSome(sources[s], d, i, slots[s].data[d][i])
      BY <2>5 DEF IInv, AuthedSound
    <2> QED
      BY <2>6 DEF ByteOfSome
  <1> QED
    BY <1>1, Invariance, PTL

(* Partial transcripts of one transcript can be merged in either order.     *)
THEOREM MergeOrder == Spec => []MergeCommutes
PROOF
  <1>1. IInv => MergeCommutes
    <2> SUFFICES ASSUME IInv, NEW s \in Held, NEW r \in Held, NEW t \in Transcripts,
                        sources[s] = {t}, sources[r] = {t},
                        SameLengths(slots[s], slots[r])
                 PROVE  LET p == UnionOf(slots[s], slots[r])
                            q == UnionOf(slots[r], slots[s])
                        IN  /\ p.authed = q.authed
                            /\ \A d \in Direction : \A i \in p.authed[d] :
                                 p.data[d][i] = q.data[d][i]
      BY DEF MergeCommutes
    <2> DEFINE p == UnionOf(slots[s], slots[r])
               q == UnionOf(slots[r], slots[s])
    <2>1. /\ WellFormed(slots[s]) /\ Sound(slots[s], {t})
          /\ WellFormed(slots[r]) /\ Sound(slots[r], {t})
      BY HeldType DEF IInv, AuthedSound, Sound
    <2>2. SameLengths(slots[r], slots[s])
      BY DEF SameLengths
    <2>3. p.authed = q.authed
      BY DEF UnionOf
    <2>4. {t} \cup {t} = {t}
      OBVIOUS
    <2>5. Sound(p, {t}) /\ Sound(q, {t})
      BY <2>1, <2>2, <2>4, UnionCorrect
    <2> HIDE DEF p, q
    <2>6. ASSUME NEW d \in Direction, NEW i \in p.authed[d]
          PROVE  p.data[d][i] = q.data[d][i]
      BY <2>3, <2>5 DEF Sound, ByteOfSome
    <2> QED
      BY <2>3, <2>6 DEF p, q
  <1> QED
    BY <1>1, Invariance, PTL

-------------------------------------------------------------------------------
(* The refinement: what each operation does to the view of a slot. *)

(* The authenticated bytes of a held slot, as a map. *)
LEMMA ViewOfPartial ==
    ASSUME NEW p, p # None
    PROVE  View(p) = [d \in Direction |-> [i \in p.authed[d] |-> p.data[d][i]]]
  BY DEF View

(* The view of one direction. *)
LEMMA ViewAt ==
    ASSUME NEW p, p # None, NEW d \in Direction
    PROVE  /\ DOMAIN View(p)[d] = p.authed[d]
           /\ \A i \in p.authed[d] : View(p)[d][i] = p.data[d][i]
           /\ View(p)[d] = [i \in p.authed[d] |-> View(p)[d][i]]
PROOF
  <1>1. View(p)[d] = [i \in p.authed[d] |-> p.data[d][i]]
    BY ViewOfPartial
  <1> QED
    BY <1>1

(* Adding the map f to the authenticated bytes of p in one direction lays   *)
(* it over the view of that direction.                                      *)
LEMMA ViewOver ==
    ASSUME NEW p, p # None, NEW o, o # None, NEW d \in Direction, NEW f,
           o.authed[d] = DOMAIN f \cup p.authed[d],
           \A i \in DOMAIN f : o.data[d][i] = f[i],
           \A i \in p.authed[d] \ DOMAIN f : o.data[d][i] = p.data[d][i]
    PROVE  View(o)[d] = Abstract!Over(f, View(p)[d])
PROOF
  <1> DEFINE A == DOMAIN f
             B == p.authed[d]
             g == View(p)[d]
             h == View(o)[d]
  <1>1. DOMAIN g = B /\ \A i \in B : g[i] = p.data[d][i]
    BY ViewAt, ZenonT(40)
  <1>2. /\ h = [i \in o.authed[d] |-> h[i]]
        /\ \A i \in o.authed[d] : h[i] = o.data[d][i]
    BY ViewAt, ZenonT(40)
  <1> HIDE DEF g, h
  <1>3. h = [i \in A \cup B |-> h[i]]
    BY <1>2
  <1>4. \A i \in A \cup B : h[i] = IF i \in A THEN f[i] ELSE g[i]
    BY <1>1, <1>2
  <1>5. Abstract!Over(f, g) = [i \in A \cup B |-> IF i \in A THEN f[i] ELSE g[i]]
    BY <1>1 DEF Abstract!Over
  <1>6. h = Abstract!Over(f, g)
    BY <1>3, <1>4, <1>5
  <1> QED
    BY <1>6 DEF g, h

(* A well formed partial transcript is not the empty slot. *)
LEMMA WellFormedSome ==
    ASSUME NEW p, WellFormed(p)
    PROVE  p # None
  BY NoneAssumption DEF WellFormed

(* to_partial and new show the part of the transcript the index names. *)
LEMMA ViewOfCreated ==
    ASSUME NEW t \in Transcripts, NEW idx \in [Direction -> SUBSET Position],
           \A d \in Direction : InBounds(idx[d], t[d])
    PROVE  /\ View(ToPartial(t, idx)) = Abstract!Part(t, idx)
           /\ View(NewPartial(t, idx)) = Abstract!Part(t, idx)
PROOF
  <1>1. /\ WellFormed(ToPartial(t, idx)) /\ Sound(ToPartial(t, idx), {t})
        /\ WellFormed(NewPartial(t, idx)) /\ Sound(NewPartial(t, idx), {t})
    BY ToPartialCorrect, NewCorrect
  <1>2. ASSUME NEW p, WellFormed(p), Sound(p, {t}), p.authed = idx
        PROVE  View(p) = Abstract!Part(t, idx)
    <2>1. \A d \in Direction : \A i \in idx[d] : p.data[d][i] = t[d][i]
      BY <1>2 DEF Sound, ByteOfSome
    <2> QED
      BY <1>2, <2>1, WellFormedSome, ViewOfPartial DEF Abstract!Part, Abstract!Restriction
  <1>3. ToPartial(t, idx).authed = idx /\ NewPartial(t, idx).authed = idx
    BY DEF ToPartial, NewPartial
  <1> QED
    BY <1>1, <1>2, <1>3

(* union_transcript lays the left map over the right one. *)
LEMMA ViewOfUnion ==
    ASSUME NEW p, NEW q, WellFormed(p), WellFormed(q), SameLengths(p, q)
    PROVE  View(UnionOf(p, q)) = [d \in Direction |-> Abstract!Over(View(p)[d], View(q)[d])]
PROOF
  <1> DEFINE u == UnionOf(p, q)
  <1>1. WellFormed(u)
    BY UnionCorrect
  <1>2. p # None /\ q # None /\ u # None
    BY <1>1, WellFormedSome
  <1>3. ASSUME NEW d \in Direction
        PROVE  /\ u.authed[d] = p.authed[d] \cup q.authed[d]
               /\ \A i \in p.authed[d] : u.data[d][i] = p.data[d][i]
               /\ \A i \in q.authed[d] \ p.authed[d] : u.data[d][i] = q.data[d][i]
    <2>1. p.data[d] \in Buffer /\ q.data[d] \in Buffer
      BY DataType
    <2>2. DOMAIN q.data[d] = DOMAIN p.data[d]
      BY <2>1, BufferLength DEF SameLengths
    <2>3. p.authed[d] \subseteq DOMAIN p.data[d] /\ q.authed[d] \subseteq DOMAIN p.data[d]
      BY <2>2 DEF WellFormed
    <2>4. u.data[d] = CopyFrom(p.data[d], q.authed[d] \ p.authed[d], q.data[d])
      BY DEF UnionOf
    <2> QED
      BY <2>3, <2>4 DEF UnionOf, CopyFrom
  <1> HIDE DEF u
  <1>4. ASSUME NEW d \in Direction
        PROVE  View(u)[d] = Abstract!Over(View(p)[d], View(q)[d])
    <2> DEFINE f == View(p)[d]
    <2>1. p # None
      BY <1>2
    <2>2. q # None
      BY <1>2
    <2>3. u # None
      BY <1>2
    <2>4. f = [i \in p.authed[d] |-> p.data[d][i]]
      BY <2>1, ViewOfPartial
    <2> HIDE DEF f
    <2>5. DOMAIN f = p.authed[d] /\ \A i \in p.authed[d] : f[i] = p.data[d][i]
      BY <2>4
    <2>6. u.authed[d] = DOMAIN f \cup q.authed[d]
      BY <1>3, <2>5
    <2>7. \A i \in DOMAIN f : u.data[d][i] = f[i]
      BY <1>3, <2>5
    <2>8. \A i \in q.authed[d] \ DOMAIN f : u.data[d][i] = q.data[d][i]
      BY <1>3, <2>5
    <2>9. View(u)[d] = Abstract!Over(f, View(q)[d])
      BY <2>2, <2>3, <2>6, <2>7, <2>8, ViewOver
    <2> QED
      BY <2>9 DEF f
  <1>5. View(u) = [d \in Direction |-> View(u)[d]]
    BY <1>2, ViewOfPartial
  <1> QED
    BY <1>4, <1>5 DEF u

(* union_subsequence lays the subsequence over the map of its direction. *)
LEMMA ViewOfOverwrite ==
    ASSUME NEW p, WellFormed(p), NEW d \in Direction, NEW t \in Transcripts,
           NEW idx \in SUBSET DOMAIN t[d], InBounds(idx, p.data[d])
    PROVE  View(Overwrite(p, d, idx, t)) =
             [View(p) EXCEPT ![d] = Abstract!Over(Abstract!Restriction(t[d], idx), View(p)[d])]
PROOF
  <1> DEFINE o == Overwrite(p, d, idx, t)
  <1>1. WellFormed(o)
    BY OverwriteCorrect
  <1>2. p # None /\ o # None
    BY <1>1, WellFormedSome
  <1>3. /\ p.data \in [Direction -> Buffer] /\ p.authed \in [Direction -> SUBSET Position]
    BY DEF WellFormed, Partial
  <1>4. /\ o.data = [p.data EXCEPT ![d] = CopyFrom(p.data[d], idx, t[d])]
        /\ o.authed = [p.authed EXCEPT ![d] = p.authed[d] \cup idx]
    BY DEF Overwrite
  <1>5. /\ o.authed[d] = p.authed[d] \cup idx
        /\ \A i \in idx : o.data[d][i] = t[d][i]
        /\ \A i \in p.authed[d] \ idx : o.data[d][i] = p.data[d][i]
        /\ \A e \in Direction \ {d} : o.authed[e] = p.authed[e] /\ o.data[e] = p.data[e]
    BY <1>3, <1>4 DEF CopyFrom, InBounds, WellFormed
  <1> HIDE DEF o
  <1>6. View(o)[d] = Abstract!Over(Abstract!Restriction(t[d], idx), View(p)[d])
    <2> DEFINE f == Abstract!Restriction(t[d], idx)
    <2>1. DOMAIN f = idx /\ \A i \in idx : f[i] = t[d][i]
      BY DEF Abstract!Restriction
    <2> HIDE DEF f
    <2>2. o.authed[d] = DOMAIN f \cup p.authed[d]
      BY <1>5, <2>1
    <2>3. \A i \in DOMAIN f : o.data[d][i] = f[i]
      BY <1>5, <2>1
    <2>4. \A i \in p.authed[d] \ DOMAIN f : o.data[d][i] = p.data[d][i]
      BY <1>5, <2>1
    <2>5. View(o)[d] = Abstract!Over(f, View(p)[d])
      BY <1>2, <2>2, <2>3, <2>4, ViewOver, SMTT(30)
    <2> QED
      BY <2>5 DEF f
  <1>7. ASSUME NEW e \in Direction \ {d}
        PROVE  View(o)[e] = View(p)[e]
    BY <1>2, <1>5, ViewOfPartial
  <1>8. /\ View(o) = [e \in Direction |-> View(o)[e]]
        /\ View(p) = [e \in Direction |-> View(p)[e]]
    BY <1>2, ViewOfPartial
  <1> QED
    BY <1>6, <1>7, <1>8 DEF o

(* Some of the positions A of direction d were replaced by those of t. *)
Relearnt(before, A, after, d, t) ==
    \E S \in SUBSET (A \cap DOMAIN t[d]) :
        after = [before EXCEPT ![d] = Abstract!Over(Abstract!Restriction(t[d], S), before[d])]

(* Half way, union_subsequence replaces known bytes only. *)
LEMMA ViewOfOverwriteHalfway ==
    ASSUME NEW p, WellFormed(p), NEW d \in Direction, NEW t \in Transcripts,
           NEW idx \in SUBSET DOMAIN t[d]
    PROVE  Relearnt(View(p), p.authed[d], View(OverwriteHalfway(p, d, idx, t)), d, t)
PROOF
  <1> DEFINE o == OverwriteHalfway(p, d, idx, t)
             done == Completed(idx, Length(p.data[d]))
             S == done \cap p.authed[d]
  <1>0. S \in SUBSET (p.authed[d] \cap DOMAIN t[d])
    BY DEF Completed
  <1>1. WellFormed(o)
    BY OverwriteHalfwayCorrect
  <1>2. p # None /\ o # None
    BY <1>1, WellFormedSome
  <1>3. /\ p.data \in [Direction -> Buffer] /\ p.authed \in [Direction -> SUBSET Position]
        /\ p = [data |-> p.data, authed |-> p.authed]
    BY DEF WellFormed, Partial
  <1>4. /\ o.data = [p.data EXCEPT ![d] = CopyFrom(p.data[d], done, t[d])]
        /\ o.authed = p.authed
    BY <1>3 DEF OverwriteHalfway
  <1> HIDE DEF done
  <1>5. /\ \A i \in S : o.data[d][i] = t[d][i]
        /\ \A i \in p.authed[d] \ S : o.data[d][i] = p.data[d][i]
        /\ \A e \in Direction \ {d} : o.data[e] = p.data[e]
    BY <1>3, <1>4 DEF CopyFrom, WellFormed
  <1> HIDE DEF o
  <1>6. View(o)[d] = Abstract!Over(Abstract!Restriction(t[d], S), View(p)[d])
    <2> DEFINE f == Abstract!Restriction(t[d], S)
    <2>1. DOMAIN f = S /\ \A i \in S : f[i] = t[d][i]
      BY DEF Abstract!Restriction
    <2> HIDE DEF f
    <2>2. o.authed[d] = DOMAIN f \cup p.authed[d]
      BY <1>4, <2>1
    <2>3. \A i \in DOMAIN f : o.data[d][i] = f[i]
      BY <1>5, <2>1
    <2>4. \A i \in p.authed[d] \ DOMAIN f : o.data[d][i] = p.data[d][i]
      BY <1>5, <2>1
    <2>5. View(o)[d] = Abstract!Over(f, View(p)[d])
      BY <1>2, <2>2, <2>3, <2>4, ViewOver, SMTT(30)
    <2> QED
      BY <2>5 DEF f
  <1>7. ASSUME NEW e \in Direction \ {d}
        PROVE  View(o)[e] = View(p)[e]
    <2>1. o.authed[e] = p.authed[e] /\ o.data[e] = p.data[e]
      BY <1>4, <1>5
    <2> QED
      BY <1>2, <2>1, ViewOfPartial
  <1>8. /\ View(o) = [e \in Direction |-> View(o)[e]]
        /\ View(p) = [e \in Direction |-> View(p)[e]]
    BY <1>2, ViewOfPartial
  <1> HIDE DEF S
  <1>9. View(o) = [View(p) EXCEPT
                     ![d] = Abstract!Over(Abstract!Restriction(t[d], S), View(p)[d])]
    BY <1>6, <1>7, <1>8
  <1>10. Relearnt(View(p), p.authed[d], View(o), d, t)
    BY <1>0, <1>9 DEF Relearnt
  <1> QED
    BY <1>10 DEF o

(* set_unauthed and set_unauthed_range show nothing new. *)
LEMMA ViewOfSetUnauthed ==
    ASSUME NEW p, WellFormed(p), NEW value \in Filler, NEW d \in Direction, NEW range
    PROVE  /\ View(SetUnauthed(p, value)) = View(p)
           /\ View(SetUnauthedIn(p, d, range, value)) = View(p)
PROOF
  <1>1. WellFormed(SetUnauthed(p, value)) /\ WellFormed(SetUnauthedIn(p, d, range, value))
    BY SetUnauthedCorrect, SetUnauthedInCorrect
  <1>2. /\ p.data \in [Direction -> Buffer] /\ p.authed \in [Direction -> SUBSET Position]
        /\ p = [data |-> p.data, authed |-> p.authed]
        /\ \A e \in Direction : p.authed[e] \subseteq DOMAIN p.data[e]
    BY DEF WellFormed, Partial
  <1>3. ASSUME NEW o, WellFormed(o), o.authed = p.authed,
               \A e \in Direction : \A i \in p.authed[e] : o.data[e][i] = p.data[e][i]
        PROVE  View(o) = View(p)
    <2>1. o # None
      BY <1>3, WellFormedSome
    <2>2. p # None
      BY WellFormedSome
    <2>3. View(o) = [e \in Direction |-> [i \in p.authed[e] |-> o.data[e][i]]]
      BY <1>3, <2>1, ViewOfPartial
    <2>4. View(p) = [e \in Direction |-> [i \in p.authed[e] |-> p.data[e][i]]]
      BY <2>2, ViewOfPartial
    <2> QED
      BY <1>3, <2>3, <2>4
  <1>4. View(SetUnauthed(p, value)) = View(p)
    <2> DEFINE o == SetUnauthed(p, value)
    <2>1. o.authed = p.authed
      BY <1>2 DEF SetUnauthed
    <2>2. \A e \in Direction : o.data[e] = Fill(p.data[e], Unauthed(p, e), value)
      BY <1>2 DEF SetUnauthed
    <2>3. \A e \in Direction : \A i \in p.authed[e] : o.data[e][i] = p.data[e][i]
      BY <1>2, <2>2 DEF Fill, Unauthed
    <2> QED
      BY <1>1, <1>3, <2>1, <2>3
  <1>5. View(SetUnauthedIn(p, d, range, value)) = View(p)
    <2> DEFINE o == SetUnauthedIn(p, d, range, value)
               done == Completed(range \ p.authed[d], Length(p.data[d]))
    <2>1. /\ o.authed = p.authed
          /\ o.data = [p.data EXCEPT ![d] = Fill(p.data[d], done, value)]
      BY <1>2 DEF SetUnauthedIn
    <2>2. done \cap p.authed[d] = {}
      BY DEF Completed
    <2> HIDE DEF done
    <2>3. \A e \in Direction : \A i \in p.authed[e] : o.data[e][i] = p.data[e][i]
      BY <1>2, <2>1, <2>2 DEF Fill
    <2> QED
      BY <1>1, <1>3, <2>1, <2>3
  <1> QED
    BY <1>4, <1>5

(* Serialisation sends the view, and what an accepted message expands to is *)
(* the view that was sent.                                                  *)
LEMMA ViewOfCompressed ==
    ASSUME NEW p, WellFormed(p)
    PROVE  WireView(Compress(p)) = View(p)
PROOF
  <1> DEFINE c == Compress(p)
  <1>1. p # None
    BY WellFormedSome
  <1>2. c # None
    BY CompressCorrect, NoneAssumption
  <1>3. /\ c.idx = p.authed
        /\ \A d \in Direction : c.bytes[d] = IndexRanges(p.data[d], p.authed[d])
    BY DEF Compress
  <1> HIDE DEF c
  <1>4. ASSUME NEW d \in Direction, NEW i \in p.authed[d]
        PROVE  ByteAt(c.bytes[d], c.idx[d], i) = p.data[d][i]
    <2>1. p.authed[d] \in SUBSET Position
      BY DataType
    <2>2. IsFiniteSet(p.authed[d]) /\ p.authed[d] \subseteq Nat
      BY <2>1, IndexFinite
    <2> QED
      BY <1>3, <2>2, ByteAtIndexRanges
  <1>5. WireView(c) = [d \in Direction |-> [i \in p.authed[d] |-> ByteAt(c.bytes[d], c.idx[d], i)]]
    BY <1>2, <1>3 DEF WireView
  <1>6. View(p) = [d \in Direction |-> [i \in p.authed[d] |-> p.data[d][i]]]
    BY <1>1, ViewOfPartial
  <1> QED
    BY <1>4, <1>5, <1>6 DEF c

(* The receiving side of the same. *)
LEMMA ViewOfDecompressed ==
    ASSUME NEW c \in Compressed, Valid(c)
    PROVE  View(Decompress(c)) = WireView(c)
PROOF
  <1> DEFINE p == Decompress(c)
  <1>1. WellFormed(p)
    BY DecompressCorrect
  <1>2. p # None /\ c # None
    BY <1>1, WellFormedSome, NoneAssumption
  <1>3. /\ p.authed = c.idx
        /\ \A d \in Direction : \A i \in 0 .. c.total[d] - 1 :
             p.data[d][i] = IF i \in c.idx[d] THEN ByteAt(c.bytes[d], c.idx[d], i) ELSE 0
    BY DEF Decompress
  <1>4. \A d \in Direction : c.idx[d] \subseteq 0 .. c.total[d] - 1
    BY DEF Valid
  <1> HIDE DEF p
  <1>5. \A d \in Direction : \A i \in c.idx[d] : p.data[d][i] = ByteAt(c.bytes[d], c.idx[d], i)
    BY <1>3, <1>4
  <1>6. View(p) = [d \in Direction |-> [i \in c.idx[d] |-> p.data[d][i]]]
    BY <1>2, <1>3, ViewOfPartial
  <1>7. WireView(c) = [d \in Direction |-> [i \in c.idx[d] |-> ByteAt(c.bytes[d], c.idx[d], i)]]
    BY <1>2 DEF WireView
  <1> QED
    BY <1>5, <1>6, <1>7 DEF p

(* A call that assigns one slot is an assignment of its view. *)
LEMMA KnownAssigned ==
    ASSUME TypeOK, NEW s \in Slot, NEW p, slots' = [slots EXCEPT ![s] = p]
    PROVE  [r \in Slot |-> View(slots'[r])] =
             [[r \in Slot |-> View(slots[r])] EXCEPT ![s] = View(p)]
PROOF
  <1>1. slots \in [Slot -> Partial \cup {None}]
    BY DEF TypeOK
  <1> DEFINE k == [r \in Slot |-> View(slots[r])]
             m == [r \in Slot |-> View(slots'[r])]
             n == [k EXCEPT ![s] = View(p)]
  <1>2. slots'[s] = p /\ \A r \in Slot \ {s} : slots'[r] = slots[r]
    BY <1>1
  <1>3. \A r \in Slot : View(slots'[r]) = IF r = s THEN View(p) ELSE k[r]
    BY <1>2
  <1>4. DOMAIN k = Slot
    OBVIOUS
  <1> HIDE DEF k
  <1>5. m = [r \in Slot |-> IF r = s THEN View(p) ELSE k[r]]
    BY <1>3
  <1>6. n = [r \in Slot |-> IF r = s THEN View(p) ELSE k[r]]
    BY <1>4
  <1> QED
    BY <1>5, <1>6 DEF k

(* Every call is a step of Disclosure, or none. *)
LEMMA StepRefines ==
    IInv /\ [Next]_vars => [Abstract!DNext]_Abstract!dvars
PROOF
  <1> DEFINE known == [r \in Slot |-> View(slots[r])]
             sent == WireView(wire)
             knownNext == [r \in Slot |-> View(slots'[r])]
             sentNext == WireView(wire')
  <1> SUFFICES ASSUME IInv, [Next]_vars
               PROVE  Abstract!DNext \/ (knownNext = known /\ sentNext = sent)
    BY DEF Abstract!dvars, View, WireView
  <1>t. TypeOK /\ \A s \in Held : s \in Slot /\ WellFormed(slots[s])
    BY HeldType DEF IInv
  <1>k. \A r \in Slot : known[r] = View(slots[r])
    OBVIOUS
  <1>1. ASSUME NEW s \in Slot, NEW t \in Transcripts, CreatePartial(s, t) \/ New(s, t)
        PROVE  Abstract!DNext
    <2>1. PICK idx \in [Direction -> SUBSET Position] :
            /\ \A d \in Direction : InBounds(idx[d], t[d])
            /\ \/ slots' = [slots EXCEPT ![s] = ToPartial(t, idx)]
               \/ slots' = [slots EXCEPT ![s] = NewPartial(t, idx)]
            /\ wire' = wire
      BY <1>1 DEF CreatePartial, New
    <2>2. knownNext = [known EXCEPT ![s] = Abstract!Part(t, idx)]
      BY <1>t, <2>1, KnownAssigned, ViewOfCreated
    <2>3. idx \in [Direction -> SUBSET Abstract!Positions]
          /\ \A d \in Direction : idx[d] \subseteq DOMAIN t[d]
      BY <2>1 DEF InBounds, Abstract!Positions
    <2>4. Abstract!Reveal(s)
      BY <2>1, <2>2, <2>3 DEF Abstract!Reveal
    <2> QED
      BY <2>4 DEF Abstract!DNext
  <1>2. ASSUME NEW s \in Slot, NEW r \in Slot, UnionTranscript(s, r)
        PROVE  Abstract!DNext
    <2> DEFINE u == UnionOf(slots[s], slots[r])
    <2>1. /\ s \in Held /\ r \in Held /\ SameLengths(slots[s], slots[r])
          /\ slots' = [slots EXCEPT ![s] = u] /\ wire' = wire
      BY <1>2 DEF UnionTranscript
    <2>2. View(u) = [d \in Direction |-> Abstract!Over(known[s][d], known[r][d])]
      BY <1>t, <2>1, ViewOfUnion
    <2>3. knownNext = [known EXCEPT ![s] = View(u)]
      BY <1>t, <2>1, KnownAssigned
    <2> HIDE DEF u
    <2>4. Abstract!Merge(s, r)
      BY <2>1, <2>2, <2>3 DEF Abstract!Merge
    <2> QED
      BY <2>4 DEF Abstract!DNext
  <1>3. ASSUME NEW s \in Slot, NEW t \in Transcripts, NEW d \in Direction,
               UnionSubsequence(s, t, d)
        PROVE  Abstract!DNext
    <2>1. PICK idx \in SUBSET DOMAIN t[d] :
            /\ s \in Held
            /\ InBounds(idx, slots[s].data[d])
            /\ slots' = [slots EXCEPT ![s] = Overwrite(slots[s], d, idx, t)]
            /\ wire' = wire
      BY <1>3 DEF UnionSubsequence
    <2> DEFINE o == Overwrite(slots[s], d, idx, t)
               f == Abstract!Restriction(t[d], idx)
    <2>2. View(o) = [known[s] EXCEPT ![d] = Abstract!Over(f, known[s][d])]
      BY <1>t, <2>1, ViewOfOverwrite
    <2>3. knownNext = [known EXCEPT ![s] = View(o)]
      BY <1>t, <2>1, KnownAssigned
    <2> HIDE DEF o
    <2>4. Abstract!Learn(s, d)
      BY <2>1, <2>2, <2>3 DEF Abstract!Learn
    <2> QED
      BY <2>4 DEF Abstract!DNext
  <1>4. ASSUME NEW s \in Slot, NEW t \in Transcripts, NEW d \in Direction,
               UnionSubsequencePanics(s, t, d)
        PROVE  Abstract!DNext
    <2>1. PICK idx \in SUBSET DOMAIN t[d] :
            /\ s \in Held
            /\ slots' = [slots EXCEPT ![s] = OverwriteHalfway(slots[s], d, idx, t)]
            /\ wire' = wire
      BY <1>4 DEF UnionSubsequencePanics
    <2> DEFINE o == OverwriteHalfway(slots[s], d, idx, t)
    <2>2. WellFormed(slots[s])
      BY <1>t, <2>1
    <2>r. Relearnt(View(slots[s]), slots[s].authed[d], View(o), d, t)
      BY <2>2, ViewOfOverwriteHalfway
    <2>3. PICK S \in SUBSET (slots[s].authed[d] \cap DOMAIN t[d]) :
            View(o) = [View(slots[s]) EXCEPT
                         ![d] = Abstract!Over(Abstract!Restriction(t[d], S), View(slots[s])[d])]
      BY <2>r DEF Relearnt
    <2>4. knownNext = [known EXCEPT ![s] = View(o)]
      BY <1>t, <2>1, KnownAssigned
    <2>5. S \in SUBSET (DOMAIN t[d] \cap DOMAIN known[s][d])
      <3>1. slots[s] # None
        BY <2>1 DEF Held
      <3>2. DOMAIN known[s][d] = slots[s].authed[d]
        BY <3>1, ViewAt
      <3> QED
        BY <3>2
    <2> HIDE DEF o
    <2>6. Abstract!LearnHalfway(s, d)
      BY <2>1, <2>3, <2>4, <2>5 DEF Abstract!LearnHalfway
    <2> QED
      BY <2>6 DEF Abstract!DNext
  <1>5. ASSUME NEW s \in Slot, NEW value \in Filler, NEW d \in Direction,
               SetAllUnauthed(s, value) \/ SetUnauthedRange(s, d, value)
        PROVE  knownNext = known /\ sentNext = sent
    <2>1. PICK o : /\ s \in Held /\ wire' = wire
                   /\ slots' = [slots EXCEPT ![s] = o]
                   /\ View(o) = View(slots[s])
      BY <1>t, <1>5, ViewOfSetUnauthed DEF SetAllUnauthed, SetUnauthedRange
    <2>2. knownNext = [known EXCEPT ![s] = known[s]]
      BY <1>t, <2>1, KnownAssigned
    <2> QED
      BY <2>1, <2>2
  <1>6. ASSUME NEW s \in Slot, Serialize(s)
        PROVE  Abstract!DNext
    <2>1. s \in Held /\ wire' = Compress(slots[s]) /\ slots' = slots
      BY <1>6 DEF Serialize
    <2>2. sentNext = known[s]
      BY <1>t, <2>1, ViewOfCompressed
    <2>3. Abstract!Send(s)
      BY <2>1, <2>2 DEF Abstract!Send
    <2> QED
      BY <2>3 DEF Abstract!DNext
  <1>7. ASSUME NEW s \in Slot, Deserialize(s)
        PROVE  Abstract!DNext
    <2>1. PICK c \in Damaged(wire) :
            /\ wire # None /\ Valid(c) /\ wire' = wire
            /\ slots' = [slots EXCEPT ![s] = Decompress(c)]
      BY <1>7 DEF Deserialize
    <2>2. wire \in Compressed /\ Valid(wire)
      BY <1>t, <2>1 DEF TypeOK
    <2>3. c \in Compressed /\ c.bytes = wire.bytes /\ c.idx = wire.idx
      BY <2>1, <2>2, DamagedIsWhole
    <2>4. WireView(c) = sent
      BY <2>2, <2>3, NoneAssumption DEF WireView
    <2>5. View(Decompress(c)) = sent
      BY <2>1, <2>3, <2>4, ViewOfDecompressed
    <2>6. knownNext = [known EXCEPT ![s] = sent]
      BY <1>t, <2>1, <2>5, KnownAssigned
    <2>7. Abstract!Receive(s)
      BY <2>1, <2>6 DEF Abstract!Receive
    <2> QED
      BY <2>7 DEF Abstract!DNext
  <1>8. CASE UNCHANGED vars
    BY <1>8 DEF vars
  <1>9. CASE Next
    <2>1. Direction # {}
      BY DEF Direction
    <2>2. PICK s \in Slot :
        \/ \E t \in Transcripts : CreatePartial(s, t) \/ New(s, t)
        \/ \E r \in Slot : UnionTranscript(s, r)
        \/ \E t \in Transcripts, d \in Direction : UnionSubsequence(s, t, d)
        \/ \E t \in Transcripts, d \in Direction : UnionSubsequencePanics(s, t, d)
        \/ \E d \in Direction, value \in Filler :
              SetAllUnauthed(s, value) \/ SetUnauthedRange(s, d, value)
        \/ Serialize(s)
        \/ Deserialize(s)
      BY <1>9, <2>1 DEF Next, Call
    <2> HIDE DEF known, sent, knownNext, sentNext
    <2> QED
      BY <1>1, <1>2, <1>3, <1>4, <1>5, <1>6, <1>7, <2>2
  <1> QED
    BY <1>8, <1>9

(* A set of slots that holds partial transcripts is, seen through their     *)
(* indices, a set of holders of authenticated bytes: every behaviour of the *)
(* code is one of Disclosure.                                               *)
THEOREM Refinement == Spec => ImplementsDisclosure
PROOF
  <1>1. Init => Abstract!DInit
    BY DEF Init, Abstract!DInit, Abstract!Nothing, View, WireView
  <1>2. IInv /\ [Next]_vars => [Abstract!DNext]_Abstract!dvars
    BY StepRefines
  <1> QED
    BY <1>1, <1>2, Invariance, PTL DEF Spec, ImplementsDisclosure, Abstract!DSpec
===============================================================================
