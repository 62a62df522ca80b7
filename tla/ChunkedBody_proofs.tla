--------------------------- MODULE ChunkedBody_proofs ---------------------------
(***************************************************************************)
(* Proofs about ChunkedBody, for every source and every body.  One          *)
(* invariant carries all three safety properties: until a sum wraps, what   *)
(* was recorded lies before pos, and as long as the loop reads there is no  *)
(* trailer.                                                                 *)
(***************************************************************************)
EXTENDS ChunkedBody, FiniteSetTheorems, TLAPS

(* A loop that still reads has not seen the trailer section. *)
NoTrailerYet == outcome # "Parsed" => trailer = {}

(* The loop goes forward from where it was entered. *)
Forward == sums # "Wrapped" => start <= pos

(* The three properties are inductive together: Apart bounds what was       *)
(* recorded by pos, so that the line break found at the end puts all of it  *)
(* inside the source, as ParsedInside says.                                 *)
IInv ==
    /\ TypeOK
    /\ Apart
    /\ ParsedInside
    /\ NoTrailerYet
    /\ Forward

(* SourceLength is the number of cells. *)
LEMMA LengthOfSource ==
    ASSUME NEW n \in Nat, DOMAIN src = 0 .. n - 1
    PROVE  SourceLength = n
PROOF
  <1>1. CASE n = 0
    <2>1. DOMAIN src = {}
      BY <1>1
    <2> QED
      BY <1>1, <2>1, FS_EmptySet DEF SourceLength
  <1>2. CASE n > 0
    <2>1. Cardinality(0 .. n - 1) = (n - 1) - 0 + 1
      BY <1>2, FS_Interval
    <2> QED
      BY <1>2, <2>1 DEF SourceLength
  <1> QED
    BY <1>1, <1>2

(* A chunk size is a number that fits a usize. *)
LEMMA ChunkSizeType == \A first, last : ChunkSize(first, last) \subseteq 0 .. MaxUsize
  BY UsizeAssumption DEF ChunkSize

(* The invariant holds before the first iteration. *)
LEMMA InitInvariant == Init => IInv
PROOF
  <1> SUFFICES ASSUME Init PROVE IInv
    OBVIOUS
  <1>1. src \in Sources \cup {b.src : b \in Bodies}
    BY DEF Init
  <1>2. PICK n \in 0 .. MaxUsize : DOMAIN src = 0 .. n - 1
    BY <1>1, SourcesAssumption
  <1>3. SourceLength = n
    BY <1>2, LengthOfSource, UsizeAssumption
  <1>4. start \in 0 .. n
    BY <1>2, <1>3, StartAssumption, UsizeAssumption DEF Init
  <1>5. /\ pos = start /\ content = {} /\ structure = {} /\ trailer = {}
        /\ outcome = "Reading" /\ sums \in {"Checked", "Unchecked"}
    BY BuildsAssumption DEF Init
  <1> QED
    BY <1>2, <1>3, <1>4, <1>5, UsizeAssumption
    DEF IInv, TypeOK, Apart, ParsedInside, NoTrailerYet, Forward

(* An iteration that only ends the loop with an error keeps everything. *)
LEMMA EndsKeeps ==
    ASSUME IInv, outcome = "Reading", UNCHANGED <<src, start, written>>,
           Ends("Failed") \/ Ends("Panicked")
    PROVE  IInv'
  BY DEF IInv, TypeOK, Apart, ParsedInside, NoTrailerYet, Forward, Ends, SourceLength

(* A chunk with data is recorded behind everything else. *)
LEMMA ChunkKeeps ==
    ASSUME IInv, outcome = "Reading", UNCHANGED <<src, start, written>>,
           NEW last \in pos .. SourceLength, Chunk(last)
    PROVE  IInv'
PROOF
  <1>1. PICK size \in ChunkSize(pos, last) \ {0} :
          /\ last + 2 + size + 2 <= MaxUsize
          /\ structure' = structure \cup (pos .. last + 1)
          /\ content' = content \cup (last + 2 .. last + 2 + size - 1)
          /\ pos' = last + 2 + size + 2
          /\ trailer' = trailer /\ outcome' = outcome /\ sums' = sums
    BY DEF Chunk
  <1>2. size \in Nat /\ size > 0
    BY <1>1, ChunkSizeType, UsizeAssumption
  <1>3. start \in Nat /\ pos \in Nat /\ last \in Nat /\ pos <= last
    BY UsizeAssumption DEF IInv, TypeOK
  <1>4. TypeOK'
    BY <1>1, <1>2, <1>3, UsizeAssumption DEF IInv, TypeOK, SourceLength
  <1>5. Apart' /\ Forward'
    <2>1. CASE sums = "Wrapped"
      BY <1>1, <2>1 DEF Apart, Forward
    <2>2. CASE sums # "Wrapped"
      <3>1. start <= pos
        BY <2>2 DEF IInv, Forward
      <3> QED
        BY <1>1, <1>2, <1>3, <2>2, <3>1 DEF IInv, Apart, NoTrailerYet, Forward
    <2> QED
      BY <2>1, <2>2
  <1>6. ParsedInside' /\ NoTrailerYet'
    BY <1>1 DEF IInv, ParsedInside, NoTrailerYet
  <1> QED
    BY <1>4, <1>5, <1>6 DEF IInv

(* What wraps is a usize again. *)
LEMMA RemainderType == \A n \in Nat : n % (MaxUsize + 1) \in 0 .. MaxUsize
PROOF
  <1> SUFFICES ASSUME NEW n \in Nat PROVE n % (MaxUsize + 1) \in 0 .. MaxUsize
    OBVIOUS
  <1>1. PICK m \in Nat \ {0} : m = MaxUsize + 1
    BY UsizeAssumption
  <1>2. n % m \in 0 .. m - 1
    OBVIOUS
  <1> QED
    BY <1>1, <1>2, UsizeAssumption

(* A position that wraps is one of a usize, and leaves nothing else to      *)
(* keep.                                                                    *)
LEMMA WrapKeeps ==
    ASSUME IInv, outcome = "Reading", UNCHANGED <<src, start, written>>,
           NEW last \in pos .. SourceLength, ChunkWraps(last)
    PROVE  IInv'
PROOF
  <1>1. PICK size \in ChunkSize(pos, last) \ {0} :
          /\ structure' = structure \cup (pos .. last + 1)
          /\ content' = content \cup
                {i \in last + 2 .. last + 2 + size - 1 : last + 2 + size <= MaxUsize}
          /\ pos' = (last + 2 + size + 2) % (MaxUsize + 1)
          /\ sums' = "Wrapped"
          /\ trailer' = trailer /\ outcome' = outcome
    BY DEF ChunkWraps
  <1>2. pos \in Nat /\ last \in Nat
    BY UsizeAssumption DEF IInv, TypeOK
  <1>3. PICK n \in Nat : n = last + 2 + size + 2
    BY <1>2, ChunkSizeType, UsizeAssumption
  <1>4. pos' \in 0 .. MaxUsize
    <2>1. n % (MaxUsize + 1) \in 0 .. MaxUsize
      BY RemainderType
    <2> QED
      BY <1>1, <1>3, <2>1
  <1>5. content' \in SUBSET Nat /\ structure' \in SUBSET Nat
    <2>1. PICK first \in Nat, stop \in Nat : first = last + 2 /\ stop = last + 1
      BY <1>2
    <2>2. content \in SUBSET Nat /\ structure \in SUBSET Nat
      BY DEF IInv, TypeOK
    <2>3. {i \in last + 2 .. last + 2 + size - 1 : last + 2 + size <= MaxUsize} \subseteq Nat
      <3>1. \A i \in first .. first + size - 1 : i \in Nat
        <4>1. first \in Nat /\ first + size - 1 \in Int
          BY ChunkSizeType, UsizeAssumption
        <4> QED
          BY <4>1
      <3> QED
        BY <2>1, <3>1
    <2>4. pos .. last + 1 \subseteq Nat
      BY <1>2, <2>1
    <2> QED
      BY <1>1, <2>2, <2>3, <2>4
  <1>6. TypeOK'
    <2>1. pos' \in 0 .. MaxUsize + 2 /\ src' = src /\ start' = start
      BY <1>4, UsizeAssumption
    <2> QED
      BY <1>1, <1>5, <2>1 DEF IInv, TypeOK, SourceLength
  <1> QED
    BY <1>1, <1>6 DEF IInv, Apart, ParsedInside, NoTrailerYet, Forward

(* The terminating chunk is in the source with the line break that follows  *)
(* it, and so is everything before it.                                      *)
LEMMA LastChunkKeeps ==
    ASSUME IInv, outcome = "Reading", UNCHANGED <<src, start, written>>,
           NEW last \in pos .. SourceLength,
           LastChunk(last) \/ LastChunkWithTrailer(last)
    PROVE  IInv'
PROOF
  <1>1. PICK stop \in last + 2 .. SourceLength :
          /\ CrLfAt(stop)
          /\ structure' = structure \cup (pos .. last + 1)
          /\ trailer' = trailer \cup (last + 2 .. stop - 1)
          /\ pos' = last + 2
          /\ outcome' = "Parsed"
          /\ content' = content /\ sums' = sums
    <2>1. CASE LastChunk(last)
      <3>1. last + 2 \in DOMAIN src /\ CrLfAt(last + 2)
        BY <2>1 DEF LastChunk, CrLfAt, CrLfIn
      <3>2. last + 2 \in last + 2 .. SourceLength
        BY <3>1, UsizeAssumption DEF IInv, TypeOK
      <3>3. last + 2 .. (last + 2) - 1 = {}
        BY <3>2
      <3> QED
        BY <2>1, <3>1, <3>2, <3>3 DEF LastChunk
    <2>2. CASE LastChunkWithTrailer(last)
      BY <2>2 DEF LastChunkWithTrailer, EmptyLineAt
    <2> QED
      BY <2>1, <2>2
  <1>2. start \in Nat /\ pos \in Nat /\ last \in Nat /\ pos <= last
    BY UsizeAssumption DEF IInv, TypeOK
  <1>3. stop \in Nat /\ stop + 1 \in DOMAIN src
    BY <1>1, <1>2 DEF CrLfAt, CrLfIn
  <1>4. SourceLength \in Nat /\ stop + 1 < SourceLength
    BY <1>1, <1>2, <1>3, UsizeAssumption DEF IInv, TypeOK
  <1>5. trailer = {}
    BY DEF IInv, NoTrailerYet
  <1>6. TypeOK'
    BY <1>1, <1>2, <1>3, <1>4, UsizeAssumption DEF IInv, TypeOK, SourceLength
  <1>7. CASE sums = "Wrapped"
    BY <1>1, <1>6, <1>7 DEF IInv, Apart, ParsedInside, NoTrailerYet, Forward
  <1>8. CASE sums # "Wrapped"
    <2>1. start <= pos
      BY <1>8 DEF IInv, Forward
    <2>2. Apart' /\ Forward'
      BY <1>1, <1>2, <1>3, <1>5, <1>8, <2>1 DEF IInv, Apart, Forward
    <2>3. ParsedInside'
      BY <1>1, <1>2, <1>3, <1>4, <1>5, <1>8, <2>1 DEF IInv, TypeOK, Apart, ParsedInside
    <2> QED
      BY <1>1, <1>6, <2>2, <2>3 DEF IInv, NoTrailerYet
  <1> QED
    BY <1>7, <1>8

(* Every step keeps the invariant. *)
LEMMA StepInvariant == IInv /\ [Next]_vars => IInv'
PROOF
  <1> SUFFICES ASSUME IInv, [Next]_vars PROVE IInv'
    OBVIOUS
  <1>1. CASE Next
    <2>1. outcome = "Reading" /\ UNCHANGED <<src, start, written>>
      BY <1>1 DEF Next, Iterate
    <2>2. CASE Ends("Failed") \/ Ends("Panicked")
      BY <2>1, <2>2, EndsKeeps
    <2>3. ASSUME NEW last \in pos .. SourceLength, Chunk(last)
          PROVE  IInv'
      BY <2>1, <2>3, ChunkKeeps
    <2>5. ASSUME NEW last \in pos .. SourceLength, ChunkWraps(last)
          PROVE  IInv'
      BY <2>1, <2>5, WrapKeeps
    <2>4. ASSUME NEW last \in pos .. SourceLength,
                 LastChunk(last) \/ LastChunkWithTrailer(last)
          PROVE  IInv'
      BY <2>1, <2>4, LastChunkKeeps
    <2> QED
      BY <1>1, <2>2, <2>3, <2>4, <2>5
      DEF Next, Iterate, SlicePanics, BadSize, ChunkOverflows, LastChunkPanics,
          MissingTrailerEnd
  <1>2. CASE UNCHANGED vars
    BY <1>2 DEF vars, loopVars, IInv, TypeOK, Apart, ParsedInside, NoTrailerYet, Forward,
                SourceLength
  <1> QED
    BY <1>1, <1>2

(* The invariant holds in every reachable state. *)
THEOREM Invariance == Spec => []IInv
  BY InitInvariant, StepInvariant, PTL DEF Spec

(* The type invariant: the position never leaves a usize by more than the   *)
(* two cells of a line break, whether sums wrap or not.                     *)
THEOREM TypeCorrect == Spec => []TypeOK
  <1>1. IInv => TypeOK
    BY DEF IInv
  <1> QED
    BY <1>1, Invariance, PTL

(* No byte is both chunk data and chunk boundary, on any source, until a    *)
(* sum wraps.                                                               *)
THEOREM RangesApart == Spec => []Apart
  <1>1. IInv => Apart
    BY DEF IInv
  <1> QED
    BY <1>1, Invariance, PTL

(* What a successful loop returns lies in the source, on any source, unless *)
(* a sum has wrapped.                                                       *)
THEOREM RangesInside == Spec => []ParsedInside
  <1>1. IInv => ParsedInside
    BY DEF IInv
  <1> QED
    BY <1>1, Invariance, PTL

-------------------------------------------------------------------------------
(* The loop is at the start of a chunk, and what it has recorded is the     *)
(* data and the size lines of the chunks before.                            *)
AtChunk(k) ==
    /\ k \in DOMAIN written.chunks /\ pos = written.chunks[k].at
    /\ content = UNION {DataOfChunk(written.chunks[j]) : j \in 1 .. k - 1}
    /\ structure = UNION {LineOfChunk(written.chunks[j]) : j \in 1 .. k - 1}

Follows ==
    written # None =>
        /\ written \in Bodies /\ src = written.src
        /\ outcome \notin {"Failed", "Panicked"}
        /\ outcome = "Reading" => trailer = {} /\ \E k \in Nat : AtChunk(k)
        /\ outcome = "Parsed" =>
              /\ content = written.payload /\ structure = written.lines
              /\ trailer = written.trailer

(* What the loop reads at a size line: the line, and the size in it.        *)
LEMMA LineRead ==
    ASSUME TypeOK, NEW c \in ChunkRecords, SizeLine(src, c),
           NEW last \in c.at .. SourceLength, EndsLine(c.at, last)
    PROVE  /\ last = c.last /\ ChunkSize(c.at, last) = {c.size}
           /\ c.at \in Nat /\ c.last \in Nat /\ c.last + 1 < SourceLength
PROOF
  <1>1. c.at \in Nat /\ c.last \in Nat /\ c.size \in 0 .. MaxUsize
    BY DEF ChunkRecords
  <1>2. SourceLength \in Nat /\ DOMAIN src = 0 .. SourceLength - 1
    BY UsizeAssumption DEF TypeOK
  <1>3. /\ c.at < c.last /\ CrLfAt(c.last)
        /\ \A i \in c.at .. c.last - 1 : src[i] \in DOMAIN DigitValue
        /\ c.size = HexValue(LineOf(src, c.at, c.last), c.at, c.last)
    BY DEF SizeLine, CrLfAt
  <1>4. c.last + 1 < SourceLength
    BY <1>1, <1>2, <1>3 DEF CrLfAt, CrLfIn
  <1>5. ~ c.last < last
    BY <1>1, <1>2, <1>3 DEF EndsLine
  <1>6. ~ last < c.last
    <2> SUFFICES ASSUME last < c.last PROVE FALSE
      OBVIOUS
    <2>1. src[last] \in DOMAIN DigitValue
      BY <1>1, <1>2, <1>3
    <2>2. CrLfAt(last)
      BY <1>1, <1>2, <1>4 DEF EndsLine
    <2> QED
      BY <2>1, <2>2, LineAssumption DEF CrLfAt, CrLfIn
  <1>7. last = c.last
    BY <1>1, <1>2, <1>5, <1>6
  <1>8. ChunkSize(c.at, last) = {c.size}
    BY <1>1, <1>3, <1>7 DEF ChunkSize
  <1> QED
    BY <1>1, <1>4, <1>7, <1>8

LEMMA FollowsInit == Init => Follows
PROOF
  <1> SUFFICES ASSUME Init, written # None PROVE Follows
    BY DEF Follows
  <1>1. PICK b \in Bodies : b = written
    BY DEF Init
  <1>2. Layout(b.src, b.chunks, b.stop) /\ b.chunks[1].at = b.start
    BY BodiesAssumption
  <1>3. 1 \in DOMAIN b.chunks
    BY <1>2 DEF Layout, Chain
  <1>4. AtChunk(1)
    BY <1>1, <1>2, <1>3 DEF Init, AtChunk
  <1> QED
    BY <1>1, <1>4 DEF Init, Follows

(* At a chunk with data, the loop goes on to the next chunk; at the last    *)
(* one it ends, with the trailer section if there is one.                   *)
LEMMA FollowsStep ==
    ASSUME TypeOK, Follows, written # None, Iterate, UNCHANGED <<src, start, written>>
    PROVE  Follows'
PROOF
  <1>1. PICK b \in Bodies : b = written /\ src = b.src
    BY DEF Follows
  <1>2. PICK chunks \in Seq(ChunkRecords) : chunks = b.chunks
    BY <1>1, BodiesAssumption DEF Layout, Chain
  <1>3. PICK n \in Nat \ {0} : n = Len(chunks) /\ DOMAIN chunks = 1 .. n
    BY <1>1, <1>2, BodiesAssumption DEF Layout, Chain
  <1>4. /\ \A k \in 1 .. n : SizeLine(src, chunks[k]) /\ (chunks[k].size = 0 <=> k = n)
        /\ \A k \in 1 .. n - 1 : chunks[k + 1].at = chunks[k].last + 2 + chunks[k].size + 2
        /\ TrailerSection(src, chunks[n].last + 2, b.stop)
    BY <1>1, <1>2, <1>3, BodiesAssumption DEF Layout, Chain
  <1>5. outcome = "Reading" /\ trailer = {}
    BY DEF Follows, Iterate
  <1>6. PICK k \in Nat : AtChunk(k)
    BY <1>5 DEF Follows
  <1>7. PICK c \in ChunkRecords : c = chunks[k]
    BY <1>1, <1>2, <1>6 DEF AtChunk
  <1>8. /\ k \in 1 .. n /\ pos = c.at /\ SizeLine(src, c)
        /\ c.size = 0 <=> k = n
    BY <1>1, <1>2, <1>3, <1>4, <1>6, <1>7 DEF AtChunk
  <1>9. SourceLength \in Nat /\ SourceLength <= MaxUsize /\ DOMAIN src = 0 .. SourceLength - 1
    BY UsizeAssumption DEF TypeOK
  <1>10. /\ c.at \in Nat /\ c.last \in Nat /\ c.size \in Nat /\ c.at < c.last
         /\ c.last + 1 < SourceLength
    BY <1>8, <1>9, UsizeAssumption DEF ChunkRecords, SizeLine, CrLfIn
  <1>11. ASSUME NEW last \in pos .. SourceLength, EndsLine(pos, last)
         PROVE  last = c.last /\ ChunkSize(pos, last) = {c.size}
    BY <1>8, <1>11, LineRead
  <1>12. content = UNION {DataOfChunk(chunks[j]) : j \in 1 .. k - 1}
         /\ structure = UNION {LineOfChunk(chunks[j]) : j \in 1 .. k - 1}
    BY <1>1, <1>2, <1>6 DEF AtChunk
  <1>13. PICK last \in pos .. SourceLength :
            /\ EndsLine(pos, last)
            /\ \/ BadSize(last) \/ Chunk(last) \/ ChunkOverflows(last) \/ ChunkWraps(last)
               \/ LastChunkPanics(last) \/ LastChunk(last) \/ LastChunkWithTrailer(last)
               \/ MissingTrailerEnd(last)
    BY <1>8, <1>9, <1>10 DEF Iterate, SlicePanics
  <1>14. last = c.last /\ ChunkSize(pos, last) = {c.size}
    BY <1>11, <1>13
  <1>15. ASSUME k < n
         PROVE  outcome' = "Reading" /\ trailer' = {} /\ AtChunk(k + 1)'
    <2>1. PICK d \in ChunkRecords : d = chunks[k + 1] /\ SizeLine(src, d)
      BY <1>3, <1>4, <1>8, <1>15
    <2>2. d.at = c.last + 2 + c.size + 2 /\ c.size # 0
      BY <1>3, <1>4, <1>7, <1>8, <1>15, <2>1
    <2>3. d.at < d.last /\ d.last < SourceLength /\ d.at \in Nat /\ d.last \in Nat
      BY <1>9, <2>1 DEF ChunkRecords, SizeLine, CrLfIn
    <2>4. Chunk(last)
      <3>1. ~ BadSize(last) /\ ~ LastChunkPanics(last) /\ ~ LastChunk(last)
               /\ ~ LastChunkWithTrailer(last) /\ ~ MissingTrailerEnd(last)
        BY <1>14, <2>2
        DEF BadSize, LastChunkPanics, LastChunk, LastChunkWithTrailer, MissingTrailerEnd
      <3>2. ~ ChunkOverflows(last) /\ ~ ChunkWraps(last)
        BY <1>9, <1>10, <1>14, <2>2, <2>3, UsizeAssumption DEF ChunkOverflows, ChunkWraps
      <3> QED
        BY <1>13, <3>1, <3>2
    <2>5. /\ structure' = structure \cup (pos .. last + 1)
          /\ content' = content \cup (last + 2 .. last + 2 + c.size - 1)
          /\ pos' = last + 2 + c.size + 2
          /\ UNCHANGED <<trailer, outcome>>
      BY <1>14, <2>4 DEF Chunk
    <2>6. pos .. last + 1 = LineOfChunk(c) /\ (last + 2 .. last + 2 + c.size - 1) = DataOfChunk(c)
      BY <1>8, <1>14 DEF LineOfChunk, DataOfChunk
    <2>7. 1 .. (k + 1) - 1 = (1 .. k - 1) \cup {k}
      BY <1>8
    <2>8. PICK before : before = 1 .. k - 1
      OBVIOUS
    <2>9. 1 .. (k + 1) - 1 = before \cup {k}
      BY <2>7, <2>8
    <2>10. content' = UNION {DataOfChunk(chunks[j]) : j \in before \cup {k}}
      <3>1. content = UNION {DataOfChunk(chunks[j]) : j \in before}
        BY <1>12, <2>8
      <3>2. content' = content \cup DataOfChunk(chunks[k])
        BY <1>7, <2>5, <2>6
      <3> QED
        BY <3>1, <3>2
    <2>11. structure' = UNION {LineOfChunk(chunks[j]) : j \in before \cup {k}}
      <3>1. structure = UNION {LineOfChunk(chunks[j]) : j \in before}
        BY <1>12, <2>8
      <3>2. structure' = structure \cup LineOfChunk(chunks[k])
        BY <1>7, <2>5, <2>6
      <3> QED
        BY <3>1, <3>2
    <2>12. pos' = chunks[k + 1].at /\ k + 1 \in 1 .. n
      BY <1>8, <1>14, <1>15, <2>1, <2>2, <2>5
    <2>13. outcome' = "Reading" /\ trailer' = {}
      BY <1>5, <2>5
    <2>14. AtChunk(k + 1)'
      <3>1. written' = b
        BY <1>1
      <3>2. content' = UNION {DataOfChunk(chunks[j]) : j \in 1 .. (k + 1) - 1}
        BY <2>9, <2>10
      <3>3. structure' = UNION {LineOfChunk(chunks[j]) : j \in 1 .. (k + 1) - 1}
        BY <2>9, <2>11
      <3> QED
        BY <1>2, <1>3, <2>12, <3>1, <3>2, <3>3 DEF AtChunk
    <2> QED
      BY <2>13, <2>14
  <1>16. ASSUME k = n
         PROVE  /\ outcome' = "Parsed" /\ content' = written.payload /\ structure' = written.lines
                /\ trailer' = written.trailer
    <2>1. c.size = 0 /\ TrailerSection(src, last + 2, b.stop)
      BY <1>4, <1>7, <1>8, <1>14, <1>16
    <2>2. b.payload = content /\ b.lines = structure \cup (pos .. last + 1)
      <3>1. b.payload = DataOfChunks(chunks) /\ b.lines = LinesOfChunks(chunks)
        BY <1>2, BodiesAssumption
      <3>2. PICK before : before = 1 .. k - 1
        OBVIOUS
      <3>3. DOMAIN chunks = before \cup {k}
        BY <1>3, <1>8, <1>16, <3>2
      <3>4. DataOfChunk(c) = {} /\ LineOfChunk(c) = pos .. last + 1
        BY <1>8, <1>10, <1>14, <2>1 DEF DataOfChunk, LineOfChunk
      <3>5. b.payload = content
        <4>1. b.payload = UNION {DataOfChunk(chunks[j]) : j \in before \cup {k}}
          BY <3>1, <3>3 DEF DataOfChunks
        <4>2. content = UNION {DataOfChunk(chunks[j]) : j \in before} /\ DataOfChunk(chunks[k]) = {}
          BY <1>7, <1>12, <3>2, <3>4
        <4> QED
          BY <4>1, <4>2
      <3>6. b.lines = structure \cup LineOfChunk(chunks[k])
        <4>1. b.lines = UNION {LineOfChunk(chunks[j]) : j \in before \cup {k}}
          BY <3>1, <3>3 DEF LinesOfChunks
        <4>2. structure = UNION {LineOfChunk(chunks[j]) : j \in before}
          BY <1>12, <3>2
        <4> QED
          BY <4>1, <4>2
      <3> QED
        BY <1>7, <3>4, <3>5, <3>6
    <2>3. b.trailer = last + 2 .. b.stop - 1
      BY <1>2, <1>3, <1>7, <1>14, <1>16, BodiesAssumption
    <2>4. /\ ~ BadSize(last) /\ ~ Chunk(last) /\ ~ ChunkOverflows(last) /\ ~ ChunkWraps(last)
          /\ ~ LastChunkPanics(last)
      BY <1>9, <1>10, <1>14, <2>1
      DEF BadSize, Chunk, ChunkOverflows, ChunkWraps, LastChunkPanics
    <2>5. last \in Nat /\ last + 2 <= SourceLength
      BY <1>9, <1>10, <1>14
    <2>6. CASE b.stop = last + 2 /\ CrLfAt(last + 2)
      <3>1. LastChunk(last)
        BY <1>13, <2>4, <2>6 DEF LastChunkWithTrailer, MissingTrailerEnd
      <3>2. b.trailer = {}
        BY <2>3, <2>5, <2>6
      <3> QED
        BY <1>1, <1>5, <2>2, <3>1, <3>2 DEF LastChunk
    <2>7. CASE /\ last + 2 < b.stop /\ ~ CrLfAt(last + 2) /\ EmptyLineAt(b.stop)
               /\ \A i \in last + 2 .. b.stop - 1 : ~ EmptyLineAt(i)
      <3>1. b.stop \in DOMAIN src
        BY <2>7 DEF EmptyLineAt, CrLfAt, CrLfIn
      <3>2. b.stop \in last + 2 .. SourceLength
        BY <1>9, <2>5, <2>7, <3>1
      <3>3. LastChunkWithTrailer(last)
        BY <1>13, <2>4, <2>7, <3>2 DEF LastChunk, MissingTrailerEnd
      <3>4. PICK stop \in last + 2 .. SourceLength :
               /\ EmptyLineAt(stop)
               /\ \A i \in last + 2 .. stop - 1 : ~ EmptyLineAt(i)
               /\ structure' = structure \cup (pos .. last + 1)
               /\ trailer' = trailer \cup (last + 2 .. stop - 1)
               /\ outcome' = "Parsed" /\ content' = content
        BY <3>3 DEF LastChunkWithTrailer
      <3>5. ~ stop < b.stop /\ ~ b.stop < stop
        BY <1>9, <2>5, <2>7, <3>2, <3>4
      <3>6. stop = b.stop
        BY <1>9, <2>5, <3>2, <3>4, <3>5
      <3> QED
        BY <1>1, <1>5, <2>2, <2>3, <3>4, <3>6
    <2> QED
      BY <2>1, <2>6, <2>7 DEF TrailerSection, CrLfAt, EmptyLineAt
  <1>17. written' = b /\ src' = written'.src
    BY <1>1
  <1>18. CASE k < n
    <2>1. k + 1 \in Nat
      OBVIOUS
    <2> QED
      BY <1>15, <1>17, <1>18, <2>1 DEF Follows
  <1>19. CASE k = n
    BY <1>1, <1>16, <1>17, <1>19 DEF Follows
  <1> QED
    BY <1>3, <1>8, <1>18, <1>19

LEMMA FollowsNext == TypeOK /\ Follows /\ [Next]_vars => Follows'
PROOF
  <1> SUFFICES ASSUME TypeOK, Follows, [Next]_vars PROVE Follows'
    OBVIOUS
  <1>1. CASE Next
    <2>1. CASE written = None
      BY <1>1, <2>1 DEF Next, Follows
    <2> QED
      BY <1>1, <2>1, FollowsStep DEF Next
  <1>2. CASE UNCHANGED vars
    BY <1>2 DEF vars, loopVars, Follows, AtChunk
  <1> QED
    BY <1>1, <1>2

(* Whatever a writer encodes, in any number of chunks of any size, with     *)
(* trailers or not and with anything behind it, the loop does not fail on   *)
(* it, and what it returns is the data, the size lines and the trailers.    *)
THEOREM WrittenIsRead == Spec => []RoundTrip
PROOF
  <1>1. Follows => RoundTrip
    BY DEF Follows, RoundTrip
  <1>2. IInv => TypeOK
    BY DEF IInv
  <1> QED
    BY FollowsInit, FollowsNext, <1>1, <1>2, Invariance, PTL DEF Spec
===============================================================================
