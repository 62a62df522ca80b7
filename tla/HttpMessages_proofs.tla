--------------------------- MODULE HttpMessages_proofs ---------------------------
(***************************************************************************)
(* Proofs about HttpMessages, for any transcripts in which httparse finds   *)
(* heads of which the parts are in order.  The chunk loop is the part of    *)
(* ChunkedBody again, now started behind a head, so the invariant carries   *)
(* what the loop knows (LoopOK) beside what the iterators have collected.   *)
(* A second invariant, Tracks, compares with the messages as they were      *)
(* written: the iterator is always at the next of them.                     *)
(***************************************************************************)
EXTENDS HttpMessages, FiniteSetTheorems, WellFoundedInduction, TLAPS

(* A non-empty set of positions has a first one. *)
LEMMA LeastElement ==
    ASSUME NEW S \in SUBSET Nat, S # {}
    PROVE  \E m \in S : \A k \in S : m <= k
PROOF
  <1> DEFINE R == OpToRel(<, Nat)
  <1>1. \A x, y \in Nat : x < y => <<x, y>> \in R
    BY DEF OpToRel
  <1>2. IsWellFoundedOn(R, Nat)
    BY NatLessThanWellFounded
  <1> HIDE DEF R
  <1>3. PICK m \in S : \A k \in S : ~ (<<k, m>> \in R)
    BY <1>2, WFMin
  <1>4. ASSUME NEW k \in S PROVE m <= k
    <2>1. k \in Nat /\ m \in Nat /\ ~ (k < m)
      BY <1>1, <1>3
    <2> QED
      BY <2>1
  <1> QED
    BY <1>4

(* SetEnd is the position behind the last one. *)
LEMMA EndOfSet ==
    ASSUME NEW S \in SUBSET Nat, NEW m \in S, \A i \in S : i <= m
    PROVE  SetEnd(S) = m + 1
PROOF
  <1> DEFINE x == CHOOSE i \in S : \A j \in S : i >= j
  <1>1. x \in S /\ \A j \in S : x >= j
    OBVIOUS
  <1>2. SetEnd(S) = x + 1
    BY DEF SetEnd
  <1> HIDE DEF x
  <1>3. x = m
    BY <1>1
  <1> QED
    BY <1>2, <1>3

(* A non-empty set of positions with a bound has a last one. *)
LEMMA EndOfBounded ==
    ASSUME NEW bound \in Nat, NEW S \in SUBSET (0 .. bound), S # {}
    PROVE  SetEnd(S) \in Nat
PROOF
  <1> DEFINE U == {b \in Nat : \A i \in S : i <= b}
  <1>1. U \in SUBSET Nat /\ bound \in U
    OBVIOUS
  <1>2. PICK m \in U : \A k \in U : m <= k
    BY <1>1, LeastElement
  <1>3. m \in Nat /\ \A i \in S : i \in Nat /\ i <= m
    BY <1>2
  <1>4. m \in S
    <2>1. SUFFICES ASSUME m \notin S PROVE FALSE
      OBVIOUS
    <2>2. \A i \in S : i \in Nat /\ i < m
      BY <1>3, <2>1
    <2>3. PICK i \in S : i \in Nat /\ i < m
      BY <2>2
    <2>4. m - 1 \in Nat /\ \A j \in S : j <= m - 1
      BY <1>3, <2>2, <2>3
    <2>5. m - 1 \in U
      BY <2>4
    <2>6. m <= m - 1
      BY <1>2, <2>5
    <2> QED
      BY <1>3, <2>6
  <1> HIDE DEF U
  <1>5. SetEnd(S) = m + 1
    BY <1>3, <1>4, EndOfSet
  <1> QED
    BY <1>3, <1>5

(* The number of positions in a span without gaps. *)
LEMMA SizeOfSpan ==
    ASSUME NEW a \in Nat, NEW b \in Nat, a <= b
    PROVE  Cardinality(a .. b - 1) = b - a
PROOF
  <1>1. Cardinality(a .. b - 1) = IF a > b - 1 THEN 0 ELSE (b - 1) - a + 1
    BY FS_Interval
  <1> QED
    BY <1>1

(* SourceLength is the number of cells. *)
LEMMA LengthOfSource ==
    ASSUME NEW n \in Nat, DOMAIN src = 0 .. n - 1
    PROVE  SourceLength = n
  BY SizeOfSpan DEF SourceLength

(* A list of anything. *)
IsList(q) == \E T : q \in Seq(T)

LEMMA AppendToList ==
    ASSUME NEW q, IsList(q), NEW m
    PROVE  /\ IsList(Append(q, m))
           /\ Len(q) + 1 \notin DOMAIN q
           /\ DOMAIN Append(q, m) = DOMAIN q \cup {Len(q) + 1}
           /\ Append(q, m)[Len(q) + 1] = m
           /\ \A k \in DOMAIN q : Append(q, m)[k] = q[k]
PROOF
  <1>1. PICK T : q \in Seq(T)
    BY DEF IsList
  <1>2. q \in Seq(T \cup {m}) /\ m \in T \cup {m}
    BY <1>1
  <1>3. Append(q, m) \in Seq(T \cup {m})
    BY <1>2
  <1>4. /\ Len(q) \in Nat /\ DOMAIN q = 1 .. Len(q)
        /\ Len(Append(q, m)) = Len(q) + 1
        /\ Append(q, m)[Len(q) + 1] = m
        /\ \A k \in 1 .. Len(q) : Append(q, m)[k] = q[k]
    BY <1>2
  <1>5. DOMAIN Append(q, m) = 1 .. Len(q) + 1
    BY <1>3, <1>4
  <1> QED
    BY <1>3, <1>4, <1>5 DEF IsList

-------------------------------------------------------------------------------
(* What a loop that was entered at start knows: what it recorded lies       *)
(* behind start and before pos, trailers come last, and when the loop       *)
(* succeeds the message ends inside the source and behind all of it, with a *)
(* line break behind the last boundary.                                     *)
Complete(start) ==
    /\ ChunkedEnd \in start + 1 .. SourceLength
    /\ content \cup structure \subseteq start .. ChunkedEnd - 1
    /\ SetEnd(structure) \in Nat /\ SetEnd(structure) + 2 <= ChunkedEnd

LoopOK(start) ==
    /\ pos \in Nat /\ start <= pos
    /\ content \cap structure = {}
    /\ content \cup structure \subseteq start .. pos - 1
    /\ outcome # "Parsed" => trailer = {}
    /\ outcome = "Parsed" => Complete(start)

(* What is left of that when a sum has wrapped: everything is a position,   *)
(* and a trailer section ends in the source.                                *)
LoopBounds ==
    /\ pos \in Nat
    /\ content \subseteq 0 .. MaxUsize
    /\ structure \subseteq 0 .. SourceLength + 1
    /\ outcome # "Parsed" => trailer = {}
    /\ outcome = "Parsed" =>
          ChunkedEnd \in Nat /\ (trailer # {} => ChunkedEnd <= SourceLength)

ChunksOK ==
    phase = "Chunks" =>
        /\ at \in DOMAIN heads /\ LoopBounds
        /\ sums # "Wrapped" => LoopOK(heads[at].end)

ParsedLists ==
    /\ parsed = [s \in {"Sent", "Received"} |-> parsed[s]]
    /\ \A s \in {"Sent", "Received"} : IsList(parsed[s])

(* The spans of a list of messages tile S. *)
Tiled(q, S) ==
    /\ UNION {q[k].span : k \in DOMAIN q} = S
    /\ \A k, l \in DOMAIN q : k # l => q[k].span \cap q[l].span = {}

LEMMA TiledSpans == SpansTile <=> \A s \in DOMAIN parsed : Tiled(parsed[s], Consumed(s))
  BY DEF SpansTile, Tiled

(* A message behind all others is one more tile. *)
LEMMA TiledAppend ==
    ASSUME NEW q, IsList(q), NEW S, Tiled(q, S), NEW m, S \cap m.span = {}
    PROVE  Tiled(Append(q, m), S \cup m.span)
PROOF
  <1> DEFINE n == Len(q) + 1
             r == Append(q, m)
  <1>1. /\ n \notin DOMAIN q
        /\ DOMAIN r = DOMAIN q \cup {n}
        /\ r[n] = m
        /\ \A k \in DOMAIN q : r[k] = q[k]
    BY AppendToList
  <1> HIDE DEF n, r
  <1>2. UNION {r[k].span : k \in DOMAIN r} = (UNION {q[k].span : k \in DOMAIN q}) \cup m.span
    <2>1. {r[k].span : k \in DOMAIN r} = {q[k].span : k \in DOMAIN q} \cup {m.span}
      BY <1>1
    <2> QED
      BY <2>1
  <1>3. \A k \in DOMAIN q : q[k].span \subseteq S
    BY DEF Tiled
  <1>4. \A k \in DOMAIN q : q[k].span \cap m.span = {}
    BY <1>3
  <1>5. \A k, l \in DOMAIN r : k # l => r[k].span \cap r[l].span = {}
    <2> SUFFICES ASSUME NEW k \in DOMAIN r, NEW l \in DOMAIN r, k # l
                 PROVE  r[k].span \cap r[l].span = {}
      OBVIOUS
    <2>1. CASE k = n
      BY <1>1, <1>4, <2>1
    <2>2. CASE l = n
      BY <1>1, <1>4, <2>2
    <2>3. CASE k # n /\ l # n
      BY <1>1, <2>3 DEF Tiled
    <2> QED
      BY <2>1, <2>2, <2>3
  <1>6. Tiled(r, S \cup m.span)
    BY <1>2, <1>5 DEF Tiled
  <1> QED
    BY <1>6 DEF r

(* SpansTile is inductive with the knowledge of the loop, and PartsApart of *)
(* what it is when a message is made.  When a sum wraps, PartsApart and     *)
(* LoopOK have nothing more to say, and the rest goes on to hold.           *)
IInv ==
    /\ transcript \in Transcripts
    /\ TypeOK
    /\ ParsedLists
    /\ SpansTile
    /\ PartsApart
    /\ ChunksOK

(* Both sides of a transcript are sources. *)
LEMMA SourceFacts ==
    ASSUME transcript \in Transcripts, NEW s \in {"Sent", "Received"}, src = transcript[s].cells
    PROVE  /\ SourceLength \in 0 .. MaxUsize
           /\ DOMAIN src = 0 .. SourceLength - 1
           /\ \A o \in DOMAIN transcript[s].heads :
                 /\ o \in 0 .. SourceLength
                 /\ transcript[s].heads[o].end \in 0 .. SourceLength
                 /\ HeadInOrder(o, transcript[s].heads[o])
PROOF
  <1>1. s \in DOMAIN transcript
    BY TranscriptsAssumption
  <1>2. PICK n \in 0 .. MaxUsize :
          /\ DOMAIN transcript[s].cells = 0 .. n - 1
          /\ \A o \in DOMAIN transcript[s].heads :
                /\ o \in 0 .. n /\ transcript[s].heads[o].end \in 0 .. n
                /\ HeadInOrder(o, transcript[s].heads[o])
    BY <1>1, TranscriptsAssumption
  <1>3. SourceLength = n
    BY <1>2, LengthOfSource, UsizeAssumption
  <1> QED
    BY <1>2, <1>3

(* The same of the side that is parsed. *)
LEMMA SideFacts ==
    ASSUME transcript \in Transcripts, TypeOK
    PROVE  /\ side \in {"Sent", "Received"}
           /\ SourceLength \in Nat /\ SourceLength <= MaxUsize
           /\ DOMAIN src = 0 .. SourceLength - 1
           /\ at \in Nat /\ at <= SourceLength
           /\ \A o \in DOMAIN heads :
                 /\ o \in Nat /\ heads[o].end \in Nat
                 /\ o < heads[o].end /\ heads[o].end <= SourceLength
                 /\ HeadInOrder(o, heads[o])
PROOF
  <1>1. side \in {"Sent", "Received"} /\ src = transcript[side].cells
    BY TranscriptsAssumption DEF TypeOK
  <1>2. /\ SourceLength \in 0 .. MaxUsize
        /\ DOMAIN src = 0 .. SourceLength - 1
        /\ \A o \in DOMAIN heads :
              /\ o \in 0 .. SourceLength /\ heads[o].end \in 0 .. SourceLength
              /\ HeadInOrder(o, heads[o])
    BY <1>1, SourceFacts DEF heads
  <1>3. \A o \in DOMAIN heads : o < heads[o].end
    BY <1>2 DEF HeadInOrder
  <1> QED
    BY <1>1, <1>2, <1>3, UsizeAssumption DEF TypeOK

(* What is parsed does not look at the state of the loop. *)
LEMMA SameTranscript ==
    ASSUME transcript' = transcript, side' = side, src' = src
    PROVE  /\ heads' = heads /\ SourceLength' = SourceLength
           /\ \A s : CrLfLines(transcript[s])' <=> CrLfLines(transcript[s])
  BY DEF heads, SourceLength, CrLfLines

-------------------------------------------------------------------------------
(* The initial states: nothing is consumed. *)
LEMMA InitInvariant == Init => IInv
PROOF
  <1> SUFFICES ASSUME Init PROVE IInv
    OBVIOUS
  <1>1. /\ transcript \in Transcripts /\ side = "Sent" /\ src = transcript["Sent"].cells
        /\ at = 0 /\ phase = "Idle" /\ outcome = "Reading"
        /\ parsed = [s \in {"Sent", "Received"} |-> << >>]
        /\ sums \in {"Checked", "Unchecked"}
    BY BuildsAssumption DEF Init
  <1>2. DOMAIN transcript = {"Sent", "Received"}
    BY <1>1, TranscriptsAssumption
  <1>3. SourceLength \in Nat
    BY <1>1, SourceFacts, UsizeAssumption
  <1>4. TypeOK
    BY <1>1, <1>2, <1>3 DEF TypeOK
  <1>5. \A s \in {"Sent", "Received"} : IsList(parsed[s])
    <2>1. << >> \in Seq({})
      OBVIOUS
    <2> QED
      BY <1>1, <2>1 DEF IsList
  <1>6. ParsedLists
    BY <1>1, <1>5 DEF ParsedLists
  <1>7. SpansTile
    BY <1>1 DEF SpansTile, Consumed
  <1>8. PartsApart /\ ChunksOK
    BY <1>1 DEF PartsApart, ChunksOK
  <1> QED
    BY <1>1, <1>4, <1>6, <1>7, <1>8 DEF IInv

(* A sum that has wrapped stays so. *)
SumsGoOn == sums' = sums \/ sums' = "Wrapped"

LEMMA SumsStep == [Next]_vars => SumsGoOn
PROOF
  <1> SUFFICES ASSUME [Next]_vars PROVE SumsGoOn
    OBVIOUS
  <1>1. CASE ReadChunk
    <2>1. Iterate
      BY <1>1 DEF ReadChunk
    <2>2. ASSUME NEW last, ChunkWraps(last) PROVE SumsGoOn
      BY <2>2 DEF ChunkWraps, SumsGoOn
    <2>3. ASSUME NEW last, \/ BadSize(last) \/ Chunk(last) \/ ChunkOverflows(last)
                           \/ LastChunkPanics(last) \/ LastChunk(last)
                           \/ LastChunkWithTrailer(last) \/ MissingTrailerEnd(last)
          PROVE  SumsGoOn
      BY <2>3 DEF BadSize, Chunk, ChunkOverflows, LastChunkPanics, LastChunk,
                  LastChunkWithTrailer, MissingTrailerEnd, Ends, SumsGoOn
    <2> QED
      BY <2>1, <2>2, <2>3 DEF Iterate, SlicePanics, Ends, SumsGoOn
  <1>2. CASE \/ ParseRequest \/ ParseResponse \/ LengthWraps \/ StartChunks \/ FinishChunked
             \/ SentCollected \/ ReceivedCollected \/ UNCHANGED vars
    BY <1>2 DEF ParseRequest, ParseResponse, LengthWraps, StartChunks, Enter, FinishChunked,
                SentCollected, ReceivedCollected, vars, loopVars, SumsGoOn
  <1> QED
    BY <1>1, <1>2 DEF Next

(* The end of the collection changes nothing that was collected. *)
LEMMA StopAnyKeeps ==
    ASSUME IInv, NEW how \in {"Ok", "Err", "Panicked"}, Stop(how),
           UNCHANGED <<src, transcript, side, outcome>>, SumsGoOn
    PROVE  IInv'
PROOF
  <1>1. /\ phase' = how /\ at' = at /\ parsed' = parsed /\ src' = src
        /\ transcript' = transcript /\ side' = side /\ outcome' = outcome
        /\ sums' = sums \/ sums' = "Wrapped"
    BY DEF Stop, SumsGoOn
  <1>2. SourceLength' = SourceLength /\ \A s : CrLfLines(transcript[s])' <=> CrLfLines(transcript[s])
    BY <1>1, SameTranscript
  <1>3. TypeOK'
    BY <1>1, <1>2 DEF IInv, TypeOK
  <1>4. ParsedLists' /\ SpansTile'
    <2>1. \A s : Consumed(s)' = Consumed(s)
      BY <1>1 DEF Consumed
    <2>2. \A s \in DOMAIN parsed' : Tiled(parsed'[s], Consumed(s)')
      BY <1>1, <2>1, TiledSpans DEF IInv
    <2> QED
      BY <1>1, <2>2 DEF IInv, ParsedLists, SpansTile, Tiled
  <1>5. PartsApart'
    BY <1>1, <1>2 DEF IInv, PartsApart
  <1>6. ChunksOK'
    BY <1>1 DEF ChunksOK
  <1> QED
    BY <1>1, <1>3, <1>4, <1>5, <1>6 DEF IInv

LEMMA StopKeeps ==
    ASSUME IInv, NEW how \in {"Ok", "Err", "Panicked"}, Stop(how),
           UNCHANGED <<src, transcript, side, loopVars>>
    PROVE  IInv'
  BY StopAnyKeeps DEF loopVars, SumsGoOn

(* A message that is yielded begins where the one before it ended. *)
LEMMA YieldKeeps ==
    ASSUME IInv, NEW m, NEW e \in Nat, at <= e, e <= SourceLength, m.span = at .. e - 1,
           sums' # "Wrapped" /\ CrLfLines(transcript[side]) => MessageApart(m),
           Yield(m), UNCHANGED <<src, transcript, side, outcome>>, SumsGoOn
    PROVE  IInv'
PROOF
  <1>1. /\ phase' = "Idle" /\ src' = src
        /\ transcript' = transcript /\ side' = side /\ outcome' = outcome
        /\ parsed' = [parsed EXCEPT ![side] = Append(@, m)]
        /\ sums' = sums \/ sums' = "Wrapped"
    BY DEF Yield, SumsGoOn
  <1>2. SourceLength' = SourceLength /\ \A s : CrLfLines(transcript[s])' <=> CrLfLines(transcript[s])
    BY <1>1, SameTranscript
  <1>3. /\ side \in {"Sent", "Received"} /\ SourceLength \in Nat /\ at \in Nat
        /\ DOMAIN src = 0 .. SourceLength - 1
    BY SideFacts DEF IInv
  <1>4. at' = e
    BY <1>3, SizeOfSpan DEF Yield
  <1>5. /\ parsed' = [s \in {"Sent", "Received"} |-> parsed'[s]]
        /\ parsed'[side] = Append(parsed[side], m)
        /\ \A s \in {"Sent", "Received"} \ {side} : parsed'[s] = parsed[s]
    BY <1>1, <1>3 DEF IInv, ParsedLists
  <1> DEFINE n == Len(parsed[side]) + 1
  <1>6. /\ IsList(parsed'[side])
        /\ n \notin DOMAIN parsed[side]
        /\ DOMAIN parsed'[side] = DOMAIN parsed[side] \cup {n}
        /\ parsed'[side][n] = m
        /\ \A k \in DOMAIN parsed[side] : parsed'[side][k] = parsed[side][k]
    BY <1>3, <1>5, AppendToList DEF IInv, ParsedLists
  <1> HIDE DEF n
  <1>7. DOMAIN parsed = {"Sent", "Received"} /\ DOMAIN parsed' = {"Sent", "Received"}
    BY <1>5 DEF IInv, ParsedLists
  <1>8. TypeOK'
    <2>1. m.span \subseteq DOMAIN src /\ src = transcript[side].cells
      BY <1>3 DEF IInv, TypeOK
    <2>2. \A s \in DOMAIN parsed' : \A k \in DOMAIN parsed'[s] :
            parsed'[s][k].span \subseteq DOMAIN transcript[s].cells
      BY <1>5, <1>6, <1>7, <2>1, ZenonT(40) DEF IInv, TypeOK
    <2> QED
      BY <1>1, <1>2, <1>3, <1>4, <2>2 DEF IInv, TypeOK
  <1>9. ParsedLists'
    BY <1>5, <1>6 DEF IInv, ParsedLists
  <1>10. SpansTile'
    <2>1. Consumed(side) = 0 .. at - 1 /\ Consumed(side)' = 0 .. e - 1
      BY <1>1, <1>4 DEF Consumed
    <2>2. \A s \in {"Sent", "Received"} \ {side} : Consumed(s)' = Consumed(s)
      BY <1>1 DEF Consumed
    <2>3. Tiled(parsed[side], 0 .. at - 1)
      BY <1>3, <1>7, <2>1, TiledSpans DEF IInv
    <2>4. (0 .. at - 1) \cap m.span = {} /\ (0 .. at - 1) \cup m.span = 0 .. e - 1
      BY <1>3
    <2>7. Tiled(Append(parsed[side], m), (0 .. at - 1) \cup m.span)
      BY <1>3, <2>3, <2>4, TiledAppend DEF IInv, ParsedLists
    <2>5. Tiled(parsed'[side], Consumed(side)')
      BY <1>5, <2>1, <2>4, <2>7
    <2>6. \A s \in DOMAIN parsed' : Tiled(parsed'[s], Consumed(s)')
      BY <1>5, <1>7, <2>2, <2>5, TiledSpans DEF IInv
    <2> QED
      BY <2>6 DEF SpansTile, Tiled
  <1>11. PartsApart'
    <2>1. CASE sums' = "Wrapped"
      BY <2>1 DEF PartsApart
    <2>2. CASE sums' # "Wrapped"
      <3>1. sums # "Wrapped"
        BY <1>1, <2>2
      <3> QED
        BY <1>1, <1>2, <1>5, <1>6, <1>7, <2>2, <3>1 DEF IInv, PartsApart
    <2> QED
      BY <2>1, <2>2
  <1>12. ChunksOK'
    BY <1>1 DEF ChunksOK
  <1> QED
    BY <1>1, <1>8, <1>9, <1>10, <1>11, <1>12 DEF IInv

-------------------------------------------------------------------------------
(* The fields of a message. *)
LEMMA MessageFields ==
    ASSUME NEW head, NEW span, NEW body, NEW boundaries
    PROVE  LET m == Message(head, span, body, boundaries)
           IN  /\ m.span = span /\ m.target = head.target
               /\ m.body = body /\ m.boundaries = boundaries
               /\ DOMAIN m.headers = DOMAIN head.headers
               /\ \A k \in DOMAIN head.headers :
                     /\ m.headers[k].span = head.headers[k].first .. FirstCrLf(head.headers[k].end) + 1
                     /\ m.headers[k].value = head.headers[k].start .. head.headers[k].end - 1
  BY DEF Message, Headers, FromHeader

(* A line break that is there is found, or one in front of it. *)
LEMMA FirstCrLfFound ==
    ASSUME NEW first \in Nat, NEW i \in Nat, first <= i, CrLfAt(i),
           SourceLength \in Nat, DOMAIN src = 0 .. SourceLength - 1
    PROVE  FirstCrLf(first) \in first .. i
PROOF
  <1> DEFINE S == {j \in first .. SourceLength : CrLfAt(j)}
  <1>1. i \in S
    BY DEF CrLfAt, CrLfIn
  <1>2. S \in SUBSET Nat /\ S # {}
    BY <1>1
  <1>3. PICK m \in S : \A k \in S : m <= k
    BY <1>2, LeastElement
  <1>4. m \in first .. SourceLength /\ CrLfAt(m) /\ \A j \in first .. m - 1 : ~ CrLfAt(j)
    BY <1>3
  <1> DEFINE f == FirstCrLf(first)
  <1>5. f \in first .. SourceLength /\ \A j \in first .. f - 1 : ~ CrLfAt(j)
    BY <1>4 DEF FirstCrLf
  <1> HIDE DEF f
  <1>6. f <= i
    BY <1>5
  <1> QED
    BY <1>5, <1>6 DEF f

(* Parts in the order of a message do not meet. *)
LEMMA OrderedPartsApart ==
    ASSUME NEW m, NEW a \in Nat, NEW b \in Nat, NEW e \in Nat, a < b, b <= e,
           NEW first, NEW last,
           m.span = a .. e - 1, m.target \subseteq a .. b - 1,
           m.body \subseteq b .. e - 1, m.boundaries \subseteq b .. e - 1,
           m.body \cap m.boundaries = {},
           \A k \in DOMAIN m.headers :
              /\ k \in Nat /\ first[k] \in Nat /\ last[k] \in Nat
              /\ a <= first[k] /\ last[k] + 1 < b
              /\ \A i \in m.target : i < first[k]
              /\ m.headers[k].span = first[k] .. last[k] + 1
              /\ m.headers[k].value \subseteq first[k] .. last[k] + 1
              /\ \A j \in DOMAIN m.headers : k < j => last[k] + 1 < first[j]
    PROVE  MessageApart(m)
PROOF
  <1>1. /\ m.target \cup m.body \cup m.boundaries \subseteq m.span
        /\ m.body \cap m.boundaries = {} /\ m.target \cap m.boundaries = {}
        /\ m.target \cap m.body = {}
    OBVIOUS
  <1>2. ASSUME NEW k \in DOMAIN m.headers
        PROVE  /\ m.headers[k].span \subseteq m.span
               /\ m.headers[k].value \subseteq m.headers[k].span
               /\ m.headers[k].span \cap (m.target \cup m.body \cup m.boundaries) = {}
    <2>1. m.headers[k].span \subseteq a .. b - 1
      BY SMTT(30)
    <2>2. m.headers[k].span \cap m.target = {}
      <3>1. /\ first[k] \in Nat /\ last[k] \in Nat /\ m.headers[k].span = first[k] .. last[k] + 1
            /\ \A i \in m.target : i < first[k]
        BY <1>2
      <3>2. \A i \in m.headers[k].span : i \in Nat /\ i >= first[k]
        BY ONLY <3>1
      <3>3. \A i \in m.target : ~(i >= first[k])
        <4>1. m.target \subseteq Nat
          OBVIOUS
        <4> QED
          BY ONLY <3>1, <4>1
      <3> QED
        BY ONLY <3>2, <3>3
    <2>3. (a .. b - 1) \cap (b .. e - 1) = {}
      OBVIOUS
    <2> QED
      BY <2>1, <2>2, <2>3
  <1>3. ASSUME NEW k \in DOMAIN m.headers, NEW i \in DOMAIN m.headers, k < i
        PROVE  m.headers[i].span \cap m.headers[k].span = {}
    <2>1. /\ last[k] + 1 < first[i] /\ first[i] \in Nat /\ last[k] \in Nat
          /\ m.headers[i].span = first[i] .. last[i] + 1
          /\ m.headers[k].span = first[k] .. last[k] + 1
      BY <1>3
    <2> QED
      BY <2>1
  <1>4. ASSUME NEW k \in DOMAIN m.headers, NEW i \in DOMAIN m.headers \ {k}
        PROVE  m.headers[i].span \cap m.headers[k].span = {}
    <2>1. k < i \/ i < k
      BY <1>4
    <2> QED
      BY <1>3, <2>1
  <1> QED
    BY <1>1, <1>2, <1>4 DEF MessageApart

(* A header whose line break is in the head. *)
LEMMA HeaderInHead ==
    ASSUME transcript \in Transcripts, TypeOK, at \in DOMAIN heads, CrLfLines(transcript[side]),
           NEW k \in DOMAIN heads[at].headers
    PROVE  LET head == heads[at]
               h == head.headers[k]
               last == FirstCrLf(h.end)
           IN  /\ h.first \in Nat /\ h.start \in Nat /\ h.end \in Nat /\ last \in Nat
               /\ at <= h.first /\ h.first <= h.start /\ h.start <= h.end
               /\ h.end <= last /\ last + 1 < head.end
               /\ \A i \in head.target : i < h.first
               /\ \A j \in DOMAIN head.headers : k < j => last + 1 < head.headers[j].first
PROOF
  <1> DEFINE head == heads[at]
             h == head.headers[k]
             last == FirstCrLf(h.end)
  <1>1. /\ SourceLength \in Nat /\ DOMAIN src = 0 .. SourceLength - 1
        /\ at \in Nat /\ head.end \in Nat /\ head.end <= SourceLength
        /\ HeadInOrder(at, head)
    BY SideFacts
  <1>2. src = transcript[side].cells /\ head = transcript[side].heads[at]
        /\ at \in DOMAIN transcript[side].heads
    BY DEF TypeOK, heads
  <1> HIDE DEF head
  <1>3. k \in DOMAIN head.headers
    BY DEF head
  <1>4. /\ h.first \in at .. head.end /\ h.start \in h.first .. head.end
        /\ h.end \in h.start .. head.end
        /\ \A i \in head.target : i < h.first
        /\ \A j \in DOMAIN head.headers : head.headers[j].first \in at .. head.end
    BY <1>1, <1>3 DEF HeadInOrder
  <1>5. PICK i \in h.end .. head.end - 2 :
          /\ src[i] = CR /\ src[i + 1] = LF
          /\ \A j \in DOMAIN head.headers : k < j => i + 1 < head.headers[j].first
    BY <1>2, <1>3 DEF CrLfLines
  <1>6. /\ h.first \in Nat /\ h.start \in Nat /\ h.end \in Nat /\ i \in Nat
        /\ at <= h.first /\ h.first <= h.start /\ h.start <= h.end /\ h.end <= i
        /\ i + 1 < head.end
    <2>1. h.first \in Nat /\ at <= h.first
      BY <1>1, <1>4
    <2>2. h.start \in Nat /\ h.first <= h.start
      BY <1>1, <1>4, <2>1
    <2>3. h.end \in Nat /\ h.start <= h.end
      BY <1>1, <1>4, <2>2
    <2> QED
      BY <1>1, <1>5, <2>1, <2>2, <2>3
  <1>7. CrLfAt(i)
    BY <1>1, <1>5, <1>6 DEF CrLfAt, CrLfIn
  <1>8. last \in h.end .. i
    BY <1>1, <1>6, <1>7, FirstCrLfFound
  <1>9. last \in Nat /\ h.end <= last /\ last <= i
    BY <1>6, <1>8
  <1> HIDE DEF last, h
  <1>10. \A j \in DOMAIN head.headers : k < j => last + 1 < head.headers[j].first
    BY <1>1, <1>4, <1>5, <1>6, <1>9, SMTT(30)
  <1> QED
    BY <1>1, <1>4, <1>6, <1>9, <1>10 DEF h, last, head

(* The parts of a message of which the head is in order, whatever lies      *)
(* behind the head.                                                         *)
LEMMA PartsOfMessage ==
    ASSUME transcript \in Transcripts, TypeOK, at \in DOMAIN heads, CrLfLines(transcript[side]),
           NEW e \in Nat, heads[at].end <= e,
           NEW body \in SUBSET (heads[at].end .. e - 1),
           NEW boundaries \in SUBSET (heads[at].end .. e - 1),
           body \cap boundaries = {}
    PROVE  MessageApart(Message(heads[at], at .. e - 1, body, boundaries))
PROOF
  <1> DEFINE head == heads[at]
             m == Message(head, at .. e - 1, body, boundaries)
             first == [k \in DOMAIN head.headers |-> head.headers[k].first]
             last == [k \in DOMAIN head.headers |-> FirstCrLf(head.headers[k].end)]
  <1>1. /\ at \in Nat /\ head.end \in Nat /\ at < head.end
        /\ HeadInOrder(at, head)
    BY SideFacts
  <1>2. head.target \subseteq at .. head.end - 1 /\ DOMAIN head.headers \subseteq Nat
    BY <1>1 DEF HeadInOrder
  <1>3. /\ m.span = at .. e - 1 /\ m.target = head.target
        /\ m.body = body /\ m.boundaries = boundaries
        /\ DOMAIN m.headers = DOMAIN head.headers
        /\ \A k \in DOMAIN head.headers :
              /\ m.headers[k].span = first[k] .. last[k] + 1
              /\ m.headers[k].value = head.headers[k].start .. head.headers[k].end - 1
    BY MessageFields
  <1>4. \A k \in DOMAIN head.headers :
          /\ first[k] \in Nat /\ head.headers[k].start \in Nat /\ head.headers[k].end \in Nat
          /\ last[k] \in Nat
          /\ at <= first[k] /\ first[k] <= head.headers[k].start
          /\ head.headers[k].end <= last[k] /\ last[k] + 1 < head.end
          /\ \A i \in head.target : i < first[k]
          /\ \A j \in DOMAIN head.headers : k < j => last[k] + 1 < first[j]
    BY HeaderInHead
  <1> HIDE DEF head, m, first, last
  <1>5. \A k \in DOMAIN m.headers :
          /\ k \in Nat /\ first[k] \in Nat /\ last[k] \in Nat
          /\ at <= first[k] /\ last[k] + 1 < head.end
          /\ \A i \in m.target : i < first[k]
          /\ m.headers[k].span = first[k] .. last[k] + 1
          /\ m.headers[k].value \subseteq first[k] .. last[k] + 1
          /\ \A j \in DOMAIN m.headers : k < j => last[k] + 1 < first[j]
    <2> SUFFICES ASSUME NEW k \in DOMAIN head.headers
                 PROVE  /\ k \in Nat /\ first[k] \in Nat /\ last[k] \in Nat
                        /\ at <= first[k] /\ last[k] + 1 < head.end
                        /\ \A i \in head.target : i < first[k]
                        /\ m.headers[k].span = first[k] .. last[k] + 1
                        /\ m.headers[k].value \subseteq first[k] .. last[k] + 1
                        /\ \A j \in DOMAIN head.headers : k < j => last[k] + 1 < first[j]
      BY <1>3
    <2> DEFINE start == head.headers[k].start
               end == head.headers[k].end
    <2>1. /\ first[k] \in Nat /\ last[k] \in Nat /\ start \in Nat /\ end \in Nat
          /\ first[k] <= start /\ end <= last[k]
      BY <1>4
    <2>2. m.headers[k].value = start .. end - 1
      BY <1>3
    <2> HIDE DEF start, end
    <2>3. m.headers[k].value \subseteq first[k] .. last[k] + 1
      BY <2>1, <2>2
    <2> QED
      BY <1>2, <1>3, <1>4, <2>3
  <1>6. body \subseteq head.end .. e - 1 /\ boundaries \subseteq head.end .. e - 1 /\ head.end <= e
    BY DEF head
  <1>7. /\ m.span = at .. e - 1 /\ m.target \subseteq at .. head.end - 1
        /\ m.body \subseteq head.end .. e - 1 /\ m.boundaries \subseteq head.end .. e - 1
        /\ m.body \cap m.boundaries = {}
    BY <1>2, <1>3, <1>6
  <1>8. at \in Nat /\ head.end \in Nat /\ at < head.end /\ head.end <= e
    BY <1>1, <1>6
  <1>9. MessageApart(m)
    BY <1>5, <1>7, <1>8, OrderedPartsApart, ZenonT(40)
  <1> QED
    BY <1>9 DEF m, head

(* A message that begins with the head found here and ends in the source    *)
(* may be yielded.                                                          *)
LEMMA MessageKeeps ==
    ASSUME IInv, at \in DOMAIN heads,
           NEW e \in Nat, heads[at].end <= e, e <= SourceLength,
           NEW body \in SUBSET (heads[at].end .. e - 1),
           NEW boundaries \in SUBSET (heads[at].end .. e - 1),
           body \cap boundaries = {},
           Yield(Message(heads[at], at .. e - 1, body, boundaries)),
           UNCHANGED <<src, transcript, side, loopVars>>
    PROVE  IInv'
PROOF
  <1> DEFINE m == Message(heads[at], at .. e - 1, body, boundaries)
  <1>1. transcript \in Transcripts /\ TypeOK
    BY DEF IInv
  <1>2. at \in Nat /\ heads[at].end \in Nat /\ at < heads[at].end
    BY <1>1, SideFacts
  <1>3. at < e
    BY <1>2
  <1>4. m.span = at .. e - 1
    BY MessageFields
  <1>5. CrLfLines(transcript[side]) => MessageApart(m)
    BY <1>1, PartsOfMessage
  <1>6. Yield(m)
    OBVIOUS
  <1>7. outcome' = outcome /\ SumsGoOn
    BY DEF loopVars, SumsGoOn
  <1> HIDE DEF m
  <1> QED
    BY <1>2, <1>3, <1>4, <1>5, <1>6, <1>7, YieldKeeps

(* A message without a body. *)
LEMMA NoBodyKeeps ==
    ASSUME IInv, at \in DOMAIN heads, NoBody(heads[at]),
           UNCHANGED <<src, transcript, side, loopVars>>
    PROVE  IInv'
PROOF
  <1>1. heads[at].end \in Nat /\ heads[at].end <= SourceLength
    BY SideFacts DEF IInv
  <1> QED
    BY <1>1, MessageKeeps DEF NoBody

(* A body given by its length. *)
LEMMA SizedKeeps ==
    ASSUME IInv, at \in DOMAIN heads, NEW length \in 0 .. MaxUsize, Sized(heads[at], length),
           UNCHANGED <<src, transcript, side, loopVars>>
    PROVE  IInv'
PROOF
  <1>0. \/ NoBody(heads[at])
        \/ Stop("Panicked")
        \/ Stop("Err")
        \/ /\ heads[at].end + length <= SourceLength
           /\ Yield(Message(heads[at], at .. heads[at].end + length - 1,
                            heads[at].end .. heads[at].end + length - 1, {}))
    BY Zenon DEF Sized
  <1>1. heads[at].end \in Nat /\ SourceLength \in Nat /\ length \in Nat
    BY SideFacts, UsizeAssumption DEF IInv
  <1>2. CASE NoBody(heads[at])
    BY <1>2, NoBodyKeeps
  <1>3. CASE Stop("Panicked") \/ Stop("Err")
    BY <1>3, StopKeeps
  <1>4. CASE /\ heads[at].end + length <= SourceLength
             /\ Yield(Message(heads[at], at .. heads[at].end + length - 1,
                              heads[at].end .. heads[at].end + length - 1, {}))
    <2>1. heads[at].end + length - 1 = (heads[at].end + length) - 1
      BY <1>1
    <2>2. PICK e : e = heads[at].end + length
      OBVIOUS
    <2>3. PICK body : body = heads[at].end .. e - 1
      OBVIOUS
    <2>4. Yield(Message(heads[at], at .. e - 1, body, {}))
      BY <1>4, <2>1, <2>2, <2>3, Zenon DEF Yield
    <2>5. e \in Nat /\ heads[at].end <= e /\ e <= SourceLength
      BY <1>1, <1>4, <2>2
    <2>6. body \in SUBSET (heads[at].end .. e - 1) /\ {} \in SUBSET (heads[at].end .. e - 1)
          /\ body \cap {} = {}
      BY <2>3
    <2> QED
      BY <2>4, <2>5, <2>6, MessageKeeps
  <1> QED
    BY <1>0, <1>2, <1>3, <1>4

LEMMA SizedByKeeps ==
    ASSUME IInv, at \in DOMAIN heads, NEW text, SizedBy(heads[at], text),
           UNCHANGED <<src, transcript, side, loopVars>>
    PROVE  IInv'
PROOF
  <1>1. CASE Stop("Err")
    BY <1>1, StopKeeps
  <1>2. CASE text \in DOMAIN LengthValue /\ Sized(heads[at], LengthValue[text])
    BY <1>2, LengthAssumption, SizedKeeps
  <1> QED
    BY <1>1, <1>2 DEF SizedBy

-------------------------------------------------------------------------------
(* A sum of two lengths wraps once. *)
LEMMA DivMod ==
    \A n \in Nat, m \in Nat \ {0} :
        /\ n = m * (n \div m) + (n % m)
        /\ n \div m \in Nat /\ n % m \in 0 .. m - 1
  OBVIOUS

LEMMA TwiceOrMore == \A d \in Nat, m \in Nat : d >= 2 => m * d >= m + m
  OBVIOUS

LEMMA WrapsOnce ==
    ASSUME NEW n \in Nat, NEW m \in Nat, m > 0, m <= n, n - m < m
    PROVE  n % m = n - m
PROOF
  <1>1. PICK d \in Nat : d = n \div m
    BY DivMod
  <1>2. PICK r \in Nat : r = n % m /\ r < m
    BY DivMod
  <1>3. n = m * d + r
    BY <1>1, <1>2, DivMod
  <1>4. CASE d = 0
    <2>1. m * d = 0
      BY <1>4
    <2> QED
      BY <2>1, <1>3, <1>2
  <1>5. CASE d = 1
    <2>1. m * d = m
      BY <1>5
    <2> QED
      BY <2>1, <1>3, <1>2
  <1>6. CASE d >= 2
    <2>1. PICK x \in Nat : x = m * d
      OBVIOUS
    <2>2. x >= m + m
      BY <1>6, <2>1, TwiceOrMore
    <2> QED
      BY <2>1, <2>2, <1>3, <1>2
  <1> QED
    BY <1>4, <1>5, <1>6

(* A head is only there where httparse finds one. *)
LEMMA HeadIsHere == \A head \in HeadHere : at \in DOMAIN heads /\ head = heads[at]
  BY DEF HeadHere

(* A length that wraps leaves a message that ends in front of its body. *)
LEMMA LengthWrapsKeeps == IInv /\ LengthWraps => IInv'
PROOF
  <1> SUFFICES ASSUME IInv, LengthWraps PROVE IInv'
    OBVIOUS
  <1>1. PICK head \in HeadHere : \E text \in TooLong(head) :
           WrappedBody(head, (head.end + LengthValue[text]) % (MaxUsize + 1))
    BY DEF LengthWraps, GoodHead
  <1>2. PICK text \in DOMAIN LengthValue :
           /\ head.end + LengthValue[text] > MaxUsize
           /\ WrappedBody(head, (head.end + LengthValue[text]) % (MaxUsize + 1))
    BY <1>1 DEF TooLong
  <1>3. UNCHANGED <<src, transcript, side, outcome>> /\ SumsGoOn /\ sums' = "Wrapped"
    BY DEF LengthWraps, SumsGoOn
  <1>4. /\ at \in DOMAIN heads /\ head = heads[at]
        /\ at \in Nat /\ head.end \in Nat /\ at < head.end
        /\ head.end <= SourceLength /\ SourceLength \in Nat /\ SourceLength <= MaxUsize
    BY HeadIsHere, SideFacts DEF IInv
  <1>5. PICK length \in Nat : length = LengthValue[text] /\ length <= MaxUsize
    BY LengthAssumption, UsizeAssumption
  <1>6. PICK end \in Nat : end = (head.end + length) % (MaxUsize + 1) /\ end < head.end
    <2>1. PICK m \in Nat : m = MaxUsize + 1 /\ m > 0
      BY UsizeAssumption
    <2>2. PICK n \in Nat : n = head.end + length /\ n >= m /\ n - m < head.end
      BY <1>2, <1>4, <1>5, <2>1, UsizeAssumption
    <2>3. n - m \in Nat /\ n - m < m /\ n = m + (n - m)
      BY <1>4, <1>5, <2>1, <2>2, UsizeAssumption
    <2>4. n % m = n - m
      BY <2>1, <2>2, <2>3, WrapsOnce
    <2> QED
      BY <2>1, <2>2, <2>3, <2>4
  <1>7. CASE Stop("Err") \/ Stop("Panicked")
    BY <1>3, <1>7, StopAnyKeeps
  <1>8. ASSUME NEW e \in Nat, at <= e, e <= head.end, Yield(Message(head, at .. e - 1, {}, {}))
        PROVE  IInv'
    <2> DEFINE m == Message(head, at .. e - 1, {}, {})
    <2>1. m.span = at .. e - 1 /\ Yield(m)
      BY <1>8, MessageFields
    <2> HIDE DEF m
    <2>2. e <= SourceLength
      BY <1>4, <1>8
    <2> QED
      BY <1>3, <1>8, <2>1, <2>2, YieldKeeps
  <1>9. \/ Stop("Err") \/ Stop("Panicked") \/ Yield(Message(head, at .. head.end - 1, {}, {}))
        \/ end >= at /\ Yield(Message(head, at .. end - 1, {}, {}))
    BY <1>2, <1>5, <1>6 DEF WrappedBody, NoBody
  <1> QED
    BY <1>4, <1>6, <1>7, <1>8, <1>9

LEMMA RequestKeeps == IInv /\ ParseRequest => IInv'
PROOF
  <1> SUFFICES ASSUME IInv, ParseRequest PROVE IInv'
    OBVIOUS
  <1>1. UNCHANGED <<src, transcript, side, loopVars>>
    BY DEF ParseRequest
  <1>2. CASE Stop("Err") \/ Stop("Panicked")
    BY <1>1, <1>2, StopKeeps
  <1>3. ASSUME NEW head \in HeadHere, RequestBody(head)
        PROVE  IInv'
    <2>1. at \in DOMAIN heads /\ head = heads[at]
      BY HeadIsHere
    <2>2. \/ Stop("Err") \/ NoBody(head) \/ \E text : SizedBy(head, text)
      BY <1>3 DEF RequestBody
    <2> QED
      BY <1>1, <2>1, <2>2, StopKeeps, NoBodyKeeps, SizedByKeeps
  <1> QED
    BY <1>2, <1>3 DEF ParseRequest, NoHead, BadHead, GoodHead

LEMMA ResponseKeeps == IInv /\ ParseResponse => IInv'
PROOF
  <1> SUFFICES ASSUME IInv, ParseResponse PROVE IInv'
    OBVIOUS
  <1>1. UNCHANGED <<src, transcript, side, loopVars>>
    BY DEF ParseResponse
  <1>2. CASE Stop("Err") \/ Stop("Panicked")
    BY <1>1, <1>2, StopKeeps
  <1>3. ASSUME NEW head \in HeadHere, ResponseBody(head)
        PROVE  IInv'
    <2>1. at \in DOMAIN heads /\ head = heads[at]
      BY HeadIsHere
    <2>2. \/ Stop("Err") \/ NoBody(head) \/ \E text : SizedBy(head, text)
      BY <1>3 DEF ResponseBody
    <2> QED
      BY <1>1, <2>1, <2>2, StopKeeps, NoBodyKeeps, SizedByKeeps
  <1> QED
    BY <1>2, <1>3 DEF ParseResponse, NoHead, BadHead, GoodHead

(* The steps in which nothing is collected. *)
LEMMA NothingCollected ==
    ASSUME IInv, UNCHANGED <<src, transcript, side, at, parsed>>,
           phase' \in {"Idle", "Chunks", "Ok", "Err", "Panicked"},
           outcome' \in {"Reading", "Parsed", "Failed", "Panicked"}, SumsGoOn, ChunksOK'
    PROVE  IInv'
PROOF
  <1>1. /\ at' = at /\ parsed' = parsed /\ src' = src /\ transcript' = transcript /\ side' = side
        /\ sums' = sums \/ sums' = "Wrapped"
    BY DEF SumsGoOn
  <1>2. SourceLength' = SourceLength /\ \A s : CrLfLines(transcript[s])' <=> CrLfLines(transcript[s])
    BY <1>1, SameTranscript
  <1>3. TypeOK'
    BY <1>1, <1>2 DEF IInv, TypeOK
  <1>4. ParsedLists' /\ SpansTile'
    <2>1. \A s : Consumed(s)' = Consumed(s)
      BY <1>1 DEF Consumed
    <2>2. \A s \in DOMAIN parsed' : Tiled(parsed'[s], Consumed(s)')
      BY <1>1, <2>1, TiledSpans DEF IInv
    <2> QED
      BY <1>1, <2>2 DEF IInv, ParsedLists, SpansTile, Tiled
  <1>5. PartsApart'
    BY <1>1, <1>2 DEF IInv, PartsApart
  <1> QED
    BY <1>1, <1>3, <1>4, <1>5 DEF IInv

LEMMA StartChunksKeeps == IInv /\ StartChunks => IInv'
PROOF
  <1> SUFFICES ASSUME IInv, StartChunks PROVE IInv'
    OBVIOUS
  <1>1. PICK head \in HeadHere : Enter(head.end)
    BY DEF StartChunks, GoodHead
  <1>2. at \in DOMAIN heads /\ head = heads[at]
    BY HeadIsHere
  <1>3. UNCHANGED <<src, transcript, side, at, parsed>> /\ phase' = "Chunks"
    BY DEF StartChunks
  <1>4. heads' = heads /\ SourceLength' = SourceLength
    BY <1>3, SameTranscript
  <1>5. heads[at].end \in Nat
    BY <1>2, SideFacts DEF IInv
  <1>6. /\ pos' = heads[at].end /\ content' = {} /\ structure' = {} /\ trailer' = {}
        /\ outcome' = "Reading" /\ SumsGoOn
    BY <1>1, <1>2 DEF Enter, SumsGoOn
  <1>7. ChunksOK'
    BY <1>2, <1>3, <1>4, <1>5, <1>6 DEF ChunksOK, LoopOK, LoopBounds
  <1> QED
    BY <1>3, <1>6, <1>7, NothingCollected

-------------------------------------------------------------------------------
(* A chunk size is a number that fits a usize. *)
LEMMA ChunkSizeType == \A first, last : ChunkSize(first, last) \subseteq 0 .. MaxUsize
  BY UsizeAssumption DEF ChunkSize

(* The bounds hold in any build. *)
LEMMA BoundsStep ==
    ASSUME LoopBounds, SourceLength \in Nat, SourceLength <= MaxUsize,
           DOMAIN src = 0 .. SourceLength - 1, src' = src, Iterate
    PROVE  /\ LoopBounds' /\ SumsGoOn
           /\ outcome' \in {"Reading", "Parsed", "Failed", "Panicked"}
PROOF
  <1>1. outcome = "Reading" /\ SourceLength' = SourceLength /\ trailer = {} /\ pos \in Nat
    BY DEF Iterate, SourceLength, LoopBounds
  <1>2. CASE Ends("Failed") \/ Ends("Panicked")
    BY <1>1, <1>2 DEF LoopBounds, Ends, SumsGoOn
  <1>3. ASSUME NEW last \in pos .. SourceLength, Chunk(last) \/ ChunkWraps(last)
        PROVE  LoopBounds' /\ outcome' = "Reading" /\ SumsGoOn
    <2>1. PICK size \in ChunkSize(pos, last) \ {0} :
            /\ structure' = structure \cup (pos .. last + 1)
            /\ content' \subseteq content \cup
                  {i \in last + 2 .. last + 2 + size - 1 : last + 2 + size <= MaxUsize}
            /\ \/ pos' = last + 2 + size + 2
               \/ pos' = (last + 2 + size + 2) % (MaxUsize + 1)
            /\ trailer' = trailer /\ outcome' = outcome /\ SumsGoOn
      <3>1. CASE Chunk(last)
        <4>1. PICK size \in ChunkSize(pos, last) \ {0} :
                /\ last + 2 + size + 2 <= MaxUsize
                /\ structure' = structure \cup (pos .. last + 1)
                /\ content' = content \cup (last + 2 .. last + 2 + size - 1)
                /\ pos' = last + 2 + size + 2
                /\ trailer' = trailer /\ outcome' = outcome /\ sums' = sums
          BY <3>1 DEF Chunk
        <4>2. last + 2 + size <= MaxUsize
          BY <1>1, <4>1, ChunkSizeType, UsizeAssumption
        <4> QED
          BY <4>1, <4>2 DEF SumsGoOn
      <3>2. CASE ChunkWraps(last)
        BY <3>2 DEF ChunkWraps, SumsGoOn
      <3> QED
        BY <1>3, <3>1, <3>2
    <2>2. last \in Nat /\ last <= SourceLength /\ size \in Nat
      BY <1>1, <2>1, ChunkSizeType, UsizeAssumption
    <2>3. pos' \in Nat
      <3>1. PICK n \in Nat : n = last + 2 + size + 2
        BY <2>2
      <3>2. PICK m \in Nat \ {0} : m = MaxUsize + 1
        BY UsizeAssumption
      <3>3. n % m \in Nat
        BY <3>1, <3>2
      <3> QED
        BY <2>1, <3>1, <3>2, <3>3
    <2>4. content' \subseteq 0 .. MaxUsize
      BY <2>1, <2>2, UsizeAssumption DEF LoopBounds
    <2>5. structure' \subseteq 0 .. SourceLength + 1
      BY <1>1, <2>1, <2>2 DEF LoopBounds
    <2> QED
      BY <1>1, <2>1, <2>3, <2>4, <2>5 DEF LoopBounds
  <1>4. ASSUME NEW last \in pos .. SourceLength, LastChunk(last) \/ LastChunkWithTrailer(last)
        PROVE  LoopBounds' /\ outcome' = "Parsed" /\ SumsGoOn
    <2>1. /\ structure' = structure \cup (pos .. last + 1)
          /\ pos' = last + 2 /\ outcome' = "Parsed" /\ content' = content /\ SumsGoOn
      BY <1>4 DEF LastChunk, LastChunkWithTrailer, SumsGoOn
    <2>2. last \in Nat /\ last <= SourceLength /\ pos <= last
      BY <1>1
    <2>3. structure' \subseteq 0 .. SourceLength + 1 /\ structure' # {}
      <3>1. structure \subseteq 0 .. SourceLength + 1
        BY DEF LoopBounds
      <3>2. pos .. last + 1 \subseteq 0 .. SourceLength + 1
        BY <1>1, <2>2
      <3>3. pos \in pos .. last + 1
        BY <1>1, <2>2
      <3> QED
        BY <2>1, <3>1, <3>2, <3>3
    <2>4. SetEnd(structure') \in Nat
      <3>1. PICK bound \in Nat : bound = SourceLength + 1
        OBVIOUS
      <3>2. structure' \in SUBSET (0 .. bound)
        BY <2>3, <3>1
      <3> QED
        BY <2>3, <3>2, EndOfBounded
    <2>5. CASE LastChunk(last)
      <3>1. trailer' = {}
        BY <1>1, <2>5 DEF LastChunk
      <3>2. ChunkedEnd' \in Nat
        BY <2>4, <3>1 DEF ChunkedEnd, SetEnd
      <3> QED
        BY <1>1, <2>1, <2>2, <2>3, <3>1, <3>2 DEF LoopBounds
    <2>6. CASE LastChunkWithTrailer(last)
      <3>1. PICK stop \in last + 2 .. SourceLength :
               /\ ~ CrLfAt(last + 2) /\ EmptyLineAt(stop)
               /\ trailer' = trailer \cup (last + 2 .. stop - 1)
        BY <2>6 DEF LastChunkWithTrailer
      <3>2. stop \in Nat /\ stop > last + 2 /\ stop + 1 < SourceLength
        BY <2>2, <3>1 DEF EmptyLineAt, CrLfAt, CrLfIn
      <3>3. /\ trailer' \in SUBSET Nat /\ stop - 1 \in trailer'
            /\ \A i \in trailer' : i <= stop - 1
        BY <1>1, <2>2, <3>1, <3>2
      <3>4. SetEnd(trailer') = stop
        BY <3>2, <3>3, EndOfSet
      <3>5. ChunkedEnd' = stop + 2
        BY <3>3, <3>4 DEF ChunkedEnd, SetEnd
      <3>6. ChunkedEnd' \in Nat /\ ChunkedEnd' <= SourceLength
        BY <3>2, <3>5
      <3> QED
        BY <1>1, <2>1, <2>2, <2>3, <3>6 DEF LoopBounds
    <2> QED
      BY <1>4, <2>5, <2>6, <2>1
  <1> QED
    BY <1>1, <1>2, <1>3, <1>4
    DEF Iterate, SlicePanics, BadSize, ChunkOverflows, LastChunkPanics, MissingTrailerEnd, Ends

(* The loop keeps what it knows, unless a sum wraps. *)
LEMMA LoopStep ==
    ASSUME NEW start \in Nat, LoopOK(start), SourceLength \in Nat,
           DOMAIN src = 0 .. SourceLength - 1, src' = src, Iterate, sums' # "Wrapped"
    PROVE  /\ LoopOK(start)'
           /\ outcome' \in {"Reading", "Parsed", "Failed", "Panicked"}
PROOF
  <1>1. outcome = "Reading" /\ SourceLength' = SourceLength
    BY DEF Iterate, SourceLength
  <1>2. CASE Ends("Failed") \/ Ends("Panicked")
    BY <1>1, <1>2 DEF LoopOK, Ends
  <1>3. ASSUME NEW last \in pos .. SourceLength, Chunk(last)
        PROVE  LoopOK(start)' /\ outcome' = "Reading"
    <2>1. PICK size \in ChunkSize(pos, last) \ {0} :
            /\ structure' = structure \cup (pos .. last + 1)
            /\ content' = content \cup (last + 2 .. last + 2 + size - 1)
            /\ pos' = last + 2 + size + 2
            /\ trailer' = trailer /\ outcome' = outcome
      BY <1>3 DEF Chunk
    <2>2. size \in Nat /\ size > 0
      BY <2>1, ChunkSizeType, UsizeAssumption
    <2>3. pos \in Nat /\ start <= pos /\ last \in Nat /\ pos <= last
      BY DEF LoopOK
    <2> QED
      BY <1>1, <2>1, <2>2, <2>3 DEF LoopOK
  <1>4. ASSUME NEW last \in pos .. SourceLength, NEW stop \in Nat,
               last + 2 <= stop, CrLfAt(stop),
               structure' = structure \cup (pos .. last + 1),
               trailer' = last + 2 .. stop - 1,
               pos' = last + 2, outcome' = "Parsed", content' = content
        PROVE  LoopOK(start)'
    <2>1. pos \in Nat /\ start <= pos /\ last \in Nat /\ pos <= last
      BY DEF LoopOK
    <2>2. stop + 1 < SourceLength
      BY <1>4 DEF CrLfAt, CrLfIn
    <2>3. /\ content' \cup structure' \subseteq start .. last + 1
          /\ content' \cap structure' = {}
      BY <1>4, <2>1 DEF LoopOK
    <2>6. SetEnd(structure') = last + 2
      <3>1. structure' \in SUBSET Nat /\ last + 1 \in structure'
            /\ \A i \in structure' : i <= last + 1
        BY <1>4, <2>1, <2>3
      <3> QED
        BY <2>1, <3>1, EndOfSet
    <2>4. ChunkedEnd' = stop + 2
      <3>1. CASE stop = last + 2
        <4>1. trailer' = {}
          BY <1>4, <2>1, <3>1
        <4> QED
          BY <2>6, <3>1, <4>1 DEF ChunkedEnd, SetEnd
      <3>2. CASE stop > last + 2
        <4>1. /\ trailer' \in SUBSET Nat /\ stop - 1 \in trailer'
              /\ \A i \in trailer' : i <= stop - 1
          BY <1>4, <2>1, <3>2
        <4>2. SetEnd(trailer') = stop
          BY <2>1, <4>1, EndOfSet
        <4> QED
          BY <4>1, <4>2 DEF ChunkedEnd, SetEnd
      <3> QED
        BY <1>4, <2>1, <3>1, <3>2
    <2>5. Complete(start)'
      <3>1. SetEnd(structure)' = last + 2 /\ last + 2 \in Nat
        BY <2>1, <2>6 DEF SetEnd
      <3>2. SetEnd(structure)' + 2 <= ChunkedEnd'
        BY <1>4, <2>1, <2>4, <3>1
      <3> QED
        BY <1>1, <1>4, <2>1, <2>2, <2>3, <2>4, <3>1, <3>2 DEF Complete
    <2> QED
      BY <1>4, <2>1, <2>3, <2>5 DEF LoopOK
  <1>5. ASSUME NEW last \in pos .. SourceLength, LastChunk(last)
        PROVE  LoopOK(start)' /\ outcome' = "Parsed"
    <2>1. /\ CrLfAt(last + 2) /\ trailer' = trailer
          /\ structure' = structure \cup (pos .. last + 1)
          /\ pos' = last + 2 /\ outcome' = "Parsed" /\ content' = content
      BY <1>5 DEF LastChunk
    <2>2. last + 2 \in Nat /\ trailer = {}
      BY <1>1 DEF LoopOK
    <2>3. trailer' = last + 2 .. (last + 2) - 1
      BY <2>1, <2>2
    <2> QED
      BY <1>4, <2>1, <2>2, <2>3
  <1>6. ASSUME NEW last \in pos .. SourceLength, LastChunkWithTrailer(last)
        PROVE  LoopOK(start)' /\ outcome' = "Parsed"
    <2>1. PICK stop \in last + 2 .. SourceLength :
            /\ EmptyLineAt(stop)
            /\ structure' = structure \cup (pos .. last + 1)
            /\ trailer' = trailer \cup (last + 2 .. stop - 1)
            /\ pos' = last + 2 /\ outcome' = "Parsed" /\ content' = content
      BY <1>6 DEF LastChunkWithTrailer
    <2>2. /\ CrLfAt(stop) /\ stop \in Nat /\ last + 2 <= stop
          /\ trailer' = last + 2 .. stop - 1
      BY <1>1, <2>1 DEF EmptyLineAt, LoopOK
    <2> QED
      BY <1>4, <2>1, <2>2
  <1> QED
    BY <1>1, <1>2, <1>3, <1>5, <1>6
    DEF Iterate, SlicePanics, BadSize, ChunkOverflows, ChunkWraps, LastChunkPanics,
        MissingTrailerEnd, Ends

LEMMA ReadChunkKeeps == IInv /\ ReadChunk => IInv'
PROOF
  <1> SUFFICES ASSUME IInv, ReadChunk PROVE IInv'
    OBVIOUS
  <1>1. /\ phase = "Chunks" /\ phase' = phase /\ Iterate
        /\ UNCHANGED <<src, transcript, side, at, parsed>>
    BY DEF ReadChunk
  <1>2. at \in DOMAIN heads /\ LoopBounds /\ (sums # "Wrapped" => LoopOK(heads[at].end))
    BY <1>1 DEF IInv, ChunksOK
  <1>3. /\ heads[at].end \in Nat /\ SourceLength \in Nat /\ SourceLength <= MaxUsize
        /\ DOMAIN src = 0 .. SourceLength - 1
    BY <1>2, SideFacts DEF IInv
  <1>4. LoopBounds' /\ SumsGoOn /\ outcome' \in {"Reading", "Parsed", "Failed", "Panicked"}
    BY <1>1, <1>2, <1>3, BoundsStep
  <1> DEFINE start == heads[at].end
  <1>5. sums' # "Wrapped" => LoopOK(start)'
    <2> HIDE DEF start
    <2>1. start' = start
      BY <1>1, SameTranscript DEF start
    <2>2. sums' # "Wrapped" => sums # "Wrapped"
      BY <1>4 DEF SumsGoOn
    <2> QED
      BY <1>1, <1>2, <1>3, <2>1, <2>2, LoopStep DEF start
  <1>6. ChunksOK'
    BY <1>1, <1>2, <1>4, <1>5, SameTranscript DEF ChunksOK
  <1> QED
    BY <1>1, <1>4, <1>6, NothingCollected

LEMMA FinishKeeps == IInv /\ FinishChunked => IInv'
PROOF
  <1> SUFFICES ASSUME IInv, FinishChunked PROVE IInv'
    OBVIOUS
  <1>1. phase = "Chunks" /\ UNCHANGED <<src, transcript, side, loopVars>>
    BY DEF FinishChunked
  <1>2. CASE Stop("Err") \/ Stop("Panicked")
    BY <1>1, <1>2, StopKeeps
  <1>3. CASE /\ outcome = "Parsed" /\ ~ BoundaryPanics
             /\ Yield(Message(heads[at], at .. ChunkedEnd - 1, content, structure))
    <2> DEFINE start == heads[at].end
    <2>1. at \in DOMAIN heads /\ LoopBounds
      BY <1>1 DEF IInv, ChunksOK
    <2>2. start \in Nat /\ SourceLength \in Nat /\ at \in Nat /\ at <= SourceLength
      BY <2>1, SideFacts DEF IInv
    <2>3. CASE sums # "Wrapped"
      <3>1. LoopOK(start) /\ Complete(start)
        BY <1>1, <1>3, <2>3 DEF IInv, ChunksOK, LoopOK
      <3>2. ChunkedEnd \in Nat /\ start <= ChunkedEnd /\ ChunkedEnd <= SourceLength
        BY <2>2, <3>1 DEF Complete
      <3>3. /\ content \in SUBSET (start .. ChunkedEnd - 1)
            /\ structure \in SUBSET (start .. ChunkedEnd - 1)
            /\ content \cap structure = {}
        BY <3>1 DEF Complete, LoopOK
      <3> QED
        BY <1>1, <1>3, <2>1, <3>2, <3>3, MessageKeeps
    <2>4. CASE sums = "Wrapped"
      <3>1. PICK c \in Nat : c = ChunkedEnd /\ c <= SourceLength
        <4>1. ChunkedEnd \in Nat /\ (trailer # {} => ChunkedEnd <= SourceLength)
          BY <1>3, <2>1 DEF LoopBounds
        <4>2. trailer = {} => ChunkedEnd = SetEnd(structure) + 2
          BY DEF ChunkedEnd
        <4> QED
          BY <1>3, <2>2, <4>1, <4>2 DEF BoundaryPanics
      <3>2. PICK e \in Nat : at <= e /\ e <= SourceLength /\ at .. e - 1 = at .. c - 1
        <4>1. CASE at <= c
          BY <3>1, <4>1
        <4>2. CASE c < at
          <5>1. at .. c - 1 = {} /\ at .. at - 1 = {}
            BY <2>2, <3>1, <4>2
          <5> QED
            BY <2>2, <5>1
        <4> QED
          BY <2>2, <3>1, <4>1, <4>2
      <3> DEFINE m == Message(heads[at], at .. c - 1, content, structure)
      <3>3. m.span = at .. e - 1 /\ Yield(m)
        BY <1>3, <3>1, <3>2, MessageFields
      <3>4. outcome' = outcome /\ SumsGoOn /\ sums' = "Wrapped"
        BY <1>1, <2>4 DEF loopVars, SumsGoOn
      <3> HIDE DEF m
      <3> QED
        BY <1>1, <3>2, <3>3, <3>4, YieldKeeps
    <2> QED
      BY <2>3, <2>4
  <1> QED
    BY <1>2, <1>3 DEF FinishChunked

LEMMA SentKeeps == IInv /\ SentCollected => IInv'
PROOF
  <1> SUFFICES ASSUME IInv, SentCollected PROVE IInv'
    OBVIOUS
  <1>1. /\ phase = "Idle" /\ side = "Sent" /\ at >= SourceLength
        /\ side' = "Received" /\ src' = transcript["Received"].cells /\ at' = 0
        /\ transcript' = transcript /\ parsed' = parsed /\ phase' = phase /\ outcome' = outcome
        /\ sums' = sums
    BY DEF SentCollected, loopVars
  <1>2. /\ DOMAIN transcript = {"Sent", "Received"} /\ DOMAIN parsed = {"Sent", "Received"}
        /\ at \in Nat /\ SourceLength \in Nat /\ at = SourceLength
        /\ DOMAIN src = 0 .. SourceLength - 1 /\ src = transcript["Sent"].cells
    <2>1. transcript \in Transcripts /\ TypeOK /\ ParsedLists
      BY DEF IInv
    <2>2. DOMAIN transcript = {"Sent", "Received"} /\ DOMAIN parsed = {"Sent", "Received"}
      BY <2>1, TranscriptsAssumption DEF ParsedLists
    <2>3. /\ at \in Nat /\ SourceLength \in Nat /\ at <= SourceLength
          /\ DOMAIN src = 0 .. SourceLength - 1
      BY <2>1, SideFacts
    <2>4. src = transcript["Sent"].cells
      BY <1>1, <2>1 DEF TypeOK
    <2> QED
      BY <1>1, <2>2, <2>3, <2>4
  <1>3. SourceLength' \in Nat
    <2>1. PICK n \in 0 .. MaxUsize : DOMAIN transcript["Received"].cells = 0 .. n - 1
      BY <1>2, TranscriptsAssumption DEF IInv
    <2>2. n \in Nat /\ DOMAIN src' = 0 .. n - 1
      BY <1>1, <2>1, UsizeAssumption
    <2>3. Cardinality(0 .. n - 1) = n
      BY <2>2, FS_Interval
    <2> QED
      BY <2>2, <2>3 DEF SourceLength
  <1>4. TypeOK'
    BY <1>1, <1>2, <1>3 DEF IInv, TypeOK
  <1>5. ParsedLists'
    BY <1>1 DEF IInv, ParsedLists
  <1>6. SpansTile'
    <2>1. Consumed("Sent") = 0 .. at - 1 /\ Consumed("Received") = {}
      BY <1>1 DEF Consumed
    <2>2. Consumed("Sent")' = DOMAIN transcript["Sent"].cells /\ Consumed("Received")' = {}
      BY <1>1 DEF Consumed
    <2>3. \A s \in DOMAIN parsed' : Tiled(parsed'[s], Consumed(s)')
      BY <1>1, <1>2, <2>1, <2>2, TiledSpans DEF IInv
    <2> QED
      BY <2>3 DEF SpansTile, Tiled
  <1>7. PartsApart'
    BY <1>1 DEF IInv, PartsApart, CrLfLines
  <1>8. ChunksOK'
    BY <1>1 DEF ChunksOK
  <1> QED
    BY <1>1, <1>4, <1>5, <1>6, <1>7, <1>8 DEF IInv

-------------------------------------------------------------------------------
(* Every step keeps the invariant. *)
LEMMA StepInvariant == IInv /\ [Next]_vars => IInv'
PROOF
  <1> SUFFICES ASSUME IInv, [Next]_vars PROVE IInv'
    OBVIOUS
  <1>1. CASE ReceivedCollected
    BY <1>1, StopKeeps DEF ReceivedCollected
  <1>2. CASE UNCHANGED vars
    <2>1. /\ UNCHANGED <<src, transcript, side, at, parsed>> /\ UNCHANGED loopVars
          /\ phase' = phase
      BY <1>2 DEF vars
    <2>2. /\ pos' = pos /\ content' = content /\ structure' = structure
          /\ trailer' = trailer /\ outcome' = outcome /\ heads' = heads
          /\ SourceLength' = SourceLength /\ at' = at /\ sums' = sums
      BY <2>1, SameTranscript DEF loopVars
    <2>3. ChunksOK'
      BY <2>1, <2>2 DEF IInv, ChunksOK, LoopOK, LoopBounds, Complete, ChunkedEnd
    <2> QED
      BY <2>1, <2>2, <2>3, NothingCollected DEF IInv, TypeOK, SumsGoOn
  <1> QED
    BY <1>1, <1>2, RequestKeeps, ResponseKeeps, LengthWrapsKeeps, StartChunksKeeps,
       ReadChunkKeeps, FinishKeeps, SentKeeps
    DEF Next

(* The invariant holds in every reachable state. *)
THEOREM Invariance == Spec => []IInv
  BY InitInvariant, StepInvariant, PTL DEF Spec

(* The iterators stay in their source, and every span they yield is in it:  *)
(* none of the spans they build panics.                                     *)
THEOREM TypeCorrect == Spec => []TypeOK
  <1>1. IInv => TypeOK
    BY DEF IInv
  <1> QED
    BY <1>1, Invariance, PTL

(* No byte is skipped and none belongs to two messages, in any transcript.  *)
THEOREM MessagesTile == Spec => []SpansTile
  <1>1. IInv => SpansTile
    BY DEF IInv
  <1> QED
    BY <1>1, Invariance, PTL

(* The parts of a message share no byte, in any transcript of which header  *)
(* lines end with CRLF.                                                     *)
THEOREM MessagePartsApart == Spec => []PartsApart
  <1>1. IInv => PartsApart
    BY DEF IInv
  <1> QED
    BY <1>1, Invariance, PTL

-------------------------------------------------------------------------------
(* What a message that was built consists of, for those who read it: a list *)
(* of headers, a target only in a request, a body only behind a header that *)
(* announces it, and JSON values only where its data parse to them.         *)
ValuesParsed(m) ==
    m.json # << >> =>
        /\ m.body # {}
        /\ \E text \in DOMAIN JsonOf :
              /\ Len(text) = Cardinality(m.body)
              /\ m.json = OffsetValues(JsonOf[text], SetMin(m.body))

BuiltMessage(s, m) ==
    /\ Len(m.headers) \in Nat /\ DOMAIN m.headers = 1 .. Len(m.headers)
    /\ s = "Received" => m.target = {}
    /\ m.body # {} => m.headers # << >>
    /\ ValuesParsed(m)

Built ==
    /\ \A s \in {"Sent", "Received"} : \A k \in DOMAIN parsed[s] : BuiltMessage(s, parsed[s][k])
    /\ phase = "Chunks" => heads[at].headers # << >>

LEMMA MessageBuilt ==
    ASSUME NEW s, NEW head, NEW span, NEW body, NEW boundaries,
           Len(head.headers) \in Nat, DOMAIN head.headers = 1 .. Len(head.headers),
           s = "Received" => head.target = {},
           IsFiniteSet(body), body # {} => head.headers # << >>,
           body # {} /\ IsJson(head) => JsonParses(body)
    PROVE  BuiltMessage(s, Message(head, span, body, boundaries))
PROOF
  <1> DEFINE m == Message(head, span, body, boundaries)
  <1>1. m.target = head.target /\ m.body = body /\ m.headers = Headers(head)
        /\ m.json = IF body # {} /\ IsJson(head) THEN ParsedJson(body) ELSE << >>
    BY DEF Message
  <1> HIDE DEF m
  <1>2. Len(m.headers) \in Nat /\ DOMAIN m.headers = 1 .. Len(m.headers)
        /\ (head.headers # << >> => m.headers # << >>)
    <2>1. PICK n \in Nat : n = Len(head.headers)
      OBVIOUS
    <2>2. PICK h : h = m.headers
      OBVIOUS
    <2>3. h = [k \in 1 .. n |-> FromHeader(head.headers[k])]
      BY <1>1, <2>1, <2>2 DEF Headers
    <2>4. h \in Seq({FromHeader(head.headers[k]) : k \in 1 .. n}) /\ DOMAIN h = 1 .. n
      BY <2>3
    <2>5. Len(h) = n
      BY <2>4
    <2>6. head.headers # << >> => n # 0
      <3>1. PICK g : g = head.headers
        OBVIOUS
      <3>2. ASSUME n = 0, g # << >> PROVE FALSE
        <4>1. DOMAIN g = {}
          BY <2>1, <3>1, <3>2
        <4> QED
          BY <3>2, <4>1
      <3> QED
        BY <3>1, <3>2
    <2> QED
      BY <2>2, <2>4, <2>5, <2>6
  <1>3. ValuesParsed(m)
    <2>1. SUFFICES ASSUME m.json # << >> PROVE ValuesParsed(m)
      BY DEF ValuesParsed
    <2>2. body # {} /\ JsonParses(body) /\ m.json = ParsedJson(body)
      BY <1>1, <2>1
    <2>3. PICK text : text = DataOf(body)
      OBVIOUS
    <2>4. text \in DOMAIN JsonOf /\ m.json = OffsetValues(JsonOf[text], SetMin(body))
      BY <2>2, <2>3 DEF JsonParses, ParsedJson
    <2>5. Len(text) = Cardinality(body)
      <3>1. PICK n : n = Cardinality(body)
        OBVIOUS
      <3>2. n \in Nat
        BY <3>1, FS_CardinalityType
      <3> DEFINE cell(k) == src[CHOOSE i \in body : Rank(body, i) = k]
      <3>3. text = [k \in 1 .. n |-> cell(k)]
        BY <2>3, <3>1 DEF DataOf, IndexRanges
      <3> HIDE DEF cell
      <3>4. text \in Seq({cell(k) : k \in 1 .. n}) /\ DOMAIN text = 1 .. n
        BY <3>2, <3>3
      <3> QED
        BY <3>1, <3>2, <3>4
    <2> QED
      BY <1>1, <2>2, <2>4, <2>5, Zenon DEF ValuesParsed
  <1> QED
    BY <1>1, <1>2, <1>3 DEF BuiltMessage, m

(* Where nothing is collected and no chunked body begins. *)
LEMMA SameBuilt ==
    ASSUME Built, parsed' = parsed, phase' # "Chunks"
    PROVE  Built'
  BY DEF Built, BuiltMessage, ValuesParsed

LEMMA YieldBuilt ==
    ASSUME IInv, Built, NEW m, Yield(m), BuiltMessage(side, m)
    PROVE  Built'
PROOF
  <1>1. phase' = "Idle" /\ parsed' = [parsed EXCEPT ![side] = Append(@, m)]
    BY DEF Yield
  <1>2. side \in {"Sent", "Received"}
    BY SideFacts DEF IInv
  <1>3. /\ parsed'[side] = Append(parsed[side], m)
        /\ \A s \in {"Sent", "Received"} \ {side} : parsed'[s] = parsed[s]
    BY <1>1, <1>2 DEF IInv, ParsedLists
  <1>4. PICK n : /\ DOMAIN parsed'[side] = DOMAIN parsed[side] \cup {n}
                 /\ parsed'[side][n] = m
                 /\ \A k \in DOMAIN parsed[side] : parsed'[side][k] = parsed[side][k]
    BY <1>2, <1>3, AppendToList DEF IInv, ParsedLists
  <1>5. ASSUME NEW s \in {"Sent", "Received"}, NEW k \in DOMAIN parsed'[s]
        PROVE  BuiltMessage(s, parsed'[s][k])
    <2>1. CASE s = side /\ k = n
      BY <1>4, <2>1
    <2>2. CASE s = side /\ k # n
      BY <1>4, <2>2 DEF Built
    <2>3. CASE s # side
      BY <1>3, <2>3 DEF Built
    <2> QED
      BY <2>1, <2>2, <2>3
  <1> QED
    BY <1>1, <1>5 DEF Built, BuiltMessage, ValuesParsed

(* The head that is here. *)
LEMMA HeadBuilt ==
    ASSUME IInv, at \in DOMAIN heads
    PROVE  /\ Len(heads[at].headers) \in Nat /\ DOMAIN heads[at].headers = 1 .. Len(heads[at].headers)
           /\ side = "Received" => heads[at].target = {}
           /\ heads[at].end \in Nat
PROOF
  <1>1. HeadInOrder(at, heads[at]) /\ heads[at].end \in Nat /\ side \in {"Sent", "Received"}
    BY SideFacts DEF IInv
  <1>2. side = "Received" => heads[at].target = {}
    BY <1>1, TranscriptsAssumption DEF IInv, heads
  <1> QED
    BY <1>1, <1>2 DEF HeadInOrder

LEMMA NamedHasHeaders ==
    ASSUME NEW head, NEW name, FirstNamed(head, name) # {}
    PROVE  head.headers # << >>
PROOF
  <1>1. PICK k : k \in FirstWithName(head.headers, name)
    BY DEF FirstNamed, NamedIn
  <1>2. k \in DOMAIN head.headers
    BY <1>1 DEF FirstWithName
  <1>3. PICK g : g = head.headers
    OBVIOUS
  <1>4. g # << >>
    BY <1>2, <1>3
  <1> QED
    BY <1>3, <1>4

LEMMA NoBodyBuilt ==
    ASSUME IInv, Built, at \in DOMAIN heads, NoBody(heads[at])
    PROVE  Built'
PROOF
  <1>1. BuiltMessage(side, Message(heads[at], at .. heads[at].end - 1, {}, {}))
    BY HeadBuilt, MessageBuilt, FS_EmptySet
  <1> QED
    BY <1>1, YieldBuilt DEF NoBody

LEMMA SizedByBuilt ==
    ASSUME IInv, Built, at \in DOMAIN heads, NEW text,
           text \in FirstNamed(heads[at], "content-length"), SizedBy(heads[at], text)
    PROVE  Built'
PROOF
  <1>1. CASE Stop("Err") \/ Stop("Panicked")
    BY <1>1, SameBuilt DEF Stop
  <1>2. ASSUME text \in DOMAIN LengthValue, NEW length, length = LengthValue[text], Sized(heads[at], length)
        PROVE  Built'
    <2>1. length \in Nat
      BY <1>2, LengthAssumption, UsizeAssumption
    <2>2. PICK body : body = heads[at].end .. heads[at].end + length - 1
      OBVIOUS
    <2>3. \/ NoBody(heads[at])
          \/ Stop("Panicked") \/ Stop("Err")
          \/ /\ IsJson(heads[at]) => JsonParses(body)
             /\ Yield(Message(heads[at], at .. heads[at].end + length - 1, body, {}))
      BY <1>2, <2>2, Zenon DEF Sized
    <2>4. CASE Stop("Panicked") \/ Stop("Err")
      BY <2>4, SameBuilt DEF Stop
    <2>5. CASE /\ IsJson(heads[at]) => JsonParses(body)
               /\ Yield(Message(heads[at], at .. heads[at].end + length - 1, body, {}))
      <3>1. heads[at].headers # << >>
        BY NamedHasHeaders
      <3>2. IsFiniteSet(body)
        <4>1. PICK a, b : a = heads[at].end /\ b = heads[at].end + length - 1
          OBVIOUS
        <4>2. a \in Int /\ b \in Int
          BY <2>1, <4>1, HeadBuilt
        <4> QED
          BY <2>2, <4>1, <4>2, FS_Interval
      <3>3. BuiltMessage(side, Message(heads[at], at .. heads[at].end + length - 1, body, {}))
        BY <2>5, <3>1, <3>2, HeadBuilt, MessageBuilt
      <3> QED
        BY <2>5, <3>3, YieldBuilt
    <2> QED
      BY <2>3, <2>4, <2>5, NoBodyBuilt
  <1> QED
    BY <1>1, <1>2 DEF SizedBy

LEMMA FinishBuilt ==
    ASSUME IInv, Built, FinishChunked
    PROVE  Built'
PROOF
  <1>1. phase = "Chunks"
    BY DEF FinishChunked
  <1>2. CASE Stop("Err") \/ Stop("Panicked")
    BY <1>2, SameBuilt DEF Stop
  <1>3. CASE ~ BodyRejected /\ Yield(Message(heads[at], at .. ChunkedEnd - 1, content, structure))
    <2>1. at \in DOMAIN heads /\ LoopBounds /\ heads[at].headers # << >>
      BY <1>1 DEF IInv, ChunksOK, Built
    <2>2. IsFiniteSet(content)
      <3>1. content \subseteq 0 .. MaxUsize /\ IsFiniteSet(0 .. MaxUsize)
        BY <2>1, FS_Interval, UsizeAssumption DEF LoopBounds
      <3> QED
        BY <3>1, FS_Subset
    <2>3. content # {} /\ IsJson(heads[at]) => JsonParses(content)
      BY <1>3 DEF BodyRejected
    <2>4. BuiltMessage(side, Message(heads[at], at .. ChunkedEnd - 1, content, structure))
      BY <2>1, <2>2, <2>3, HeadBuilt, MessageBuilt
    <2> QED
      BY <1>3, <2>4, YieldBuilt
  <1> QED
    BY <1>2, <1>3 DEF FinishChunked

LEMMA BuiltInit == Init => Built
  BY DEF Init, Built

LEMMA WrappedBuilt ==
    ASSUME IInv, Built, LengthWraps
    PROVE  Built'
PROOF
  <1>1. PICK head \in HeadHere : \E end : WrappedBody(head, end)
    BY DEF LengthWraps, GoodHead
  <1>2. at \in DOMAIN heads /\ head = heads[at]
    BY <1>1, HeadIsHere
  <1>3. CASE Stop("Err") \/ Stop("Panicked")
    BY <1>3, SameBuilt DEF Stop
  <1>4. ASSUME NEW end, Yield(Message(head, at .. end - 1, {}, {}))
        PROVE  Built'
    <2>1. BuiltMessage(side, Message(head, at .. end - 1, {}, {}))
      BY <1>2, HeadBuilt, MessageBuilt, FS_EmptySet
    <2> QED
      BY <1>4, <2>1, YieldBuilt
  <1> QED
    BY <1>1, <1>3, <1>4 DEF WrappedBody, NoBody

LEMMA BuiltStep == IInv /\ Built /\ [Next]_vars => Built'
PROOF
  <1> SUFFICES ASSUME IInv, Built, [Next]_vars PROVE Built'
    OBVIOUS
  <1>1. CASE \E how \in {"Err", "Panicked", "Ok"} : Stop(how)
    BY <1>1, SameBuilt DEF Stop
  <1>2. ASSUME NEW head \in HeadHere,
               \/ NoBody(head)
               \/ \E text \in FirstNamed(head, "content-length") : SizedBy(head, text)
        PROVE  Built'
    BY <1>2, HeadIsHere, NoBodyBuilt, SizedByBuilt
  <1>3. CASE ParseRequest
    BY <1>1, <1>2, <1>3 DEF ParseRequest, RequestBody, NoHead, BadHead, GoodHead
  <1>4. CASE ParseResponse
    BY <1>1, <1>2, <1>4 DEF ParseResponse, ResponseBody, NoHead, BadHead, GoodHead
  <1>5. CASE StartChunks
    <2>1. PICK head \in HeadHere : <<"chunked">> \in FirstNamed(head, "transfer-encoding")
      BY <1>5 DEF StartChunks, GoodHead
    <2>2. heads[at].headers # << >>
      BY <2>1, HeadIsHere, NamedHasHeaders
    <2>3. heads' = heads /\ at' = at /\ parsed' = parsed
      BY <1>5 DEF StartChunks, heads
    <2> QED
      BY <2>2, <2>3 DEF Built, BuiltMessage, ValuesParsed
  <1>6. CASE ReadChunk \/ UNCHANGED vars
    <2>1. heads' = heads /\ at' = at /\ parsed' = parsed /\ phase' = phase
      BY <1>6 DEF ReadChunk, heads, vars
    <2> QED
      BY <2>1 DEF Built, BuiltMessage, ValuesParsed
  <1>7. CASE SentCollected
    BY <1>7, SameBuilt DEF SentCollected
  <1> QED
    BY <1>1, <1>3, <1>4, <1>5, <1>6, <1>7, WrappedBuilt, FinishBuilt DEF Next, ReceivedCollected

-------------------------------------------------------------------------------
(* The first k written messages of side s are in the stream, and they are   *)
(* the messages that were parsed.                                           *)
Collected(s, k) ==
    LET written == transcript[s].written
    IN  /\ k \in 0 .. Len(written) /\ DOMAIN parsed[s] = 1 .. k
        /\ \A j \in 1 .. k : parsed[s][j].body = written[j].payload
        /\ EndOf(written, k) <= Cardinality(DOMAIN transcript[s].cells)

(* Message w must not be refused. *)
Good(w) == w.supported /\ w.end <= SourceLength

(* The loop is at a chunk and has recorded the data of those before. *)
AtChunk(w, k) ==
    /\ outcome = "Reading" /\ trailer = {}
    /\ k \in DOMAIN w.chunks /\ pos = w.chunks[k].at
    /\ content = UNION {DataOfChunk(w.chunks[j]) : j \in 1 .. k - 1}

(* The loop has failed, or it is beyond the source so that it will.         *)
BeyondSource == outcome = "Reading" /\ pos > SourceLength
Lost == outcome \in {"Failed", "Panicked"} \/ BeyondSource

(* The loop has read message w to its end. *)
LoopDone(w) ==
    /\ outcome = "Parsed" /\ w.end <= SourceLength /\ content = w.payload
    /\ ChunkedEnd = IF w.trailers THEN w.end - 2 ELSE w.end

(* The loop is on a chunk of message w, or it has read all of them, or it   *)
(* is lost because w is cut off or is no chunked body.                      *)
LoopFollows(w) ==
    LET whole == transcript[side].whole
        head == heads[at]
    IN  /\ at \in DOMAIN heads
        /\ WithChunks(whole, w, head) \/ BadChunks(whole, w, head)
        /\ Good(w) => WithChunks(whole, w, head)
        /\ \/ Lost /\ ~ Good(w)
           \/ \E k \in Nat : AtChunk(w, k)
           \/ LoopDone(w) /\ WithChunks(whole, w, head)

(* The iterator has collected k messages and looks for the next one. *)
Position(k) ==
    LET written == transcript[side].written
    IN  /\ Collected(side, k) /\ at = Arrival(written, k + 1)
        /\ phase = "Chunks" => k + 1 \in DOMAIN written /\ LoopFollows(written[k + 1])

SentDone ==
    \E k \in Nat :
        /\ Collected("Sent", k)
        /\ EndOf(transcript["Sent"].written, k) = Cardinality(DOMAIN transcript["Sent"].cells)

(* The messages that are parsed are the messages that were written.         *)
Tracks ==
    /\ \E k \in Nat : Position(k)
    /\ side = "Received" => SentDone
    /\ side = "Sent" => DOMAIN parsed["Received"] = {}
    /\ phase = "Ok" => side = "Received" /\ at >= SourceLength
    /\ WellFormedParses

-------------------------------------------------------------------------------
(* Both sides of a transcript are written streams, and the side that is     *)
(* parsed begins like the whole one.                                        *)
LEMMA StreamFacts ==
    ASSUME transcript \in Transcripts, NEW s \in {"Sent", "Received"}
    PROVE  /\ WrittenStream(s, transcript[s]) /\ InOrder(transcript[s])
           /\ Cardinality(DOMAIN transcript[s].cells) \in Nat
           /\ DOMAIN transcript[s].cells = 0 .. Cardinality(DOMAIN transcript[s].cells) - 1
           /\ transcript[s].written = [k \in 1 .. Len(transcript[s].written) |-> transcript[s].written[k]]
           /\ Len(transcript[s].written) \in Nat
           /\ \A k \in 1 .. Len(transcript[s].written) :
                 /\ transcript[s].written[k].end \in Nat
                 /\ \A j \in 0 .. k - 1 :
                       EndOf(transcript[s].written, j) < transcript[s].written[k].end
PROOF
  <1>1. s \in DOMAIN transcript
    BY TranscriptsAssumption
  <1>2. WrittenStream(s, transcript[s]) /\ InOrder(transcript[s])
    <2>1. WrittenStream(s, transcript[s])
      BY <1>1, WrittenAssumption
    <2> QED
      BY <2>1, Zenon DEF WrittenStream
  <1>3. PICK n \in 0 .. MaxUsize : DOMAIN transcript[s].cells = 0 .. n - 1
    BY <1>1, TranscriptsAssumption
  <1>4. n \in Nat /\ Cardinality(DOMAIN transcript[s].cells) = n
    BY <1>3, SizeOfSpan, UsizeAssumption
  <1>5. PICK written : written = transcript[s].written
    OBVIOUS
  <1>6. /\ written \in Seq({written[k] : k \in DOMAIN written})
        /\ \A k \in DOMAIN written :
              /\ written[k].end \in Nat
              /\ \A j \in 0 .. k - 1 : EndOf(written, j) < written[k].end
    BY <1>2, <1>5 DEF InOrder
  <1>7. Len(written) \in Nat /\ DOMAIN written = 1 .. Len(written)
        /\ written = [k \in 1 .. Len(written) |-> written[k]]
    BY <1>6
  <1> QED
    BY <1>2, <1>3, <1>4, <1>5, <1>6, <1>7

(* The cells of the source are the first ones of the whole stream. *)
Begins(whole) ==
    /\ SourceLength \in Nat /\ DOMAIN src = 0 .. SourceLength - 1
    /\ \E n \in Nat : DOMAIN whole = 0 .. n - 1 /\ Cardinality(DOMAIN whole) = n
                      /\ SourceLength <= n
    /\ \A i \in DOMAIN src : src[i] = whole[i]

LEMMA SourceBegins ==
    ASSUME transcript \in Transcripts, TypeOK
    PROVE  /\ Begins(transcript[side].whole)
           /\ SourceLength = Cardinality(DOMAIN transcript[side].cells)
PROOF
  <1>1. side \in {"Sent", "Received"} /\ SourceLength \in Nat /\ DOMAIN src = 0 .. SourceLength - 1
        /\ src = transcript[side].cells
    BY SideFacts DEF TypeOK
  <1>2. InOrder(transcript[side])
    BY <1>1, StreamFacts
  <1>3. PICK whole, written : whole = transcript[side].whole /\ written = transcript[side].written
    OBVIOUS
  <1>4. Len(written) \in Nat
        /\ \A k \in 1 .. Len(written) : written[k].end \in Nat
    BY <1>1, <1>3, StreamFacts
  <1>5. PICK n \in Nat : n = EndOf(written, Len(written))
    BY <1>4 DEF EndOf
  <1>6. DOMAIN whole = 0 .. n - 1 /\ DOMAIN src \subseteq DOMAIN whole
        /\ src = [i \in DOMAIN src |-> whole[i]]
    BY <1>1, <1>2, <1>3, <1>5 DEF InOrder
  <1>7. Cardinality(DOMAIN whole) = n
    <2>1. Cardinality(0 .. n - 1) = n - 0
      BY SizeOfSpan
    <2> QED
      BY <1>6, <2>1
  <1>8. SourceLength <= n
    BY <1>1, <1>6
  <1>9. \A i \in DOMAIN src : src[i] = whole[i]
    BY <1>6
  <1> QED
    BY <1>1, <1>3, <1>6, <1>7, <1>8, <1>9 DEF Begins, SourceLength

(* Line breaks and lines of the source are those of the whole stream.       *)
LEMMA SameLines ==
    ASSUME NEW whole, Begins(whole), NEW i \in Nat
    PROVE  /\ CrLfAt(i) <=> CrLfIn(whole, i) /\ i + 1 < SourceLength
           /\ i < SourceLength => src[i] = whole[i]
           /\ CrLfIn(whole, i) => i + 1 < Cardinality(DOMAIN whole)
           /\ \A last \in Nat : last <= SourceLength => LineOf(src, i, last) = LineOf(whole, i, last)
PROOF
  <1>1. PICK n \in Nat : DOMAIN whole = 0 .. n - 1 /\ Cardinality(DOMAIN whole) = n /\ SourceLength <= n
    BY DEF Begins
  <1>2. SourceLength \in Nat /\ DOMAIN src = 0 .. SourceLength - 1
        /\ \A j \in DOMAIN src : src[j] = whole[j]
    BY DEF Begins
  <1>3. i < SourceLength => src[i] = whole[i]
    BY <1>2
  <1>4. i + 1 < SourceLength => src[i + 1] = whole[i + 1]
    BY <1>2
  <1>5. CrLfAt(i) <=> CrLfIn(whole, i) /\ i + 1 < SourceLength
    BY <1>1, <1>2, <1>3, <1>4 DEF CrLfAt, CrLfIn
  <1>6. CrLfIn(whole, i) => i + 1 < Cardinality(DOMAIN whole)
    BY <1>1 DEF CrLfIn
  <1>7. ASSUME NEW last \in Nat, last <= SourceLength
        PROVE  LineOf(src, i, last) = LineOf(whole, i, last)
    <2>1. \A j \in i .. last - 1 : src[j] = whole[j]
      BY <1>2, <1>7
    <2> QED
      BY <2>1 DEF LineOf
  <1> QED
    BY <1>3, <1>5, <1>6, <1>7

(* What the loop reads at a size line of which the line break is in the     *)
(* source; if it is not, the line is the rest of the source.                *)
LEMMA LineRead ==
    ASSUME NEW whole, Begins(whole), NEW c \in ChunkRecords, SizeLine(whole, c),
           NEW last \in c.at .. SourceLength, EndsLine(c.at, last)
    PROVE  \/ /\ c.last + 1 < SourceLength
              /\ last = c.last /\ ChunkSize(c.at, last) = {c.size}
           \/ c.last + 1 >= SourceLength /\ last = SourceLength
PROOF
  <1>1. c.at \in Nat /\ c.last \in Nat /\ c.size \in 0 .. MaxUsize
    BY DEF ChunkRecords
  <1>2. SourceLength \in Nat
    BY DEF Begins
  <1>3. /\ c.at < c.last /\ CrLfIn(whole, c.last)
        /\ \A i \in c.at .. c.last - 1 : whole[i] \in DOMAIN DigitValue
        /\ c.size = HexValue(LineOf(whole, c.at, c.last), c.at, c.last)
    BY DEF SizeLine
  <1>4. \A i \in Nat : i < SourceLength => src[i] = whole[i]
    BY SameLines
  <1>5. ~ last < c.last \/ last = SourceLength
    <2> SUFFICES ASSUME last < c.last, last # SourceLength PROVE FALSE
      OBVIOUS
    <2>1. CrLfAt(last)
      BY DEF EndsLine
    <2>2. last \in c.at .. c.last - 1 /\ last \in Nat
      BY <1>1, <1>2
    <2>3. whole[last] \in DOMAIN DigitValue /\ CrLfIn(whole, last)
      BY <1>3, <2>1, <2>2, SameLines
    <2> QED
      BY <2>3, LineAssumption DEF CrLfIn
  <1>6. CASE c.last + 1 < SourceLength
    <2>1. CrLfAt(c.last)
      BY <1>1, <1>3, <1>6, SameLines
    <2>2. ~ c.last < last
      BY <1>1, <1>2, <1>3, <2>1 DEF EndsLine
    <2>3. last = c.last
      BY <1>1, <1>2, <1>5, <1>6, <2>2
    <2>4. \A i \in c.at .. last - 1 : src[i] \in DOMAIN DigitValue
      BY <1>1, <1>2, <1>3, <1>4, <1>6, <2>3
    <2>5. LineOf(src, c.at, last) = LineOf(whole, c.at, c.last)
      BY <1>1, <1>2, <1>6, <2>3, SameLines
    <2>6. ChunkSize(c.at, last) = {c.size}
      BY <1>1, <1>3, <2>3, <2>4, <2>5 DEF ChunkSize
    <2> QED
      BY <1>6, <2>3, <2>6
  <1>7. CASE c.last + 1 >= SourceLength
    <2>1. last = SourceLength
      <3> SUFFICES ASSUME last # SourceLength PROVE FALSE
        OBVIOUS
      <3>1. CrLfAt(last) /\ last \in Nat
        BY <1>1 DEF EndsLine
      <3>2. last + 1 < SourceLength
        BY <3>1, SameLines
      <3> QED
        BY <1>1, <1>2, <1>5, <1>7, <3>1, <3>2
    <2> QED
      BY <1>7, <2>1
  <1> QED
    BY <1>1, <1>2, <1>6, <1>7

(* A line that is no size gives no size, unless it is cut.                  *)
LEMMA NoSizeRead ==
    ASSUME NEW whole, Begins(whole), NEW c \in ChunkRecords, NoSizeLine(whole, c),
           NEW last \in c.at .. SourceLength, EndsLine(c.at, last)
    PROVE  ChunkSize(c.at, last) = {} \/ last = SourceLength
PROOF
  <1>1. c.at \in Nat /\ c.last \in Nat /\ SourceLength \in Nat
    BY DEF ChunkRecords, Begins
  <1>2. /\ c.at <= c.last /\ CrLfIn(whole, c.last)
        /\ \A i \in c.at .. c.last - 1 : ~ CrLfIn(whole, i)
        /\ \/ c.at = c.last
           \/ \E i \in c.at .. c.last - 1 : whole[i] \notin DOMAIN DigitValue
           \/ HexValue(LineOf(whole, c.at, c.last), c.at, c.last) > MaxUsize
    BY DEF NoSizeLine
  <1> SUFFICES ASSUME last # SourceLength PROVE ChunkSize(c.at, last) = {}
    OBVIOUS
  <1>3. CrLfAt(last) /\ last \in Nat /\ \A i \in c.at .. last - 1 : ~ CrLfAt(i)
    BY <1>1 DEF EndsLine
  <1>4. CrLfIn(whole, last) /\ last + 1 < SourceLength
    BY <1>3, SameLines
  <1>5. ~ last < c.last
    BY <1>1, <1>2, <1>3, <1>4
  <1>6. ~ c.last < last
    <2> SUFFICES ASSUME c.last < last PROVE FALSE
      OBVIOUS
    <2>1. c.last + 1 < SourceLength
      BY <1>1, <1>3, <1>4
    <2>2. CrLfAt(c.last)
      BY <1>1, <1>2, <2>1, SameLines
    <2> QED
      BY <1>1, <1>2, <1>3, <2>2
  <1>7. last = c.last
    BY <1>1, <1>3, <1>5, <1>6
  <1>8. LineOf(src, c.at, last) = LineOf(whole, c.at, c.last)
    BY <1>1, <1>3, <1>4, <1>7, SameLines
  <1>9. \A i \in c.at .. last - 1 : src[i] = whole[i]
    BY <1>1, <1>3, <1>4, SameLines
  <1>10. \/ ~ last > c.at
         \/ \E i \in c.at .. last - 1 : src[i] \notin DOMAIN DigitValue
         \/ HexValue(LineOf(src, c.at, last), c.at, last) \notin 0 .. MaxUsize
    BY <1>1, <1>2, <1>7, <1>8, <1>9, UsizeAssumption
  <1> QED
    BY <1>10 DEF ChunkSize

-------------------------------------------------------------------------------
(* An iteration in which no sum wraps. *)
Reads == Iterate /\ sums' # "Wrapped"

(* At the end of the source there is no way to succeed: the loop fails, or  *)
(* it is beyond the source behind the step.                                 *)
LEMMA CutLine ==
    ASSUME SourceLength \in Nat, DOMAIN src = 0 .. SourceLength - 1, pos \in Nat,
           src' = src, Reads,
           \/ pos > SourceLength
           \/ \A last \in pos .. SourceLength :
                 EndsLine(pos, last) => ChunkSize(pos, last) = {} \/ last = SourceLength
    PROVE  outcome' \in {"Failed", "Panicked"} \/ BeyondSource'
PROOF
  <1>1. SourceLength' = SourceLength /\ outcome = "Reading"
    BY DEF SourceLength, Reads, Iterate
  <1>2. CASE Ends("Failed") \/ Ends("Panicked")
    BY <1>2 DEF Ends
  <1>3. ASSUME NEW last \in pos .. SourceLength, EndsLine(pos, last),
               \/ BadSize(last) \/ Chunk(last) \/ ChunkOverflows(last) \/ LastChunkPanics(last)
               \/ LastChunk(last) \/ LastChunkWithTrailer(last) \/ MissingTrailerEnd(last)
        PROVE  outcome' \in {"Failed", "Panicked"} \/ BeyondSource'
    <2>1. last \in Nat /\ pos <= SourceLength
      OBVIOUS
    <2>2. ChunkSize(pos, last) = {} \/ last = SourceLength
      BY <1>3, <2>1
    <2>3. CASE Chunk(last)
      <3>1. PICK size \in ChunkSize(pos, last) \ {0} :
              pos' = last + 2 + size + 2 /\ outcome' = outcome
        BY <2>3 DEF Chunk
      <3>2. size \in Nat /\ last = SourceLength
        BY <2>2, <3>1, ChunkSizeType, UsizeAssumption
      <3> QED
        BY <1>1, <3>1, <3>2 DEF BeyondSource
    <2>4. ~ LastChunk(last)
      BY <2>1, <2>2 DEF LastChunk, CrLfAt, CrLfIn
    <2>5. ~ LastChunkWithTrailer(last)
      <3>1. CASE ChunkSize(pos, last) = {}
        BY <3>1 DEF LastChunkWithTrailer
      <3>2. CASE last = SourceLength
        <4>1. last + 2 .. SourceLength = {}
          BY <2>1, <3>2
        <4> QED
          BY <4>1 DEF LastChunkWithTrailer
      <3> QED
        BY <2>2, <3>1, <3>2
    <2> QED
      BY <1>2, <1>3, <2>3, <2>4, <2>5 DEF BadSize, ChunkOverflows, LastChunkPanics, MissingTrailerEnd
  <1> QED
    BY <1>1, <1>2, <1>3 DEF Reads, Iterate, SlicePanics, ChunkWraps

(* The end of a chunked message, from where the loop found the empty line.  *)
LEMMA EndOfLoop ==
    ASSUME NEW start \in Nat, LoopOK(start), NEW last \in Nat, pos <= last,
           NEW stop \in Nat, last + 2 <= stop,
           structure' = structure \cup (pos .. last + 1),
           trailer' = last + 2 .. stop - 1
    PROVE  ChunkedEnd' = stop + 2
PROOF
  <1>1. pos \in Nat /\ start <= pos /\ structure \subseteq start .. pos - 1
    BY DEF LoopOK
  <1>2. CASE stop = last + 2
    <2>1. trailer' = {}
      BY <1>2
    <2>2. structure' \in SUBSET Nat /\ last + 1 \in structure'
          /\ \A i \in structure' : i <= last + 1
      BY <1>1
    <2>3. SetEnd(structure') = last + 2
      BY <2>2, EndOfSet
    <2> QED
      BY <1>2, <2>1, <2>3 DEF ChunkedEnd, SetEnd
  <1>3. CASE stop > last + 2
    <2>1. /\ trailer' \in SUBSET Nat /\ stop - 1 \in trailer'
          /\ \A i \in trailer' : i <= stop - 1
      BY <1>3
    <2>2. SetEnd(trailer') = stop
      BY <2>1, EndOfSet
    <2> QED
      BY <2>1, <2>2 DEF ChunkedEnd, SetEnd
  <1> QED
    BY <1>2, <1>3

(* All chunks lie before the end of the trailer section: otherwise take the *)
(* last one of which this is not true.                                      *)
LEMMA ChunksBeforeStop ==
    ASSUME NEW s, NEW chunks, NEW stop \in Nat, Layout(s, chunks, stop),
           NEW k \in DOMAIN chunks
    PROVE  chunks[k].last + 2 <= stop
PROOF
  <1>1. PICK n \in Nat : n = Len(chunks)
    BY DEF Layout, Chain
  <1>2. /\ n \in 1 .. n /\ DOMAIN chunks = 1 .. n /\ chunks \in Seq(ChunkRecords)
        /\ \A i \in 1 .. n - 1 :
              chunks[i + 1].at = chunks[i].last + 2 + chunks[i].size + 2
        /\ \A i \in 1 .. n : SizeLine(s, chunks[i])
        /\ TrailerSection(s, chunks[n].last + 2, stop)
    BY <1>1 DEF Layout, Chain
  <1>3. \A i \in 1 .. n :
           /\ chunks[i].at \in Nat /\ chunks[i].last \in Nat /\ chunks[i].size \in Nat
           /\ chunks[i].at < chunks[i].last
    <2> SUFFICES ASSUME NEW i \in 1 .. n
                 PROVE  /\ chunks[i].at \in Nat /\ chunks[i].last \in Nat /\ chunks[i].size \in Nat
                        /\ chunks[i].at < chunks[i].last
      OBVIOUS
    <2>1. chunks[i] \in ChunkRecords
      BY <1>2
    <2> QED
      BY <1>2, <2>1, UsizeAssumption DEF ChunkRecords, SizeLine
  <1> DEFINE Late == {d \in Nat : d < n /\ chunks[n - d].last + 2 > stop}
  <1>4. chunks[n].last + 2 <= stop
    BY <1>2, <1>3 DEF TrailerSection
  <1>5. Late = {}
    <2> SUFFICES ASSUME Late # {} PROVE FALSE
      OBVIOUS
    <2>1. PICK d \in Late : \A e \in Late : d <= e
      BY LeastElement
    <2>2. d \in Nat /\ d < n /\ chunks[n - d].last + 2 > stop
      OBVIOUS
    <2>7. d # 0
      <3>1. n - 0 = n
        OBVIOUS
      <3> QED
        BY <1>2, <1>3, <1>4, <2>2, <3>1
    <2>3. d - 1 \in Nat /\ d - 1 < n /\ d - 1 \notin Late
      BY <2>1, <2>2, <2>7
    <2> HIDE DEF Late
    <2>4. PICK i \in 1 .. n - 1 : i = n - d /\ i + 1 = n - (d - 1)
      BY <2>2, <2>7
    <2>5. ~ chunks[i + 1].last + 2 > stop
      BY <2>3, <2>4 DEF Late
    <2>6. chunks[i + 1].at = chunks[i].last + 2 + chunks[i].size + 2
          /\ i \in 1 .. n /\ i + 1 \in 1 .. n
      BY <1>2, <2>4
    <2> QED
      BY <1>3, <2>2, <2>4, <2>5, <2>6
  <1>6. n - k \in Nat /\ n - k < n /\ n - (n - k) = k
    BY <1>2
  <1> QED
    BY <1>2, <1>3, <1>5, <1>6

-------------------------------------------------------------------------------
(* The chunks of a body that ends in a trailer section, or nowhere.         *)
LEMMA ChunkFacts ==
    ASSUME NEW whole, NEW w, NEW head, Begins(whole),
           WithChunks(whole, w, head) \/ BadChunks(whole, w, head)
    PROVE  \E n \in Nat :
             /\ n = Len(w.chunks) /\ n \in 1 .. n /\ DOMAIN w.chunks = 1 .. n
             /\ w.chunks[1].at = head.end
             /\ \A k \in 1 .. n : w.chunks[k] \in ChunkRecords
             /\ \A k \in 1 .. n - 1 :
                   /\ SizeLine(whole, w.chunks[k]) /\ w.chunks[k].size # 0
                   /\ w.chunks[k + 1].at = w.chunks[k].last + 2 + w.chunks[k].size + 2
PROOF
  <1>1. Chain(whole, w.chunks) /\ w.chunks[1].at = head.end
    BY DEF WithChunks, BadChunks, Layout, BrokenLayout
  <1>2. PICK chunks \in Seq(ChunkRecords) : chunks = w.chunks
    BY <1>1 DEF Chain
  <1>3. PICK n \in Nat : n = Len(chunks) /\ DOMAIN chunks = 1 .. n
    BY <1>2
  <1>4. n # 0
    BY <1>1, <1>2, <1>3 DEF Chain
  <1>5. \A k \in 1 .. n : chunks[k] \in ChunkRecords
    BY <1>2, <1>3
  <1>6. \A k \in 1 .. n - 1 :
           /\ SizeLine(whole, chunks[k]) /\ chunks[k].size # 0
           /\ chunks[k + 1].at = chunks[k].last + 2 + chunks[k].size + 2
    BY <1>1, <1>2, <1>3 DEF Chain
  <1> QED
    BY <1>1, <1>2, <1>3, <1>4, <1>5, <1>6

(* The last chunk and the end of a body that is there. *)
LEMMA LastChunkFacts ==
    ASSUME NEW whole, NEW w, NEW head, Begins(whole), WithChunks(whole, w, head),
           NEW n \in Nat, n = Len(w.chunks), NEW c, c = w.chunks[n]
    PROVE  /\ SizeLine(whole, c) /\ c.size = 0
           /\ w.stop \in Nat /\ CrLfIn(whole, w.stop)
           /\ \/ /\ w.stop = c.last + 2 /\ ~ w.trailers /\ w.end = w.stop + 2
              \/ /\ c.last + 2 < w.stop /\ w.trailers /\ w.end = w.stop + 4
                 /\ ~ CrLfIn(whole, c.last + 2) /\ CrLfIn(whole, w.stop + 2)
                 /\ \A i \in c.last + 2 .. w.stop - 1 : ~ (CrLfIn(whole, i) /\ CrLfIn(whole, i + 2))
           /\ \A k \in DOMAIN w.chunks : w.chunks[k].last + 2 <= w.stop
           /\ c.last \in Nat
PROOF
  <1>1. /\ SizeLine(whole, c) /\ c.size = 0 /\ TrailerSection(whole, c.last + 2, w.stop)
        /\ Layout(whole, w.chunks, w.stop)
        /\ w.trailers <=> c.last + 2 < w.stop
        /\ w.end = IF w.trailers THEN w.stop + 4 ELSE w.stop + 2
    BY DEF WithChunks, Layout
  <1>2. CrLfIn(whole, w.stop)
    BY <1>1 DEF TrailerSection
  <1>3. w.stop \in Nat
    <2>1. PICK m \in Nat : DOMAIN whole = 0 .. m - 1
      BY DEF Begins
    <2> QED
      BY <1>2, <2>1 DEF CrLfIn
  <1>4. \A k \in DOMAIN w.chunks : w.chunks[k].last + 2 <= w.stop
    BY <1>1, <1>3, ChunksBeforeStop
  <1>5. c.last \in Nat
    <2>1. c \in ChunkRecords
      <3>1. PICK chunks \in Seq(ChunkRecords) : chunks = w.chunks /\ chunks # << >>
        BY <1>1 DEF Layout, Chain
      <3>2. n \in DOMAIN chunks
        BY <3>1
      <3> QED
        BY <3>1, <3>2
    <2> QED
      BY <2>1 DEF ChunkRecords
  <1>6. CASE w.stop = c.last + 2
    <2>1. ~ w.trailers
      BY <1>1, <1>3, <1>5, <1>6
    <2> QED
      BY <1>1, <1>2, <1>3, <1>4, <1>5, <1>6, <2>1
  <1>7. CASE /\ c.last + 2 < w.stop /\ ~ CrLfIn(whole, c.last + 2) /\ CrLfIn(whole, w.stop + 2)
             /\ \A i \in c.last + 2 .. w.stop - 1 : ~ (CrLfIn(whole, i) /\ CrLfIn(whole, i + 2))
    <2>1. w.trailers
      BY <1>1, <1>7
    <2> QED
      BY <1>1, <1>2, <1>3, <1>4, <1>5, <1>7, <2>1
  <1> QED
    BY <1>1, <1>6, <1>7 DEF TrailerSection

(* The chunks of a message that must not be refused are in the source. *)
LEMMA GoodChunks ==
    ASSUME NEW whole, NEW w, NEW head, Begins(whole), WithChunks(whole, w, head), Good(w),
           NEW k \in DOMAIN w.chunks
    PROVE  w.chunks[k].last + 2 < SourceLength
PROOF
  <1>1. PICK n \in Nat : n = Len(w.chunks) /\ DOMAIN w.chunks = 1 .. n
        /\ \A j \in 1 .. n : w.chunks[j] \in ChunkRecords
    BY ChunkFacts
  <1>2. PICK c : c = w.chunks[n]
    OBVIOUS
  <1>3. w.stop \in Nat /\ w.chunks[k].last + 2 <= w.stop
        /\ (w.end = w.stop + 2 \/ w.end = w.stop + 4)
    BY <1>1, <1>2, LastChunkFacts
  <1>4. w.chunks[k].last \in Nat
    BY <1>1 DEF ChunkRecords
  <1>5. SourceLength \in Nat /\ w.end <= SourceLength
    BY DEF Good, Begins
  <1> QED
    BY <1>3, <1>4, <1>5

(* From a chunk with data the loop goes on to the next one, if the line and *)
(* the position behind the data are there.                                  *)
LEMMA ChunkFollows ==
    ASSUME NEW whole, NEW w, NEW head, Begins(whole), SourceLength <= MaxUsize,
           WithChunks(whole, w, head) \/ BadChunks(whole, w, head),
           Good(w) => WithChunks(whole, w, head),
           NEW k \in Nat, AtChunk(w, k), k # Len(w.chunks), src' = src, Reads
    PROVE  AtChunk(w, k + 1)' \/ (~ Good(w) /\ Lost')
PROOF
  <1>1. PICK n \in Nat :
          /\ n = Len(w.chunks) /\ DOMAIN w.chunks = 1 .. n
          /\ \A j \in 1 .. n : w.chunks[j] \in ChunkRecords
          /\ \A j \in 1 .. n - 1 :
                /\ SizeLine(whole, w.chunks[j]) /\ w.chunks[j].size # 0
                /\ w.chunks[j + 1].at = w.chunks[j].last + 2 + w.chunks[j].size + 2
    BY ChunkFacts
  <1>2. /\ outcome = "Reading" /\ trailer = {} /\ k \in DOMAIN w.chunks /\ pos = w.chunks[k].at
        /\ content = UNION {DataOfChunk(w.chunks[j]) : j \in 1 .. k - 1}
    BY DEF AtChunk
  <1>3. k \in 1 .. n - 1 /\ k + 1 \in 1 .. n
    BY <1>1, <1>2
  <1>4. PICK c \in ChunkRecords : c = w.chunks[k]
    BY <1>1, <1>2
  <1>5. PICK d \in ChunkRecords : d = w.chunks[k + 1]
    BY <1>1, <1>3
  <1>6. /\ c.at \in Nat /\ c.last \in Nat /\ c.size \in Nat /\ c.size # 0 /\ SizeLine(whole, c)
        /\ d.at = c.last + 2 + c.size + 2 /\ c.at < c.last
    BY <1>1, <1>3, <1>4, <1>5, UsizeAssumption DEF ChunkRecords, SizeLine
  <1>7. SourceLength \in Nat /\ DOMAIN src = 0 .. SourceLength - 1 /\ SourceLength' = SourceLength
    BY DEF Begins, SourceLength
  <1>8. Good(w) => c.last + 2 < SourceLength /\ d.last + 2 < SourceLength /\ d.at < d.last
    <2> SUFFICES ASSUME Good(w)
                 PROVE  c.last + 2 < SourceLength /\ d.last + 2 < SourceLength /\ d.at < d.last
      OBVIOUS
    <2>1. w.chunks[k].last + 2 < SourceLength /\ w.chunks[k + 1].last + 2 < SourceLength
      BY <1>1, <1>2, <1>3, GoodChunks
    <2>2. SizeLine(whole, d)
      <3>1. CASE k + 1 = n
        BY <1>1, <1>5, <3>1, LastChunkFacts
      <3>2. CASE k + 1 # n
        <4>1. k + 1 \in 1 .. n - 1
          BY <1>3, <3>2
        <4> QED
          BY <1>1, <1>5, <4>1
      <3> QED
        BY <3>1, <3>2
    <2> QED
      BY <1>4, <1>5, <2>1, <2>2 DEF SizeLine
  <1>9. ASSUME NEW last \in pos .. SourceLength, EndsLine(pos, last)
        PROVE  \/ /\ c.last + 1 < SourceLength
                  /\ last = c.last /\ ChunkSize(pos, last) = {c.size}
               \/ c.last + 1 >= SourceLength /\ last = SourceLength
    BY <1>2, <1>4, <1>6, <1>9, LineRead
  <1>10. CASE pos > SourceLength \/ c.last + 1 >= SourceLength
    <2>1. \/ pos > SourceLength
          \/ \A last \in pos .. SourceLength :
                 EndsLine(pos, last) => ChunkSize(pos, last) = {} \/ last = SourceLength
      BY <1>6, <1>7, <1>9, <1>10
    <2>2. Lost'
      BY <1>2, <1>4, <1>6, <1>7, <2>1, CutLine DEF Lost
    <2>3. ~ Good(w)
      <3>1. PICK a \in Nat, b \in Nat : a = c.at /\ b = c.last
        BY <1>6
      <3>2. pos = a /\ a < b
        BY <1>2, <1>4, <1>6, <3>1
      <3>3. Good(w) => b + 2 < SourceLength
        BY <1>8, <3>1
      <3>4. pos > SourceLength \/ b + 1 >= SourceLength
        BY <1>10, <3>1
      <3> QED
        BY <1>7, <3>2, <3>3, <3>4
    <2> QED
      BY <2>2, <2>3
  <1>11. CASE pos <= SourceLength /\ c.last + 1 < SourceLength
    <2>1. PICK last \in pos .. SourceLength :
            /\ EndsLine(pos, last)
            /\ \/ BadSize(last) \/ Chunk(last) \/ ChunkOverflows(last) \/ LastChunkPanics(last)
               \/ LastChunk(last) \/ LastChunkWithTrailer(last) \/ MissingTrailerEnd(last)
      <3>1. ~ SlicePanics
        <4>1. PICK a \in Nat : a = pos
          BY <1>2, <1>4, <1>6
        <4> QED
          BY <1>7, <1>11, <4>1 DEF SlicePanics
      <3>2. \A last : ~ ChunkWraps(last)
        BY DEF Reads, ChunkWraps
      <3> QED
        BY <3>1, <3>2, Zenon DEF Reads, Iterate
    <2>2. last = c.last /\ ChunkSize(pos, last) = {c.size}
      BY <1>6, <1>7, <1>9, <1>11, <2>1
    <2>3. Chunk(last) \/ ChunkOverflows(last)
      BY <1>6, <2>1, <2>2
      DEF BadSize, LastChunkPanics, LastChunk, LastChunkWithTrailer, MissingTrailerEnd
    <2>4. CASE ChunkOverflows(last)
      <3>1. d.at > MaxUsize /\ outcome' = "Panicked"
        BY <1>6, <2>2, <2>4 DEF ChunkOverflows, Ends
      <3>2. ~ Good(w)
        <4>1. d.at \in Nat /\ d.last \in Nat
          BY DEF ChunkRecords
        <4> QED
          BY <1>7, <1>8, <3>1, <4>1, UsizeAssumption
      <3> QED
        BY <3>1, <3>2 DEF Lost
    <2>5. CASE Chunk(last)
      <3>1. /\ content' = content \cup (last + 2 .. last + 2 + c.size - 1)
            /\ pos' = last + 2 + c.size + 2
            /\ UNCHANGED <<trailer, outcome>>
        BY <2>2, <2>5 DEF Chunk
      <3>2. PICK before : before = 1 .. k - 1
        OBVIOUS
      <3>3. 1 .. (k + 1) - 1 = before \cup {k}
        BY <1>3, <3>2
      <3>4. content' = content \cup DataOfChunk(w.chunks[k])
        BY <1>4, <2>2, <3>1 DEF DataOfChunk
      <3>5. content = UNION {DataOfChunk(w.chunks[j]) : j \in before}
        BY <1>2, <3>2
      <3>6. content' = UNION {DataOfChunk(w.chunks[j]) : j \in before \cup {k}}
        BY <3>4, <3>5
      <3>7. content' = UNION {DataOfChunk(w.chunks[j]) : j \in 1 .. (k + 1) - 1}
        BY <3>3, <3>6
      <3>8. outcome' = "Reading" /\ trailer' = {} /\ k + 1 \in DOMAIN w.chunks
            /\ pos' = w.chunks[k + 1].at
        BY <1>1, <1>2, <1>3, <1>5, <1>6, <2>2, <3>1
      <3> QED
        BY <3>7, <3>8 DEF AtChunk
    <2> QED
      BY <2>3, <2>4, <2>5
  <1> QED
    BY <1>2, <1>4, <1>6, <1>7, <1>10, <1>11, SMTT(30)

(* At the last chunk of a body the loop ends, with all of the payload, if   *)
(* everything up to the end of the message is there.                        *)
LEMMA LastChunkFollows ==
    ASSUME NEW whole, NEW w, NEW head, Begins(whole), WithChunks(whole, w, head),
           NEW start \in Nat, LoopOK(start), NEW k \in Nat, AtChunk(w, k), k = Len(w.chunks),
           src' = src, Reads
    PROVE  LoopDone(w)' \/ (~ Good(w) /\ Lost')
PROOF
  <1>1. PICK n \in Nat :
          /\ n = Len(w.chunks) /\ DOMAIN w.chunks = 1 .. n
          /\ \A j \in 1 .. n : w.chunks[j] \in ChunkRecords
    BY ChunkFacts
  <1>2. /\ outcome = "Reading" /\ trailer = {} /\ k = n /\ k \in 1 .. n /\ pos = w.chunks[k].at
        /\ content = UNION {DataOfChunk(w.chunks[j]) : j \in 1 .. k - 1}
    BY <1>1 DEF AtChunk
  <1>3. PICK c \in ChunkRecords : c = w.chunks[k]
    BY <1>1, <1>2
  <1>4. /\ SizeLine(whole, c) /\ c.size = 0
        /\ w.stop \in Nat /\ CrLfIn(whole, w.stop)
        /\ \/ /\ w.stop = c.last + 2 /\ ~ w.trailers /\ w.end = w.stop + 2
           \/ /\ c.last + 2 < w.stop /\ w.trailers /\ w.end = w.stop + 4
              /\ ~ CrLfIn(whole, c.last + 2) /\ CrLfIn(whole, w.stop + 2)
              /\ \A i \in c.last + 2 .. w.stop - 1 : ~ (CrLfIn(whole, i) /\ CrLfIn(whole, i + 2))
    BY <1>1, <1>2, <1>3, LastChunkFacts
  <1>5. c.at \in Nat /\ c.last \in Nat /\ c.at < c.last
    BY <1>4 DEF ChunkRecords, SizeLine
  <1>6. SourceLength \in Nat /\ DOMAIN src = 0 .. SourceLength - 1 /\ SourceLength' = SourceLength
    BY DEF Begins, SourceLength
  <1>7. Good(w) => w.end <= SourceLength
    BY DEF Good
  <1>13. w.stop \in Nat
    BY <1>4
  <1>12. c.last + 4 <= w.end /\ w.end \in Nat
    <2>1. w.stop \in Nat /\ c.last + 2 <= w.stop
      BY <1>4, <1>5
    <2>2. w.end = w.stop + 2 \/ w.end = w.stop + 4
      BY <1>4
    <2>3. PICK a \in Nat, b \in Nat : a = c.last /\ b = w.stop
      BY <1>5, <2>1
    <2>4. a + 2 <= b /\ (w.end = b + 2 \/ w.end = b + 4)
      BY <2>1, <2>2, <2>3
    <2>5. a + 4 <= w.end /\ w.end \in Nat
      BY <2>4
    <2> QED
      BY <2>3, <2>5
  <1>8. ASSUME NEW last \in pos .. SourceLength, EndsLine(pos, last)
        PROVE  \/ /\ c.last + 1 < SourceLength
                  /\ last = c.last /\ ChunkSize(pos, last) = {c.size}
               \/ c.last + 1 >= SourceLength /\ last = SourceLength
    BY <1>2, <1>3, <1>4, <1>8, LineRead
  <1>9. content = w.payload
    <2>1. PICK before : before = 1 .. k - 1
      OBVIOUS
    <2>2. DOMAIN w.chunks = before \cup {k}
      BY <1>1, <1>2, <2>1
    <2>3. w.payload = UNION {DataOfChunk(w.chunks[j]) : j \in before \cup {k}}
      BY <2>2 DEF WithChunks, DataOfChunks
    <2>4. DataOfChunk(w.chunks[k]) = {}
      BY <1>3, <1>4, <1>5 DEF DataOfChunk
    <2>5. content = UNION {DataOfChunk(w.chunks[j]) : j \in before}
      BY <1>2, <2>1
    <2> QED
      BY <2>3, <2>4, <2>5
  <1>10. CASE pos > SourceLength \/ c.last + 1 >= SourceLength
    <2>1. \/ pos > SourceLength
          \/ \A last \in pos .. SourceLength :
                 EndsLine(pos, last) => ChunkSize(pos, last) = {} \/ last = SourceLength
      BY <1>5, <1>6, <1>8, <1>10
    <2>2. Lost'
      BY <1>2, <1>3, <1>5, <1>6, <2>1, CutLine DEF Lost
    <2>3. ~ Good(w)
      BY <1>2, <1>3, <1>5, <1>6, <1>7, <1>10, <1>12, SMTT(30)
    <2> QED
      BY <2>2, <2>3
  <1>11. CASE pos <= SourceLength /\ c.last + 1 < SourceLength
    <2>1. PICK last \in pos .. SourceLength :
            /\ EndsLine(pos, last)
            /\ \/ BadSize(last) \/ Chunk(last) \/ ChunkOverflows(last) \/ LastChunkPanics(last)
               \/ LastChunk(last) \/ LastChunkWithTrailer(last) \/ MissingTrailerEnd(last)
      <3>1. ~ SlicePanics
        <4>1. PICK a \in Nat : a = pos
          BY <1>2, <1>3, <1>5
        <4> QED
          BY <1>6, <1>11, <4>1 DEF SlicePanics
      <3>2. \A last : ~ ChunkWraps(last)
        BY DEF Reads, ChunkWraps
      <3> QED
        BY <3>1, <3>2, Zenon DEF Reads, Iterate
    <2>2. last = c.last /\ ChunkSize(pos, last) = {0} /\ last \in Nat /\ pos <= last
      BY <1>2, <1>3, <1>4, <1>5, <1>6, <1>8, <1>11, <2>1
    <2>3. LastChunk(last) \/ LastChunkWithTrailer(last) \/ MissingTrailerEnd(last)
      BY <1>6, <1>11, <2>1, <2>2 DEF BadSize, Chunk, ChunkOverflows, LastChunkPanics
    <2>4. \A i \in Nat : CrLfAt(i) <=> CrLfIn(whole, i) /\ i + 1 < SourceLength
      BY SameLines
    <2>5. CASE LastChunk(last)
      <3>1. CrLfAt(last + 2) /\ last + 2 \in Nat
        BY <2>2, <2>5 DEF LastChunk
      <3>2. w.stop = last + 2 /\ ~ w.trailers /\ w.end = last + 4 /\ w.end <= SourceLength
        BY <1>4, <1>6, <2>2, <2>4, <3>1
      <3>3. /\ structure' = structure \cup (pos .. last + 1) /\ trailer' = trailer
            /\ outcome' = "Parsed" /\ content' = content
        BY <2>5 DEF LastChunk
      <3>4. trailer' = last + 2 .. (last + 2) - 1
        BY <1>2, <2>2, <3>3
      <3>5. ChunkedEnd' = (last + 2) + 2
        BY <2>2, <3>1, <3>3, <3>4, EndOfLoop
      <3>6. ChunkedEnd' = w.end
        BY <2>2, <3>2, <3>5
      <3> QED
        BY <1>6, <1>9, <3>2, <3>3, <3>6 DEF LoopDone
    <2>6. CASE LastChunkWithTrailer(last)
      <3>1. PICK stop \in last + 2 .. SourceLength :
              /\ ~ CrLfAt(last + 2) /\ EmptyLineAt(stop)
              /\ \A i \in last + 2 .. stop - 1 : ~ EmptyLineAt(i)
              /\ structure' = structure \cup (pos .. last + 1)
              /\ trailer' = trailer \cup (last + 2 .. stop - 1)
              /\ outcome' = "Parsed" /\ content' = content
        BY <2>6 DEF LastChunkWithTrailer
      <3>2. stop \in Nat /\ last + 2 <= stop /\ stop + 2 \in Nat /\ last + 2 \in Nat
        BY <1>6, <2>2
      <3>3. CrLfAt(stop) /\ CrLfAt(stop + 2)
        BY <3>1 DEF EmptyLineAt
      <3>4. CrLfIn(whole, stop) /\ CrLfIn(whole, stop + 2) /\ (stop + 2) + 1 < SourceLength
        BY <2>4, <3>2, <3>3
      <3>5. w.stop # last + 2
        BY <1>4, <1>6, <2>2, <2>4, <3>1, <3>2, <3>4
      <3>6. /\ last + 2 < w.stop /\ w.trailers /\ w.end = w.stop + 4
            /\ CrLfIn(whole, w.stop + 2)
            /\ \A i \in last + 2 .. w.stop - 1 : ~ (CrLfIn(whole, i) /\ CrLfIn(whole, i + 2))
        BY <1>4, <2>2, <3>5
      <3>7. ~ stop < w.stop
        BY <1>4, <3>1, <3>2, <3>4, <3>6
      <3>8. ~ w.stop < stop
        <4> SUFFICES ASSUME w.stop < stop PROVE FALSE
          OBVIOUS
        <4>4. PICK a \in Nat : a = w.stop
          BY <1>13
        <4>5. a < stop /\ last + 2 < a
          BY <3>6, <4>4
        <4>1. a + 1 < SourceLength /\ (a + 2) + 1 < SourceLength /\ a + 2 \in Nat
          BY <1>6, <3>2, <3>4, <4>5
        <4>2. CrLfAt(w.stop) /\ CrLfAt(w.stop + 2)
          BY <1>4, <2>4, <3>6, <4>1, <4>4
        <4>3. w.stop \in last + 2 .. stop - 1
          BY <3>2, <4>4, <4>5
        <4> QED
          BY <3>1, <4>2, <4>3 DEF EmptyLineAt
      <3>9. stop = w.stop
        BY <1>4, <3>2, <3>7, <3>8
      <3>10. trailer' = last + 2 .. stop - 1
        BY <1>2, <3>1
      <3>11. ChunkedEnd' = stop + 2
        BY <2>2, <3>1, <3>2, <3>10, EndOfLoop
      <3>12. ChunkedEnd' = w.end - 2 /\ w.end <= SourceLength
        <4>1. w.end = stop + 4
          BY <3>6, <3>9
        <4> QED
          BY <1>6, <3>2, <3>4, <3>11, <4>1
      <3> QED
        BY <1>6, <1>9, <3>1, <3>6, <3>12 DEF LoopDone
    <2>7. CASE MissingTrailerEnd(last)
      <3>1. /\ outcome' = "Failed" /\ ~ CrLfAt(last + 2)
            /\ \A i \in last + 2 .. SourceLength : ~ EmptyLineAt(i)
        BY <2>7 DEF MissingTrailerEnd, Ends
      <3>2. ASSUME w.end <= SourceLength PROVE FALSE
        <4>1. CASE w.stop = c.last + 2 /\ w.end = w.stop + 2
          <5>1. w.stop + 1 < SourceLength
            BY <1>4, <1>6, <3>2, <4>1
          <5>2. CrLfAt(w.stop)
            BY <1>4, <2>4, <5>1
          <5> QED
            BY <2>2, <3>1, <4>1, <5>2
        <4>2. CASE /\ c.last + 2 < w.stop /\ w.end = w.stop + 4 /\ CrLfIn(whole, w.stop + 2)
          <5>1. /\ w.stop + 1 < SourceLength /\ (w.stop + 2) + 1 < SourceLength
                /\ w.stop + 2 \in Nat /\ w.stop \in last + 2 .. SourceLength
            <6>1. PICK stop \in Nat : stop = w.stop
              BY <1>13
            <6>2. w.end = stop + 4 /\ last + 2 < stop
              BY <2>2, <4>2, <6>1
            <6>3. stop + 4 <= SourceLength
              BY <3>2, <6>2
            <6>4. /\ stop + 1 < SourceLength /\ (stop + 2) + 1 < SourceLength
                  /\ stop + 2 \in Nat /\ stop \in last + 2 .. SourceLength
              BY <1>6, <2>2, <6>2, <6>3
            <6> QED
              BY <6>1, <6>4
          <5>2. CrLfAt(w.stop) /\ CrLfAt(w.stop + 2)
            BY <1>4, <2>4, <4>2, <5>1
          <5> QED
            BY <3>1, <5>1, <5>2 DEF EmptyLineAt
        <4> QED
          BY <1>4, <4>1, <4>2
      <3> QED
        BY <1>7, <3>1, <3>2 DEF Lost
    <2> QED
      BY <2>3, <2>5, <2>6, <2>7
  <1> QED
    <2>1. PICK a \in Nat, b \in Nat : a = pos /\ b = c.last
      BY <1>2, <1>3, <1>5
    <2>2. \/ pos > SourceLength \/ c.last + 1 >= SourceLength
          \/ pos <= SourceLength /\ c.last + 1 < SourceLength
      BY <1>6, <2>1
    <2> QED
      BY <1>10, <1>11, <2>2

(* Where the body is broken the loop fails. *)
LEMMA BrokenFollows ==
    ASSUME NEW whole, NEW w, NEW head, Begins(whole), BadChunks(whole, w, head),
           NEW k \in Nat, AtChunk(w, k), k = Len(w.chunks), src' = src, Reads
    PROVE  Lost'
PROOF
  <1>1. PICK n \in Nat :
          /\ n = Len(w.chunks) /\ DOMAIN w.chunks = 1 .. n
          /\ \A j \in 1 .. n : w.chunks[j] \in ChunkRecords
    BY ChunkFacts
  <1>2. PICK c \in ChunkRecords : c = w.chunks[k]
    BY <1>1 DEF AtChunk
  <1>3. pos = c.at /\ (c.at > Cardinality(DOMAIN whole) \/ NoSizeLine(whole, c))
    BY <1>2 DEF AtChunk, BadChunks, BrokenLayout
  <1>4. c.at \in Nat /\ SourceLength \in Nat /\ DOMAIN src = 0 .. SourceLength - 1
    BY DEF ChunkRecords, Begins
  <1>5. CASE c.at > Cardinality(DOMAIN whole)
    <2>1. PICK m \in Nat : m = Cardinality(DOMAIN whole) /\ SourceLength <= m
      BY DEF Begins
    <2>2. pos > SourceLength
      BY <1>3, <1>4, <1>5, <2>1
    <2> QED
      BY <1>3, <1>4, <2>2, CutLine DEF Lost
  <1>6. CASE NoSizeLine(whole, c)
    <2>1. \A last \in c.at .. SourceLength :
             EndsLine(c.at, last) => ChunkSize(c.at, last) = {} \/ last = SourceLength
      BY <1>6, NoSizeRead
    <2> QED
      BY <1>3, <1>4, <2>1, CutLine DEF Lost
  <1> QED
    BY <1>3, <1>5, <1>6

(* An iteration of the loop in a message that is followed. *)
LEMMA LoopFollowsStep ==
    ASSUME IInv, NEW w, LoopFollows(w), LoopOK(heads[at].end), Reads,
           UNCHANGED <<src, transcript, side, at, parsed, phase>>
    PROVE  LoopFollows(w)'
PROOF
  <1>1. PICK whole : whole = transcript[side].whole
    OBVIOUS
  <1>2. PICK head : head = heads[at]
    OBVIOUS
  <1>3. /\ at \in DOMAIN heads
        /\ WithChunks(whole, w, head) \/ BadChunks(whole, w, head)
        /\ Good(w) => WithChunks(whole, w, head)
        /\ \/ Lost /\ ~ Good(w)
           \/ \E k \in Nat : AtChunk(w, k)
           \/ LoopDone(w) /\ WithChunks(whole, w, head)
    BY <1>1, <1>2 DEF LoopFollows
  <1>4. Begins(whole) /\ SourceLength <= MaxUsize
    BY <1>1, SourceBegins, SideFacts DEF IInv
  <1>5. head.end \in Nat /\ LoopOK(head.end)
    BY <1>2, <1>3, SideFacts DEF IInv
  <1>6. SourceLength \in Nat /\ DOMAIN src = 0 .. SourceLength - 1 /\ pos \in Nat
    BY <1>4, <1>5 DEF Begins, LoopOK
  <1>7. outcome = "Reading" /\ src' = src
    BY DEF Reads, Iterate
  <1>8. heads' = heads /\ SourceLength' = SourceLength
    BY SameTranscript
  <1>9. \/ Lost' /\ ~ Good(w)
        \/ \E k \in Nat : AtChunk(w, k)'
        \/ LoopDone(w)' /\ WithChunks(whole, w, head)
    <2>1. CASE Lost /\ ~ Good(w)
      <3>1. pos > SourceLength
        BY <1>7, <2>1 DEF Lost, BeyondSource
      <3> QED
        BY <1>6, <1>7, <2>1, <3>1, CutLine DEF Lost
    <2>2. ASSUME NEW k \in Nat, AtChunk(w, k), k # Len(w.chunks)
          PROVE  (\E j \in Nat : AtChunk(w, j)') \/ (Lost' /\ ~ Good(w))
      <3>1. AtChunk(w, k + 1)' \/ (~ Good(w) /\ Lost')
        BY <1>3, <1>4, <1>7, <2>2, ChunkFollows
      <3>2. k + 1 \in Nat
        OBVIOUS
      <3> QED
        BY <3>1, <3>2
    <2>3. ASSUME NEW k \in Nat, AtChunk(w, k), k = Len(w.chunks), WithChunks(whole, w, head)
          PROVE  LoopDone(w)' \/ (Lost' /\ ~ Good(w))
      BY <1>4, <1>5, <1>7, <2>3, LastChunkFollows
    <2>4. ASSUME NEW k \in Nat, AtChunk(w, k), k = Len(w.chunks), ~ WithChunks(whole, w, head)
          PROVE  Lost' /\ ~ Good(w)
      BY <1>3, <1>4, <1>7, <2>4, BrokenFollows
    <2>5. ~ LoopDone(w)
      BY <1>7 DEF LoopDone
    <2> QED
      BY <1>3, <2>1, <2>2, <2>3, <2>4, <2>5
  <1>10. Good(w)' <=> Good(w)
    BY <1>8 DEF Good
  <1>11. at' = at /\ heads'[at'] = head /\ transcript'[side'].whole = whole /\ at' \in DOMAIN heads'
    BY <1>1, <1>2, <1>3, <1>8
  <1> QED
    BY <1>3, <1>9, <1>10, <1>11 DEF LoopFollows

-------------------------------------------------------------------------------
AllWellFormed == \A s \in DOMAIN transcript : WellFormed(s)

(* A position behind which there is nothing: all of the stream is parsed.   *)
LEMMA AtEnd ==
    ASSUME IInv, NEW k \in Nat, Position(k), at >= SourceLength
    PROVE  EndOf(transcript[side].written, k) = SourceLength
PROOF
  <1>1. PICK written : written = transcript[side].written
    OBVIOUS
  <1>2. /\ side \in {"Sent", "Received"} /\ SourceLength \in Nat /\ at \in Nat /\ at <= SourceLength
        /\ SourceLength = Cardinality(DOMAIN transcript[side].cells)
    BY SideFacts, SourceBegins DEF IInv
  <1>3. /\ k \in 0 .. Len(written) /\ EndOf(written, k) <= SourceLength
        /\ at = Arrival(written, k + 1)
    BY <1>1, <1>2 DEF Position, Collected
  <1>4. Len(written) \in Nat /\ \A j \in 1 .. Len(written) : written[j].end \in Nat
    BY <1>1, <1>2, StreamFacts DEF IInv
  <1>5. EndOf(written, k) \in Nat /\ (k + 1) - 1 = k
    BY <1>3, <1>4 DEF EndOf
  <1>6. CASE at = EndOf(written, k)
    BY <1>1, <1>2, <1>6
  <1>7. CASE k + 1 > 1 /\ at = written[k].end - 2
    <2>1. EndOf(written, k) = written[k].end
      BY <1>7 DEF EndOf
    <2> QED
      BY <1>2, <1>3, <1>5, <1>7, <2>1
  <1> QED
    BY <1>3, <1>5, <1>6, <1>7 DEF Arrival

(* A head is found where a message was written, and it is framed so.        *)
LEMMA HeadOfMessage ==
    ASSUME IInv, NEW k \in Nat, Position(k), at \in DOMAIN heads
    PROVE  LET st == transcript[side]
           IN  k + 1 \in DOMAIN st.written /\ Framed(side, st, st.written[k + 1], heads[at])
PROOF
  <1>1. PICK st : st = transcript[side]
    OBVIOUS
  <1>2. PICK written : written = st.written
    OBVIOUS
  <1>3. /\ side \in {"Sent", "Received"} /\ SourceLength \in Nat /\ at \in Nat
        /\ at < heads[at].end /\ heads[at].end <= SourceLength /\ heads[at].end \in Nat
    BY SideFacts DEF IInv
  <1>4. k \in 0 .. Len(written) /\ at = Arrival(written, k + 1)
    BY <1>1, <1>2 DEF Position, Collected
  <1>5. WrittenStream(side, st) /\ InOrder(st) /\ Len(written) \in Nat
        /\ DOMAIN written = 1 .. Len(written)
    BY <1>1, <1>2, <1>3, StreamFacts DEF IInv
  <1>6. k # Len(written)
    <2> SUFFICES ASSUME k = Len(written) PROVE FALSE
      OBVIOUS
    <2>1. PICK n \in Nat : Cardinality(DOMAIN st.whole) = n /\ SourceLength <= n
      BY <1>1, SourceBegins DEF IInv, Begins
    <2>2. EndOf(written, k) = Arrival(written, k + 1)
      BY <1>1, <1>2, <1>4, <1>5 DEF WrittenStream, heads
    <2>3. DOMAIN st.whole = 0 .. at - 1
      BY <1>2, <1>4, <1>5, <2>2 DEF InOrder
    <2>4. Cardinality(0 .. at - 1) = at - 0
      BY <1>3, SizeOfSpan
    <2> QED
      BY <1>3, <2>1, <2>3, <2>4
  <1>7. k + 1 \in DOMAIN written
    <2>1. PICK n \in Nat : n = Len(written)
      BY <1>5
    <2>2. k \in 0 .. n /\ k # n /\ DOMAIN written = 1 .. n
      BY <1>4, <1>5, <1>6, <2>1
    <2>3. k + 1 \in 1 .. n
      BY <2>2
    <2> QED
      BY <2>2, <2>3
  <1>8. Framed(side, st, written[k + 1], heads[at])
    BY <1>1, <1>2, <1>4, <1>5, <1>7 DEF WrittenStream, heads
  <1> QED
    BY <1>1, <1>2, <1>7, <1>8

(* Where every message is well-formed, the next one is there.               *)
LEMMA WellFormedHere ==
    ASSUME IInv, AllWellFormed, NEW k \in Nat, Position(k), at < SourceLength
    PROVE  LET st == transcript[side]
               w == st.written[k + 1]
           IN  /\ k + 1 \in DOMAIN st.written /\ Good(w) /\ at \in DOMAIN heads
               /\ Supported(side, st, w, at, heads[at])
PROOF
  <1>1. PICK st : st = transcript[side]
    OBVIOUS
  <1>2. PICK written : written = st.written
    OBVIOUS
  <1>3. /\ side \in {"Sent", "Received"} /\ side \in DOMAIN transcript
        /\ SourceLength \in Nat /\ at \in Nat
        /\ SourceLength = Cardinality(DOMAIN st.cells)
    BY <1>1, TranscriptsAssumption, SideFacts, SourceBegins DEF IInv
  <1>4. k \in 0 .. Len(written) /\ at = Arrival(written, k + 1)
    BY <1>1, <1>2 DEF Position, Collected
  <1>5. WrittenStream(side, st) /\ InOrder(st) /\ Len(written) \in Nat
        /\ DOMAIN written = 1 .. Len(written)
    BY <1>1, <1>2, <1>3, StreamFacts DEF IInv
  <1>6. \A j \in DOMAIN written : written[j].supported /\ ~ written[j].trailers /\ written[j].end <= SourceLength
    BY <1>1, <1>2, <1>3 DEF AllWellFormed, WellFormed, Whole
  <1>7. at = EndOf(written, k)
    <2>1. (k + 1) - 1 = k
      OBVIOUS
    <2>2. k > 0 => ~ written[k].trailers
      BY <1>4, <1>5, <1>6
    <2> QED
      BY <1>4, <2>1, <2>2 DEF Arrival
  <1>8. k # Len(written)
    <2> SUFFICES ASSUME k = Len(written) PROVE FALSE
      OBVIOUS
    <2>1. PICK n \in Nat : Cardinality(DOMAIN st.whole) = n /\ SourceLength <= n
      BY <1>1, SourceBegins DEF IInv, Begins
    <2>3. DOMAIN st.whole = 0 .. at - 1
      BY <1>2, <1>5, <1>7 DEF InOrder
    <2>4. Cardinality(0 .. at - 1) = at - 0
      BY <1>3, SizeOfSpan
    <2> QED
      BY <1>3, <2>1, <2>3, <2>4
  <1>9. k + 1 \in DOMAIN written
    <2>1. PICK n \in Nat : n = Len(written)
      BY <1>5
    <2>2. k \in 0 .. n /\ k # n /\ DOMAIN written = 1 .. n
      BY <1>4, <1>5, <1>8, <2>1
    <2>3. k + 1 \in 1 .. n
      BY <2>2
    <2> QED
      BY <2>2, <2>3
  <1>10. Good(written[k + 1])
    BY <1>6, <1>9 DEF Good
  <1>11. at \in DOMAIN heads
    BY <1>1, <1>2, <1>3, <1>4, <1>5, <1>6, <1>9 DEF WrittenStream, heads
  <1>12. Supported(side, st, written[k + 1], at, heads[at])
    BY <1>1, <1>2, <1>3, <1>4, <1>5, <1>6, <1>9 DEF WrittenStream, heads
  <1> QED
    BY <1>1, <1>2, <1>9, <1>10, <1>11, <1>12

-------------------------------------------------------------------------------
LEMMA SameStreams ==
    ASSUME transcript' = transcript
    PROVE  /\ AllWellFormed' <=> AllWellFormed
           /\ \A s, k : parsed'[s] = parsed[s] => (Collected(s, k)' <=> Collected(s, k))
           /\ parsed'["Sent"] = parsed["Sent"] => (SentDone' <=> SentDone)
  BY DEF AllWellFormed, WellFormed, Whole, Collected, SentDone

LEMMA TracksFacts ==
    Tracks => /\ \E k \in Nat : Position(k)
              /\ side = "Received" => SentDone
              /\ side = "Sent" => DOMAIN parsed["Received"] = {}
              /\ phase = "Ok" => side = "Received" /\ at >= SourceLength
              /\ AllWellFormed => phase \notin {"Err", "Panicked"}
  BY DEF Tracks, WellFormedParses, AllWellFormed

LEMMA FactsTrack ==
    ASSUME NEW k \in Nat, Position(k)',
           side' = "Received" => SentDone',
           side' = "Sent" => DOMAIN parsed'["Received"] = {},
           phase' = "Ok" => side' = "Received" /\ at' >= SourceLength',
           AllWellFormed' => phase' \notin {"Err", "Panicked"}
    PROVE  Tracks'
  BY DEF Tracks, WellFormedParses, AllWellFormed

LEMMA PositionThen ==
    ASSUME NEW k \in Nat, NEW s, s = side', Collected(s, k)',
           at' = Arrival(transcript'[s].written, k + 1), phase' # "Chunks"
    PROVE  Position(k)'
  BY DEF Position, Collected

LEMMA PositionAtChunks ==
    ASSUME NEW k \in Nat, NEW s, s = side', Collected(s, k)',
           at' = Arrival(transcript'[s].written, k + 1),
           k + 1 \in DOMAIN transcript'[s].written,
           NEW w, w = transcript'[s].written[k + 1], LoopFollows(w)'
    PROVE  Position(k)'
PROOF
  <1>1. Collected(side, k)'
    BY DEF Collected
  <1>2. LoopFollows(transcript[side].written[k + 1])'
    BY DEF LoopFollows, Good, AtChunk, LoopDone
  <1> QED
    BY <1>1, <1>2 DEF Position

(* The end of the collection. *)
LEMMA StopTracks ==
    ASSUME Tracks, NEW how \in {"Ok", "Err", "Panicked"}, Stop(how),
           UNCHANGED <<src, transcript, side, loopVars>>,
           how = "Ok" => side = "Received" /\ at >= SourceLength,
           AllWellFormed => how = "Ok"
    PROVE  Tracks'
PROOF
  <1>1. /\ phase' = how /\ at' = at /\ parsed' = parsed /\ src' = src
        /\ transcript' = transcript /\ side' = side
    BY DEF Stop
  <1>2. PICK k \in Nat : Position(k)
    BY TracksFacts
  <1>3. SourceLength' = SourceLength
    BY <1>1, SameTranscript
  <1>4. Position(k)'
    <2>1. PICK s : s = side
      OBVIOUS
    <2>2. Collected(s, k) /\ parsed'[s] = parsed[s]
      BY <1>1, <1>2, <2>1 DEF Position
    <2>3. Collected(s, k)'
      BY <1>1, <2>2, SameStreams
    <2>4. at' = Arrival(transcript'[s].written, k + 1) /\ phase' # "Chunks" /\ s = side'
      BY <1>1, <1>2, <2>1 DEF Position
    <2> QED
      BY <2>3, <2>4, PositionThen
  <1>5. side' = "Received" => SentDone'
    BY <1>1, SameStreams, TracksFacts
  <1>6. AllWellFormed' <=> AllWellFormed
    BY <1>1, SameStreams
  <1> QED
    BY <1>1, <1>3, <1>4, <1>5, <1>6, TracksFacts, FactsTrack

(* Where the next message begins behind message w. *)
Behind(w) == IF w.trailers THEN w.end - 2 ELSE w.end

(* A message that is yielded is the next one that was written.              *)
LEMMA YieldTracks ==
    ASSUME IInv, Tracks, NEW k \in Nat, Position(k),
           k + 1 \in DOMAIN transcript[side].written,
           NEW w, w = transcript[side].written[k + 1], w.end <= SourceLength,
           NEW m, NEW e \in Nat, at < e, m.span = at .. e - 1, m.body = w.payload, e = Behind(w),
           Yield(m), UNCHANGED <<src, transcript, side, loopVars>>
    PROVE  Tracks'
PROOF
  <1>1. PICK written : written = transcript[side].written
    OBVIOUS
  <1>2. /\ phase' = "Idle" /\ src' = src /\ transcript' = transcript /\ side' = side
        /\ parsed' = [parsed EXCEPT ![side] = Append(@, m)]
    BY DEF Yield
  <1>3. /\ side \in {"Sent", "Received"} /\ at \in Nat /\ SourceLength \in Nat
        /\ SourceLength = Cardinality(DOMAIN transcript[side].cells)
    BY SideFacts, SourceBegins DEF IInv
  <1>4. at' = e
    <2>1. Cardinality(at .. e - 1) = e - at
      <3>1. at \in Nat /\ at <= e
        BY <1>3
      <3> QED
        BY <3>1, SizeOfSpan
    <2>2. at' = at + Cardinality(m.span)
      BY DEF Yield
    <2> QED
      BY <1>3, <2>1, <2>2
  <1>5. PICK q : q = parsed[side] /\ IsList(q)
    BY <1>3 DEF IInv, ParsedLists
  <1>6. parsed'[side] = Append(q, m)
        /\ \A s \in {"Sent", "Received"} \ {side} : parsed'[s] = parsed[s]
    BY <1>2, <1>3, <1>5 DEF IInv, ParsedLists
  <1>7. /\ k \in 0 .. Len(written) /\ DOMAIN q = 1 .. k
        /\ \A j \in 1 .. k : q[j].body = written[j].payload
    BY <1>1, <1>5 DEF Position, Collected
  <1>8. Len(q) = k
    <2>1. PICK T : q \in Seq(T)
      BY <1>5 DEF IsList
    <2>2. DOMAIN q = 1 .. Len(q) /\ Len(q) \in Nat
      BY <2>1
    <2> QED
      BY <1>7, <2>2
  <1>9. /\ DOMAIN Append(q, m) = 1 .. k + 1
        /\ Append(q, m)[k + 1] = m /\ \A j \in 1 .. k : Append(q, m)[j] = q[j]
    <2>1. DOMAIN Append(q, m) = DOMAIN q \cup {k + 1}
      BY <1>5, <1>8, AppendToList
    <2>2. (1 .. k) \cup {k + 1} = 1 .. k + 1
      OBVIOUS
    <2> QED
      BY <1>5, <1>7, <1>8, <2>1, <2>2, AppendToList
  <1>10. \A j \in 1 .. k + 1 : Append(q, m)[j].body = written[j].payload
    <2> SUFFICES ASSUME NEW j \in 1 .. k + 1 PROVE Append(q, m)[j].body = written[j].payload
      OBVIOUS
    <2>1. CASE j = k + 1
      BY <1>1, <1>9, <2>1
    <2>2. CASE j # k + 1
      <3>1. j \in 1 .. k
        BY <2>2
      <3> QED
        BY <1>7, <1>9, <3>1
    <2> QED
      BY <2>1, <2>2
  <1>11. k + 1 \in 0 .. Len(written) /\ EndOf(written, k + 1) = w.end
    <2>1. DOMAIN written = 1 .. Len(written) /\ Len(written) \in Nat
      BY <1>1, <1>3, StreamFacts DEF IInv
    <2> QED
      BY <1>1, <2>1 DEF EndOf
  <1>12. ASSUME NEW s, s = side
         PROVE  Collected(s, k + 1)'
    <2>1. /\ DOMAIN parsed'[s] = 1 .. k + 1
          /\ \A j \in 1 .. k + 1 : parsed'[s][j].body = written[j].payload
      BY <1>6, <1>9, <1>10, <1>12
    <2>2. EndOf(written, k + 1) <= Cardinality(DOMAIN transcript[s].cells)
      BY <1>3, <1>11, <1>12
    <2>3. transcript'[s].written = written /\ transcript'[s].cells = transcript[s].cells
      BY <1>1, <1>2, <1>12
    <2> QED
      BY <1>11, <2>1, <2>2, <2>3 DEF Collected
  <1>13. at' = Arrival(written, (k + 1) + 1)
    <2>1. ((k + 1) + 1) - 1 = k + 1 /\ (k + 1) + 1 > 1
      OBVIOUS
    <2>2. Arrival(written, (k + 1) + 1)
            = IF written[k + 1].trailers THEN written[k + 1].end - 2 ELSE EndOf(written, k + 1)
      BY <2>1 DEF Arrival
    <2> QED
      BY <1>1, <1>4, <1>11, <2>2 DEF Behind
  <1>14. Position(k + 1)'
    <2>1. PICK s : s = side
      OBVIOUS
    <2>2. Collected(s, k + 1)'
      BY <1>12, <2>1
    <2>3. s = side' /\ at' = Arrival(transcript'[s].written, (k + 1) + 1) /\ phase' # "Chunks"
      BY <1>1, <1>2, <1>13, <2>1
    <2> QED
      BY <2>2, <2>3, PositionThen
  <1>15. side' = "Received" => SentDone'
    <2> SUFFICES ASSUME side = "Received" PROVE SentDone'
      BY <1>2
    <2>1. parsed'["Sent"] = parsed["Sent"]
      BY <1>6
    <2> QED
      BY <1>2, <2>1, SameStreams, TracksFacts
  <1>16. side' = "Sent" => DOMAIN parsed'["Received"] = {}
    BY <1>2, <1>6, TracksFacts
  <1>17. k + 1 \in Nat
    OBVIOUS
  <1> QED
    BY <1>2, <1>14, <1>15, <1>16, <1>17, FactsTrack

-------------------------------------------------------------------------------
(* What is known of the message at a head, in the state itself.             *)
Here(k, st, w) ==
    /\ k \in Nat /\ Position(k) /\ st = transcript[side] /\ w = st.written[k + 1]
    /\ st.cells = src /\ k + 1 \in DOMAIN st.written
    /\ Framed(side, st, w, heads[at])
    /\ AllWellFormed => Supported(side, st, w, at, heads[at]) /\ Good(w)

LEMMA MessageHere ==
    ASSUME IInv, Tracks, at \in DOMAIN heads
    PROVE  \E k, st, w : Here(k, st, w)
PROOF
  <1>1. PICK k \in Nat : Position(k)
    BY TracksFacts
  <1>2. PICK st : st = transcript[side]
    OBVIOUS
  <1>3. PICK w : w = st.written[k + 1]
    OBVIOUS
  <1>4. k + 1 \in DOMAIN st.written /\ Framed(side, st, w, heads[at])
    BY <1>1, <1>2, <1>3, HeadOfMessage
  <1>5. at < SourceLength /\ st.cells = src
    BY <1>2, SideFacts DEF IInv, TypeOK
  <1>6. AllWellFormed => Supported(side, st, w, at, heads[at]) /\ Good(w)
    BY <1>1, <1>2, <1>3, <1>5, WellFormedHere
  <1> QED
    BY <1>1, <1>2, <1>3, <1>4, <1>5, <1>6 DEF Here

(* A refusal, of a message that must not be well-formed. *)
LEMMA ErrTracks ==
    ASSUME Tracks, NEW how \in {"Err", "Panicked"}, Stop(how),
           UNCHANGED <<src, transcript, side, loopVars>>, ~ AllWellFormed
    PROVE  Tracks'
PROOF
  <1>1. how \in {"Ok", "Err", "Panicked"} /\ how # "Ok"
    OBVIOUS
  <1> QED
    BY <1>1, StopTracks

(* The framings exclude each other, and the first header of a name is one.  *)
LEMMA OneFraming ==
    ASSUME NEW s \in {"Sent", "Received"}, NEW cells, NEW head
    PROVE  /\ ~ (NoneAnnounced(s, cells, head) /\ LengthAnnounced(s, cells, head))
           /\ ~ (NoneAnnounced(s, cells, head) /\ ChunksAnnounced(s, cells, head))
           /\ ~ (LengthAnnounced(s, cells, head) /\ ChunksAnnounced(s, cells, head))
  BY DEF NoneAnnounced, LengthAnnounced, ChunksAnnounced

LEMMA OneNamed ==
    ASSUME NEW cells, NEW head, DOMAIN head.headers = 1 .. Len(head.headers), NEW name,
           NEW x \in NamedIn(cells, head, name), NEW y \in NamedIn(cells, head, name)
    PROVE  x = y
PROOF
  <1>1. PICK i \in FirstWithName(head.headers, name) :
          x = IndexRanges(cells, head.headers[i].start .. head.headers[i].end - 1)
    BY DEF NamedIn
  <1>2. PICK j \in FirstWithName(head.headers, name) :
          y = IndexRanges(cells, head.headers[j].start .. head.headers[j].end - 1)
    BY DEF NamedIn
  <1>3. i \in Nat /\ j \in Nat /\ i \geq 1 /\ j \geq 1
    BY DEF FirstWithName
  <1>4. ~ i < j /\ ~ j < i
    BY <1>3 DEF FirstWithName
  <1>5. i = j
    BY <1>3, <1>4
  <1> QED
    BY <1>1, <1>2, <1>5

(* A message without a body. *)
LEMMA NoBodyTracks ==
    ASSUME IInv, Tracks, at \in DOMAIN heads, NEW k, NEW st, NEW w, Here(k, st, w),
           w.payload = {}, w.end = heads[at].end, ~ w.trailers, NoBody(heads[at]),
           UNCHANGED <<src, transcript, side, loopVars>>
    PROVE  Tracks'
PROOF
  <1>1. PICK e : e = heads[at].end
    OBVIOUS
  <1>2. e \in Nat /\ at < e /\ e <= SourceLength
    BY <1>1, SideFacts DEF IInv
  <1>3. PICK m : m = Message(heads[at], at .. e - 1, {}, {})
    OBVIOUS
  <1>4. m.span = at .. e - 1 /\ m.body = {} /\ Yield(m)
    BY <1>1, <1>3, MessageFields DEF NoBody
  <1>5. e = Behind(w) /\ w.end <= SourceLength
    BY <1>1, <1>2 DEF Behind
  <1> QED
    BY <1>2, <1>4, <1>5, YieldTracks DEF Here

(* A message with a Content-Length header. *)
LEMMA SizedByTracks ==
    ASSUME IInv, Tracks, at \in DOMAIN heads, LengthAnnounced(side, src, heads[at]),
           NEW text \in FirstNamed(heads[at], "content-length"), SizedBy(heads[at], text),
           UNCHANGED <<src, transcript, side, loopVars>>
    PROVE  Tracks'
PROOF
  <1>1. PICK k, st, w : Here(k, st, w)
    BY MessageHere
  <1>2. PICK head : head = heads[at]
    OBVIOUS
  <1>3. text \in NamedIn(st.cells, head, "content-length") /\ LengthAnnounced(side, st.cells, head)
    BY <1>1, <1>2 DEF Here, FirstNamed
  <1>4. WithLength(w, head, text) \/ BadLength(st.whole, head, text)
    BY <1>1, <1>2, <1>3 DEF Here, Framed
  <1>5. AllWellFormed => WithLength(w, head, text) /\ Good(w)
    BY <1>1, <1>2, <1>3, OneFraming, SideFacts DEF IInv, Here, Supported
  <1>6. /\ head.end \in Nat /\ head.end <= SourceLength /\ at < head.end /\ at \in Nat
        /\ SourceLength \in Nat /\ SourceLength <= MaxUsize
    BY <1>2, SideFacts DEF IInv
  <1>7. CASE text \notin DOMAIN LengthValue /\ Stop("Err")
    BY <1>5, <1>7, ErrTracks DEF WithLength
  <1>8. CASE text \in DOMAIN LengthValue /\ Sized(head, LengthValue[text])
    <2>1. PICK length \in Nat : length = LengthValue[text]
      BY <1>8, LengthAssumption, UsizeAssumption
    <2>2. PICK e \in Nat : e = head.end + length
      BY <1>6
    <2>3. PICK body : body = head.end .. e - 1
      OBVIOUS
    <2>4. e <= SourceLength => WithLength(w, head, text)
      <3>1. PICK n \in Nat : n = Cardinality(DOMAIN st.whole) /\ SourceLength <= n
        BY <1>1, SourceBegins DEF IInv, Here, Begins
      <3> QED
        BY <1>4, <1>6, <1>8, <2>1, <2>2, <3>1 DEF BadLength
    <2>5. WithLength(w, head, text) => w.end = e /\ w.payload = body /\ ~ w.trailers
      BY <2>1, <2>2, <2>3 DEF WithLength
    <2>6. AllWellFormed => e <= SourceLength
      BY <1>5, <2>5 DEF Good
    <2>7. \/ length = 0 /\ NoBody(head)
          \/ length > 0 /\ e > MaxUsize /\ Stop("Panicked")
          \/ length > 0 /\ e > SourceLength /\ Stop("Err")
          \/ length > 0 /\ e <= SourceLength /\ IsJson(head) /\ ~ JsonParses(body) /\ Stop("Err")
          \/ length > 0 /\ e <= SourceLength /\ Yield(Message(head, at .. e - 1, body, {}))
      <3>1. head.end + length - 1 = e - 1
        BY <1>6, <2>2
      <3>2. e \in SourceLength + 1 .. MaxUsize => e > SourceLength
        BY <1>6
      <3> QED
        BY <1>8, <2>1, <2>2, <2>3, <3>1, <3>2, Zenon DEF Sized
    <2>8. CASE length = 0 /\ NoBody(head)
      <3>1. e = head.end /\ body = {}
        BY <1>6, <2>2, <2>3, <2>8
      <3>2. w.payload = {} /\ w.end = head.end /\ ~ w.trailers
        BY <1>6, <2>4, <2>5, <3>1
      <3> QED
        BY <1>1, <1>2, <2>8, <3>2, NoBodyTracks
    <2>9. CASE length > 0 /\ e > MaxUsize /\ Stop("Panicked")
      <3>1. ~ AllWellFormed
        BY <1>6, <2>6, <2>9, UsizeAssumption
      <3> QED
        BY <2>9, <3>1, ErrTracks
    <2>10. CASE length > 0 /\ e > SourceLength /\ Stop("Err")
      <3>1. ~ AllWellFormed
        BY <1>6, <2>6, <2>10
      <3> QED
        BY <2>10, <3>1, ErrTracks
    <2>11. CASE length > 0 /\ e <= SourceLength /\ IsJson(head) /\ ~ JsonParses(body) /\ Stop("Err")
      <3>1. body # {} /\ w.payload = body
        <4>1. head.end \in body
          BY <1>6, <2>2, <2>3, <2>11
        <4> QED
          BY <2>4, <2>5, <2>11, <4>1
      <3>2. ~ AllWellFormed
        <4>1. <<"application/json">> \in NamedIn(st.cells, head, "content-type")
              /\ IndexRanges(st.cells, body) \notin DOMAIN JsonOf
          BY <1>1, <2>11 DEF Here, IsJson, FirstNamed, JsonParses, DataOf
        <4> QED
          BY <1>1, <1>2, <3>1, <4>1 DEF Here, Supported
      <3> QED
        BY <2>11, <3>2, ErrTracks
    <2>12. CASE length > 0 /\ e <= SourceLength /\ Yield(Message(head, at .. e - 1, body, {}))
      <3>1. PICK m : m = Message(head, at .. e - 1, body, {})
        OBVIOUS
      <3>2. m.span = at .. e - 1 /\ m.body = body /\ Yield(m)
        BY <2>12, <3>1, MessageFields
      <3>3. w.end = e /\ w.payload = body /\ e = Behind(w)
        BY <2>4, <2>5, <2>12 DEF Behind
      <3>4. at < e /\ w.end <= SourceLength
        BY <1>6, <2>2, <2>12, <3>3
      <3> QED
        BY <1>1, <3>2, <3>3, <3>4, YieldTracks DEF Here
    <2> QED
      BY <2>7, <2>8, <2>9, <2>10, <2>11, <2>12
  <1> QED
    BY <1>2, <1>7, <1>8 DEF SizedBy

-------------------------------------------------------------------------------
(* A head that is found where all messages are well-formed has its line     *)
(* breaks and all the parts of its first line, and no head is missing       *)
(* there.                                                                   *)
LEMMA RefusedHead ==
    ASSUME IInv, Tracks, at < SourceLength,
           NoHead \/ BadHead, UNCHANGED <<src, transcript, side, loopVars>>
    PROVE  Tracks'
PROOF
  <1>1. CASE at \notin DOMAIN heads /\ Stop("Err")
    <2>1. ~ AllWellFormed
      BY <1>1, TracksFacts, WellFormedHere
    <2> QED
      BY <1>1, <2>1, ErrTracks
  <1>2. ASSUME NEW head \in HeadHere, SpanPanics(head), Stop("Panicked")
        PROVE  Tracks'
    <2>1. at \in DOMAIN heads /\ head = heads[at]
      BY HeadIsHere
    <2>2. PICK k, st, w : Here(k, st, w)
      BY <2>1, MessageHere
    <2>3. /\ at \in Nat /\ head.end \in Nat /\ SourceLength \in Nat /\ head.end <= SourceLength
      BY <2>1, SideFacts DEF IInv
    <2>4. ~ AllWellFormed
      <3> SUFFICES ASSUME AllWellFormed PROVE FALSE
        OBVIOUS
      <3>1. \A first \in {at} \cup {head.headers[j].end : j \in DOMAIN head.headers} :
               \E i \in first .. head.end : CrLfAt(i)
        BY <2>1, <2>2 DEF Here, Supported, CrLfAt
      <3>3. /\ ~ RawLine(src, at)
            /\ side = "Received" => head.code # {} /\ head.phrase
        BY <2>1, <2>2 DEF Here, Supported
      <3>2. ASSUME NEW first \in {at} \cup {head.headers[j].end : j \in DOMAIN head.headers},
                   NoCrLfFrom(first)
            PROVE  FALSE
        <4>1. PICK i \in first .. head.end : CrLfAt(i)
          BY <3>1
        <4>2. first \in Nat
          <5>1. DOMAIN head.headers = 1 .. Len(head.headers) /\ HeadInOrder(at, head)
            BY <2>1, SideFacts DEF IInv, HeadInOrder
          <5>2. ASSUME NEW j \in DOMAIN head.headers
                PROVE  head.headers[j].end \in Nat
            <6>1. PICK h : h = head.headers[j]
              OBVIOUS
            <6>2. /\ h.first \in at .. head.end /\ h.start \in h.first .. head.end
                  /\ h.end \in h.start .. head.end
              BY <5>1, <6>1 DEF HeadInOrder
            <6>3. h.first \in Nat
              BY <2>3, <6>2
            <6>4. h.start \in Nat
              BY <2>3, <6>2, <6>3
            <6> QED
              BY <2>3, <6>1, <6>2, <6>4
          <5> QED
            BY <2>3, <5>2
        <4>3. i \in first .. SourceLength
          BY <2>3, <4>1, <4>2
        <4> QED
          BY <3>2, <4>1, <4>3 DEF NoCrLfFrom
      <3> QED
        BY <1>2, <3>2, <3>3 DEF SpanPanics, LineBreakMissing
    <2> QED
      BY <1>2, <2>4, ErrTracks
  <1> QED
    BY <1>1, <1>2 DEF NoHead, BadHead

LEMMA RequestTracks == IInv /\ Tracks /\ ParseRequest => Tracks'
PROOF
  <1> SUFFICES ASSUME IInv, Tracks, ParseRequest PROVE Tracks'
    OBVIOUS
  <1>1. /\ UNCHANGED <<src, transcript, side, loopVars>> /\ side = "Sent" /\ at < SourceLength
    BY DEF ParseRequest, RequestsNext
  <1>2. CASE NoHead \/ BadHead
    BY <1>1, <1>2, RefusedHead
  <1>3. ASSUME NEW head \in GoodHead, RequestBody(head)
        PROVE  Tracks'
    <2>1. at \in DOMAIN heads /\ head = heads[at]
      BY HeadIsHere DEF GoodHead
    <2>2. PICK k, st, w : Here(k, st, w)
      BY <2>1, MessageHere
    <2>3. \A name : FirstNamed(head, name) = NamedIn(st.cells, head, name)
      BY <2>2 DEF Here, FirstNamed
    <2>4. CASE Has(head, "transfer-encoding") /\ Stop("Err")
      <3>1. ~ AllWellFormed
        BY <1>1, <2>1, <2>2, <2>3, <2>4
        DEF Has, Here, Supported, NoneAnnounced, LengthAnnounced, ChunksAnnounced
      <3> QED
        BY <1>1, <2>4, <3>1, ErrTracks
    <2>5. CASE /\ ~ Has(head, "transfer-encoding") /\ ~ Has(head, "content-length")
               /\ NoBody(head)
      <3>1. NoneAnnounced(side, st.cells, head)
        BY <1>1, <2>3, <2>5 DEF Has, NoneAnnounced
      <3>2. WithoutBody(w, head)
        BY <2>1, <2>2, <3>1 DEF Here, Framed
      <3> QED
        BY <1>1, <2>1, <2>2, <2>5, <3>2, NoBodyTracks DEF WithoutBody
    <2>6. ASSUME ~ Has(head, "transfer-encoding"),
                 NEW text \in FirstNamed(head, "content-length"), SizedBy(head, text)
          PROVE  Tracks'
      <3>1. LengthAnnounced(side, src, head)
        BY <1>1, <2>6 DEF Has, LengthAnnounced, FirstNamed
      <3> QED
        BY <1>1, <2>1, <2>6, <3>1, SizedByTracks
    <2> QED
      BY <1>3, <2>4, <2>5, <2>6 DEF RequestBody
  <1> QED
    BY <1>2, <1>3 DEF ParseRequest

LEMMA ResponseTracks == IInv /\ Tracks /\ ParseResponse => Tracks'
PROOF
  <1> SUFFICES ASSUME IInv, Tracks, ParseResponse PROVE Tracks'
    OBVIOUS
  <1>1. /\ UNCHANGED <<src, transcript, side, loopVars>> /\ side = "Received" /\ at < SourceLength
    BY DEF ParseResponse, ResponsesNext
  <1>2. CASE NoHead \/ BadHead
    BY <1>1, <1>2, RefusedHead
  <1>3. ASSUME NEW head \in GoodHead, ResponseBody(head)
        PROVE  Tracks'
    <2>1. at \in DOMAIN heads /\ head = heads[at]
      BY HeadIsHere DEF GoodHead
    <2>2. PICK k, st, w : Here(k, st, w)
      BY <2>1, MessageHere
    <2>3. \A name : FirstNamed(head, name) = NamedIn(st.cells, head, name)
      BY <2>2 DEF Here, FirstNamed
    <2>4. CASE head.noBody /\ NoBody(head)
      <3>1. NoneAnnounced(side, st.cells, head)
        BY <1>1, <2>4 DEF NoneAnnounced
      <3>2. WithoutBody(w, head)
        BY <2>1, <2>2, <3>1 DEF Here, Framed
      <3> QED
        BY <1>1, <2>1, <2>2, <2>4, <3>2, NoBodyTracks DEF WithoutBody
    <2>5. ASSUME ~ head.noBody, NEW coding \in FirstNamed(head, "transfer-encoding"),
                 coding # <<"chunked">>, Stop("Err")
          PROVE  Tracks'
      <3>1. coding \in NamedIn(st.cells, head, "transfer-encoding")
        BY <2>3, <2>5
      <3>2. ~ AllWellFormed
        BY <1>1, <2>1, <2>2, <2>5, <3>1
        DEF Here, Supported, NoneAnnounced, LengthAnnounced, ChunksAnnounced
      <3> QED
        BY <1>1, <2>5, <3>2, ErrTracks
    <2>6. ASSUME ~ head.noBody, ~ Has(head, "transfer-encoding"),
                 NEW text \in FirstNamed(head, "content-length"), SizedBy(head, text)
          PROVE  Tracks'
      <3>1. LengthAnnounced(side, src, head)
        BY <1>1, <2>6 DEF Has, LengthAnnounced, FirstNamed
      <3> QED
        BY <1>1, <2>1, <2>6, <3>1, SizedByTracks
    <2>7. CASE /\ ~ head.noBody
               /\ ~ Has(head, "transfer-encoding") /\ ~ Has(head, "content-length")
               /\ Stop("Err")
      <3>1. ~ AllWellFormed
        BY <1>1, <2>1, <2>2, <2>3, <2>7
        DEF Has, Here, Supported, NoneAnnounced, LengthAnnounced, ChunksAnnounced
      <3> QED
        BY <1>1, <2>7, <3>1, ErrTracks
    <2> QED
      BY <1>3, <2>4, <2>5, <2>6, <2>7 DEF ResponseBody
  <1> QED
    BY <1>2, <1>3 DEF ParseResponse

-------------------------------------------------------------------------------
(* A set of positions that is not empty has a last one. *)
LEMMA EndBelow ==
    ASSUME NEW e \in Nat, NEW S \in SUBSET Nat, S # {}, \A i \in S : i < e
    PROVE  SetEnd(S) \in Nat /\ SetEnd(S) <= e
PROOF
  <1> DEFINE D == {e - i : i \in S}
  <1>1. D \in SUBSET Nat /\ D # {}
    <2>1. \A i \in S : i \in Nat /\ e - i \in Nat
      OBVIOUS
    <2>2. D # {}
      OBVIOUS
    <2> QED
      BY <2>1, <2>2
  <1>2. PICK d \in D : \A c \in D : d <= c
    BY <1>1, LeastElement
  <1>3. PICK m \in S : d = e - m
    OBVIOUS
  <1>4. \A i \in S : i <= m
    <2> SUFFICES ASSUME NEW i \in S PROVE i <= m
      OBVIOUS
    <2>1. e - m <= e - i
      BY <1>2, <1>3
    <2> QED
      BY <2>1
  <1>5. SetEnd(S) = m + 1
    BY <1>4, EndOfSet
  <1> QED
    BY <1>5

LEMMA StartChunksTracks == IInv /\ Tracks /\ StartChunks => Tracks'
PROOF
  <1> SUFFICES ASSUME IInv, Tracks, StartChunks PROVE Tracks'
    OBVIOUS
  <1>1. PICK head \in HeadHere :
          ~ head.noBody /\ <<"chunked">> \in FirstNamed(head, "transfer-encoding") /\ Enter(head.end)
    BY DEF StartChunks, GoodHead
  <1>2. at \in DOMAIN heads /\ head = heads[at]
    BY HeadIsHere
  <1>3. /\ UNCHANGED <<src, transcript, side, at, parsed>> /\ phase' = "Chunks"
        /\ side = "Received" /\ at < SourceLength
    BY DEF StartChunks, ResponsesNext
  <1>4. PICK k, st, w : Here(k, st, w)
    BY <1>2, MessageHere
  <1>5. ChunksAnnounced(side, st.cells, head)
    <2>1. DOMAIN head.headers = 1 .. Len(head.headers)
      BY <1>2, SideFacts DEF IInv, HeadInOrder
    <2>2. <<"chunked">> \in NamedIn(st.cells, head, "transfer-encoding")
      BY <1>1, <1>4 DEF Here, FirstNamed
    <2>3. \A x \in NamedIn(st.cells, head, "transfer-encoding") : x = <<"chunked">>
      BY <2>1, <2>2, OneNamed
    <2> QED
      BY <1>1, <1>3, <2>2, <2>3 DEF ChunksAnnounced
  <1>6. PICK whole : whole = st.whole
    OBVIOUS
  <1>7. WithChunks(whole, w, head) \/ BadChunks(whole, w, head)
    BY <1>2, <1>4, <1>5, <1>6 DEF Here, Framed
  <1>8. AllWellFormed => WithChunks(whole, w, head)
    BY <1>2, <1>4, <1>5, <1>6, OneFraming, SideFacts DEF IInv, Here, Supported
  <1>9. Good(w) => WithChunks(whole, w, head)
    <2> SUFFICES ASSUME Good(w) PROVE WithChunks(whole, w, head)
      OBVIOUS
    <2>1. /\ side \in {"Sent", "Received"} /\ WrittenStream(side, st)
          /\ SourceLength = Cardinality(DOMAIN st.cells)
      BY <1>4, SideFacts, SourceBegins, StreamFacts DEF IInv, Here
    <2>2. at = Arrival(st.written, k + 1)
      BY <1>4 DEF Here, Position
    <2>3. Supported(side, st, w, at, heads[at])
      BY <1>4, <2>1, <2>2 DEF Here, Good, WrittenStream, heads
    <2> QED
      BY <1>2, <1>5, <1>6, <2>1, <2>3, OneFraming DEF Supported
  <1>10. heads' = heads /\ SourceLength' = SourceLength
    BY <1>3, SameTranscript
  <1>11. AtChunk(w, 1)'
    <2>1. PICK n \in Nat : n \in 1 .. n /\ DOMAIN w.chunks = 1 .. n /\ w.chunks[1].at = head.end
      <3>1. Begins(whole)
        BY <1>4, <1>6, SourceBegins DEF IInv, Here
      <3> QED
        BY <1>7, <3>1, ChunkFacts
    <2>2. /\ pos' = head.end /\ content' = {} /\ trailer' = {} /\ outcome' = "Reading"
      BY <1>1 DEF Enter
    <2>3. UNION {DataOfChunk(w.chunks[j]) : j \in 1 .. 1 - 1} = {}
      <3>1. 1 .. 1 - 1 = {}
        OBVIOUS
      <3> QED
        BY <3>1
    <2> QED
      BY <2>1, <2>2, <2>3 DEF AtChunk
  <1>12. LoopFollows(w)'
    <2>1. Good(w)' <=> Good(w)
      BY <1>10 DEF Good
    <2>2. at' \in DOMAIN heads' /\ heads'[at'] = head /\ transcript'[side'].whole = whole
      BY <1>2, <1>3, <1>4, <1>6, <1>10 DEF Here
    <2> QED
      BY <1>7, <1>9, <1>11, <2>1, <2>2 DEF LoopFollows
  <1>13. Position(k)'
    <2>1. PICK s : s = side
      OBVIOUS
    <2>2. Collected(s, k) /\ parsed'[s] = parsed[s]
      BY <1>3, <1>4, <2>1 DEF Here, Position
    <2>3. Collected(s, k)'
      BY <1>3, <2>2, SameStreams
    <2>4. /\ k \in Nat
          /\ at' = Arrival(transcript'[s].written, k + 1) /\ s = side'
          /\ k + 1 \in DOMAIN transcript'[s].written /\ w = transcript'[s].written[k + 1]
      BY <1>3, <1>4, <2>1 DEF Here, Position
    <2> QED
      BY <1>12, <2>3, <2>4, PositionAtChunks
  <1>14. side' = "Received" => SentDone'
    BY <1>3, SameStreams, TracksFacts
  <1>15. k \in Nat
    BY <1>4 DEF Here
  <1>16. /\ side' # "Sent" /\ phase' \notin {"Ok", "Err", "Panicked"}
    BY <1>3
  <1> QED
    BY <1>13, <1>14, <1>15, <1>16, FactsTrack

LEMMA ReadChunkTracks ==
    IInv /\ Tracks /\ ReadChunk /\ sums # "Wrapped" /\ sums' # "Wrapped" => Tracks'
PROOF
  <1> SUFFICES ASSUME IInv, Tracks, ReadChunk, sums # "Wrapped", sums' # "Wrapped" PROVE Tracks'
    OBVIOUS
  <1>1. /\ phase = "Chunks" /\ Iterate
        /\ UNCHANGED <<src, transcript, side, at, parsed, phase>>
    BY DEF ReadChunk
  <1>2. PICK k \in Nat : Position(k)
    BY TracksFacts
  <1>3. PICK w : w = transcript[side].written[k + 1]
    OBVIOUS
  <1>4. k + 1 \in DOMAIN transcript[side].written /\ LoopFollows(w)
    BY <1>1, <1>2, <1>3 DEF Position
  <1>5. LoopOK(heads[at].end)
    BY <1>1 DEF IInv, ChunksOK
  <1>6. LoopFollows(w)'
    BY <1>1, <1>4, <1>5, LoopFollowsStep DEF Reads
  <1>7. Position(k)'
    <2>1. PICK s : s = side
      OBVIOUS
    <2>2. Collected(s, k) /\ parsed'[s] = parsed[s]
      BY <1>1, <1>2, <2>1 DEF Position
    <2>3. Collected(s, k)'
      BY <1>1, <2>2, SameStreams
    <2>4. /\ at' = Arrival(transcript'[s].written, k + 1) /\ s = side'
          /\ k + 1 \in DOMAIN transcript'[s].written /\ w = transcript'[s].written[k + 1]
      BY <1>1, <1>2, <1>3, <1>4, <2>1 DEF Position
    <2> QED
      BY <1>6, <2>3, <2>4, PositionAtChunks
  <1>8. side' = "Received" => SentDone'
    BY <1>1, SameStreams, TracksFacts
  <1> QED
    BY <1>1, <1>7, <1>8, TracksFacts, FactsTrack

-------------------------------------------------------------------------------
(* The message of a body that was read to its end. *)
LEMMA FinishTracks == IInv /\ Tracks /\ FinishChunked /\ sums # "Wrapped" => Tracks'
PROOF
  <1> SUFFICES ASSUME IInv, Tracks, FinishChunked, sums # "Wrapped" PROVE Tracks'
    OBVIOUS
  <1>1. phase = "Chunks" /\ UNCHANGED <<src, transcript, side, loopVars>>
    BY DEF FinishChunked
  <1>2. at \in DOMAIN heads /\ LoopOK(heads[at].end)
    BY <1>1 DEF IInv, ChunksOK
  <1>3. PICK k, st, w : Here(k, st, w)
    BY <1>2, MessageHere
  <1>4. LoopFollows(w)
    BY <1>1, <1>3 DEF Here, Position
  <1>5. AllWellFormed => Good(w) /\ Supported(side, st, w, at, heads[at])
    BY <1>3 DEF Here
  <1>6. outcome # "Reading" => (Lost /\ ~ Good(w)) \/ LoopDone(w)
    BY <1>4 DEF LoopFollows, AtChunk
  <1>7. CASE outcome \in {"Panicked", "Failed"} /\ (Stop("Panicked") \/ Stop("Err"))
    <2>1. ~ AllWellFormed
      BY <1>5, <1>6, <1>7 DEF LoopDone
    <2> QED
      BY <1>1, <1>7, <2>1, ErrTracks
  <1>8. ASSUME outcome = "Parsed"
        PROVE  /\ w.end <= SourceLength /\ content = w.payload /\ ChunkedEnd = Behind(w)
               /\ ChunkedEnd \in Nat /\ at < ChunkedEnd /\ ChunkedEnd <= SourceLength
               /\ content # {} => ~ SetEnd(content) > SourceLength
    <2>1. LoopDone(w)
      BY <1>6, <1>8 DEF Lost, BeyondSource
    <2>2. /\ heads[at].end \in Nat /\ at < heads[at].end /\ at \in Nat /\ SourceLength \in Nat
      BY <1>2, SideFacts DEF IInv
    <2>3. ChunkedEnd \in heads[at].end + 1 .. SourceLength
          /\ content \subseteq heads[at].end .. ChunkedEnd - 1
      BY <1>2, <1>8 DEF LoopOK, Complete
    <2>4. PICK e : e = ChunkedEnd
      OBVIOUS
    <2>5. e \in Nat /\ at < e /\ e <= SourceLength
      BY <2>2, <2>3, <2>4
    <2>6. content \in SUBSET Nat /\ \A i \in content : i < e
      BY <2>2, <2>3, <2>4, <2>5
    <2>7. content # {} => SetEnd(content) \in Nat /\ SetEnd(content) <= e
      BY <2>5, <2>6, EndBelow
    <2>8. content # {} => ~ SetEnd(content) > SourceLength
      BY <2>2, <2>5, <2>7
    <2>9. w.end <= SourceLength /\ content = w.payload /\ e = Behind(w)
      BY <2>1, <2>4 DEF LoopDone, Behind
    <2> QED
      BY <2>4, <2>5, <2>8, <2>9
  <1>9. CASE outcome = "Parsed" /\ BodyRejected /\ Stop("Err")
    <2>1. ~ SetEnd(content) > SourceLength \/ content = {}
      BY <1>8, <1>9
    <2>2. content # {} /\ IsJson(heads[at]) /\ ~ JsonParses(content)
      BY <1>9, <2>1 DEF BodyRejected
    <2>3. ~ AllWellFormed
      <3>1. /\ <<"application/json">> \in NamedIn(st.cells, heads[at], "content-type")
            /\ IndexRanges(st.cells, w.payload) \notin DOMAIN JsonOf
        BY <1>3, <1>8, <1>9, <2>2 DEF Here, IsJson, FirstNamed, JsonParses, DataOf
      <3> QED
        BY <1>5, <1>8, <1>9, <2>2, <3>1 DEF Supported
    <2> QED
      BY <1>1, <1>9, <2>3, ErrTracks
  <1>10. CASE /\ outcome = "Parsed"
              /\ Yield(Message(heads[at], at .. ChunkedEnd - 1, content, structure))
    <2>1. PICK m : m = Message(heads[at], at .. ChunkedEnd - 1, content, structure)
      OBVIOUS
    <2>2. PICK e : e = ChunkedEnd
      OBVIOUS
    <2>3. m.span = at .. e - 1 /\ m.body = content /\ Yield(m)
      BY <1>10, <2>1, <2>2, MessageFields
    <2> QED
      BY <1>1, <1>3, <1>8, <1>10, <2>2, <2>3, YieldTracks DEF Here
  <1>11. ~ (outcome = "Parsed" /\ BoundaryPanics)
    <2> SUFFICES ASSUME outcome = "Parsed" PROVE ~ BoundaryPanics
      OBVIOUS
    <2>1. PICK b \in Nat : b = SetEnd(structure) /\ b + 2 <= ChunkedEnd
      BY <1>2 DEF LoopOK, Complete
    <2>2. ChunkedEnd \in Nat /\ ChunkedEnd <= SourceLength /\ SourceLength \in Nat
      BY <1>8, SideFacts DEF IInv
    <2> QED
      BY <2>1, <2>2 DEF BoundaryPanics
  <1> QED
    BY <1>7, <1>9, <1>10, <1>11 DEF FinishChunked

(* The sent data is collected: the received data is next, and nothing of it *)
(* is parsed.                                                               *)
LEMMA SentTracks == IInv /\ Tracks /\ SentCollected => Tracks'
PROOF
  <1> SUFFICES ASSUME IInv, Tracks, SentCollected PROVE Tracks'
    OBVIOUS
  <1>1. /\ phase = "Idle" /\ side = "Sent" /\ at >= SourceLength
        /\ side' = "Received" /\ at' = 0
        /\ transcript' = transcript /\ parsed' = parsed /\ phase' = phase
    BY DEF SentCollected
  <1>2. PICK k \in Nat : Position(k)
    BY TracksFacts
  <1>3. SentDone'
    <2>1. EndOf(transcript["Sent"].written, k) = SourceLength
          /\ SourceLength = Cardinality(DOMAIN transcript["Sent"].cells)
      BY <1>1, <1>2, AtEnd, SourceBegins DEF IInv
    <2>2. SentDone
      BY <1>1, <1>2, <2>1 DEF SentDone, Position
    <2> QED
      BY <1>1, <2>2, SameStreams
  <1>4. PICK written : written = transcript["Received"].written
    OBVIOUS
  <1>5. Len(written) \in Nat /\ Cardinality(DOMAIN transcript["Received"].cells) \in Nat
    BY <1>4, StreamFacts DEF IInv
  <1>6. Collected("Received", 0)
    <2>1. DOMAIN parsed["Received"] = 1 .. 0
      BY <1>1, TracksFacts
    <2>2. 0 \in 0 .. Len(written) /\ EndOf(written, 0) = 0
      BY <1>5 DEF EndOf
    <2> QED
      BY <1>4, <1>5, <2>1, <2>2 DEF Collected
  <1>7. Arrival(written, 0 + 1) = 0
    BY DEF Arrival, EndOf
  <1>8. Position(0)'
    <2>1. Collected("Received", 0)'
      BY <1>1, <1>6, SameStreams
    <2> QED
      BY <1>1, <1>4, <1>7, <2>1, PositionThen
  <1> QED
    BY <1>1, <1>3, <1>8, FactsTrack

LEMMA ReceivedTracks == IInv /\ Tracks /\ ReceivedCollected => Tracks'
  BY StopTracks DEF ReceivedCollected

LEMMA InitTracks == Init => Tracks
PROOF
  <1> SUFFICES ASSUME Init PROVE Tracks
    OBVIOUS
  <1>1. /\ transcript \in Transcripts /\ side = "Sent" /\ at = 0 /\ phase = "Idle"
        /\ parsed = [s \in {"Sent", "Received"} |-> << >>]
    BY DEF Init
  <1>2. PICK written : written = transcript["Sent"].written
    OBVIOUS
  <1>3. Len(written) \in Nat /\ Cardinality(DOMAIN transcript["Sent"].cells) \in Nat
    BY <1>1, <1>2, StreamFacts
  <1>4. DOMAIN parsed["Sent"] = {} /\ DOMAIN parsed["Received"] = {} /\ 1 .. 0 = {}
    BY <1>1
  <1>5. Collected("Sent", 0)
    <2>1. 0 \in 0 .. Len(written) /\ EndOf(written, 0) = 0
      BY <1>3 DEF EndOf
    <2> QED
      BY <1>2, <1>3, <1>4, <2>1 DEF Collected
  <1>6. Position(0)
    <2>1. Arrival(written, 0 + 1) = 0
      BY DEF Arrival, EndOf
    <2> QED
      BY <1>1, <1>2, <1>5, <2>1 DEF Position
  <1> QED
    BY <1>1, <1>4, <1>6 DEF Tracks, WellFormedParses

LEMMA StepTracks ==
    IInv /\ Tracks /\ [Next]_vars /\ sums # "Wrapped" /\ sums' # "Wrapped" => Tracks'
PROOF
  <1> SUFFICES ASSUME IInv, Tracks, [Next]_vars, sums # "Wrapped", sums' # "Wrapped"
               PROVE  Tracks'
    OBVIOUS
  <1>1. CASE UNCHANGED vars
    <2>1. /\ UNCHANGED <<src, transcript, side, at, parsed, phase, loopVars>>
      BY <1>1 DEF vars
    <2>2. /\ pos' = pos /\ content' = content /\ structure' = structure
          /\ trailer' = trailer /\ outcome' = outcome /\ heads' = heads
          /\ SourceLength' = SourceLength
      BY <2>1, SameTranscript DEF loopVars
    <2>3. PICK k \in Nat : Position(k)
      BY TracksFacts
    <2>4. Position(k)'
      BY <2>1, <2>2, <2>3, SMTT(30)
      DEF Position, Collected, LoopFollows, Good, Lost, BeyondSource, AtChunk, LoopDone, ChunkedEnd
    <2>5. /\ AllWellFormed' <=> AllWellFormed
          /\ SentDone' <=> SentDone
      BY <2>1, SameStreams
    <2> QED
      BY <2>1, <2>2, <2>4, <2>5, TracksFacts, FactsTrack
  <1> QED
    BY <1>1, RequestTracks, ResponseTracks, StartChunksTracks, ReadChunkTracks, FinishTracks,
       SentTracks, ReceivedTracks
    DEF Next, LengthWraps

(* In streams of well-formed messages no length wraps, ... *)
LEMMA NoLengthWraps == IInv /\ Tracks /\ LengthWraps => ~ AllWellFormed
PROOF
  <1> SUFFICES ASSUME IInv, Tracks, LengthWraps, AllWellFormed PROVE FALSE
    OBVIOUS
  <1>1. PICK head \in HeadHere :
          /\ ~ Has(head, "transfer-encoding") /\ (side = "Received" => ~ head.noBody)
          /\ TooLong(head) # {}
    BY DEF LengthWraps, GoodHead
  <1>2. at \in DOMAIN heads /\ head = heads[at]
    BY HeadIsHere
  <1>3. PICK text : /\ text \in FirstNamed(head, "content-length")
                    /\ head.end + LengthValue[text] > MaxUsize
    BY <1>1 DEF TooLong
  <1>4. PICK k, st, w : Here(k, st, w)
    BY <1>2, MessageHere
  <1>5. side \in {"Sent", "Received"} /\ SourceLength \in Nat /\ SourceLength <= MaxUsize
    BY SideFacts DEF IInv
  <1>6. LengthAnnounced(side, st.cells, head) /\ text \in NamedIn(st.cells, head, "content-length")
    BY <1>1, <1>3, <1>4 DEF Here, Has, FirstNamed, LengthAnnounced
  <1>7. WithLength(w, head, text) /\ Good(w)
    BY <1>2, <1>4, <1>5, <1>6, OneFraming DEF Here, Supported
  <1> QED
    <2>1. PICK length \in Nat : length = LengthValue[text]
      BY <1>7, LengthAssumption, UsizeAssumption DEF WithLength
    <2>2. PICK e \in Nat : e = head.end
      BY <1>2, SideFacts DEF IInv
    <2>3. w.end = e + length /\ w.end <= SourceLength
      BY <1>7, <2>1, <2>2 DEF WithLength, Good
    <2> QED
      BY <1>3, <1>5, <2>1, <2>2, <2>3, UsizeAssumption

(* ... and no chunk size. *)
LEMMA NoChunkWraps ==
    ASSUME NEW whole, NEW w, NEW head, Begins(whole), SourceLength <= MaxUsize,
           WithChunks(whole, w, head), Good(w), NEW k \in Nat, AtChunk(w, k),
           NEW last \in pos .. SourceLength, EndsLine(pos, last), ChunkWraps(last)
    PROVE  FALSE
PROOF
  <1>1. PICK n \in Nat :
          /\ n = Len(w.chunks) /\ DOMAIN w.chunks = 1 .. n
          /\ \A j \in 1 .. n : w.chunks[j] \in ChunkRecords
          /\ \A j \in 1 .. n - 1 :
                /\ SizeLine(whole, w.chunks[j]) /\ w.chunks[j].size # 0
                /\ w.chunks[j + 1].at = w.chunks[j].last + 2 + w.chunks[j].size + 2
    BY ChunkFacts
  <1>2. k \in 1 .. n /\ pos = w.chunks[k].at
    BY <1>1 DEF AtChunk
  <1>3. PICK c \in ChunkRecords : c = w.chunks[k]
    BY <1>1, <1>2
  <1>4. SizeLine(whole, c)
    <2>1. CASE k = n
      BY <1>1, <1>3, <2>1, LastChunkFacts
    <2>2. CASE k # n
      <3>1. k \in 1 .. n - 1
        BY <1>2, <2>2
      <3> QED
        BY <1>1, <1>3, <3>1
    <2> QED
      BY <2>1, <2>2
  <1>5. c.at \in Nat /\ c.last \in Nat /\ c.size \in Nat /\ SourceLength \in Nat
    BY UsizeAssumption DEF ChunkRecords, Begins
  <1>6. c.last + 2 < SourceLength
    BY <1>1, <1>2, <1>3, GoodChunks
  <1>7. last = c.last /\ ChunkSize(pos, last) = {c.size}
    BY <1>2, <1>3, <1>4, <1>5, <1>6, LineRead
  <1>8. c.size # 0 /\ c.last + 2 + c.size + 2 > MaxUsize
    BY <1>7 DEF ChunkWraps
  <1>9. k # n
    BY <1>1, <1>3, <1>8, LastChunkFacts
  <1>10. k + 1 \in 1 .. n
    BY <1>2, <1>9
  <1>11. PICK d \in ChunkRecords : d = w.chunks[k + 1]
    BY <1>1, <1>10
  <1>12. d.at = c.last + 2 + c.size + 2
    BY <1>1, <1>2, <1>3, <1>9, <1>11
  <1>13. d.last + 2 < SourceLength
    BY <1>1, <1>10, <1>11, GoodChunks
  <1>14. SizeLine(whole, d)
    <2>1. CASE k + 1 = n
      BY <1>1, <1>11, <2>1, LastChunkFacts
    <2>2. CASE k + 1 # n
      <3>1. k + 1 \in 1 .. n - 1
        BY <1>10, <2>2
      <3> QED
        BY <1>1, <1>11, <3>1
    <2> QED
      BY <2>1, <2>2
  <1>15. d.at < d.last /\ d.at \in Nat /\ d.last \in Nat
    BY <1>14 DEF SizeLine, ChunkRecords
  <1> QED
    BY <1>5, <1>8, <1>12, <1>13, <1>15, UsizeAssumption

LEMMA NoReadWraps ==
    IInv /\ Tracks /\ ReadChunk /\ sums # "Wrapped" /\ sums' = "Wrapped" => ~ AllWellFormed
PROOF
  <1> SUFFICES ASSUME IInv, Tracks, ReadChunk, sums # "Wrapped", sums' = "Wrapped", AllWellFormed
               PROVE  FALSE
    OBVIOUS
  <1>1. phase = "Chunks" /\ Iterate
    BY DEF ReadChunk
  <1>2. PICK last \in pos .. SourceLength : EndsLine(pos, last) /\ ChunkWraps(last)
    BY <1>1 DEF Iterate, SlicePanics, BadSize, Chunk, ChunkOverflows, LastChunkPanics, LastChunk,
                LastChunkWithTrailer, MissingTrailerEnd, Ends
  <1>3. at \in DOMAIN heads
    BY <1>1 DEF IInv, ChunksOK
  <1>4. PICK k, st, w : Here(k, st, w)
    BY <1>3, MessageHere
  <1>5. Good(w) /\ LoopFollows(w)
    BY <1>1, <1>4 DEF Here, Position
  <1>6. PICK whole : whole = transcript[side].whole
    OBVIOUS
  <1>7. WithChunks(whole, w, heads[at]) /\ outcome = "Reading"
    BY <1>1, <1>5, <1>6 DEF LoopFollows, Iterate
  <1>8. PICK j \in Nat : AtChunk(w, j)
    <2>1. PICK b \in Nat : b = pos
      BY <1>1 DEF IInv, ChunksOK, LoopBounds
    <2>2. ~ Lost
      BY <1>2, <1>7, <2>1, SideFacts DEF IInv, Lost, BeyondSource
    <2> QED
      BY <1>5, <1>7, <2>2 DEF LoopFollows, LoopDone
  <1>9. Begins(whole) /\ SourceLength <= MaxUsize
    BY <1>6, SourceBegins, SideFacts DEF IInv
  <1> QED
    BY <1>2, <1>5, <1>7, <1>8, <1>9, NoChunkWraps

(* Once a sum has wrapped, there is nothing to track any more; what was     *)
(* written was not well-formed then.                                        *)
Tracked == IF sums = "Wrapped" THEN ~ AllWellFormed ELSE Tracks

LEMMA StepTracked == IInv /\ Tracked /\ [Next]_vars => Tracked'
PROOF
  <1> SUFFICES ASSUME IInv, Tracked, [Next]_vars PROVE Tracked'
    OBVIOUS
  <1>1. transcript' = transcript
    BY DEF Next, ParseRequest, ParseResponse, LengthWraps, StartChunks, ReadChunk, FinishChunked,
           SentCollected, ReceivedCollected, vars
  <1>2. AllWellFormed' <=> AllWellFormed
    BY <1>1, SameStreams
  <1>3. \/ sums' = sums
        \/ sums' = "Wrapped" /\ (ReadChunk \/ LengthWraps)
    <2>1. sums' = sums \/ sums' = "Wrapped"
      BY SumsStep DEF SumsGoOn
    <2>2. \/ ReadChunk \/ LengthWraps \/ sums' = sums
      BY DEF Next, ParseRequest, ParseResponse, StartChunks, Enter, FinishChunked,
             SentCollected, ReceivedCollected, vars, loopVars
    <2> QED
      BY <2>1, <2>2
  <1>4. CASE sums = "Wrapped"
    BY <1>2, <1>3, <1>4 DEF Tracked
  <1>5. CASE sums # "Wrapped" /\ sums' = "Wrapped"
    BY <1>2, <1>3, <1>5, NoLengthWraps, NoReadWraps DEF Tracked
  <1>6. CASE sums # "Wrapped" /\ sums' # "Wrapped"
    BY <1>6, StepTracks DEF Tracked
  <1> QED
    BY <1>4, <1>5, <1>6

(* Tracked holds in every reachable state. *)
THEOREM Tracking == Spec => [](IInv /\ Tracked)
PROOF
  <1>1. Init => IInv /\ Tracked
    <2>1. Init => sums # "Wrapped"
      BY BuildsAssumption DEF Init
    <2> QED
      BY <2>1, InitInvariant, InitTracks DEF Tracked
  <1>2. IInv /\ Tracked /\ [Next]_vars => (IInv /\ Tracked)'
    BY StepInvariant, StepTracked
  <1> QED
    BY <1>1, <1>2, PTL DEF Spec

-------------------------------------------------------------------------------
(* Collected messages of which the last one ends with the stream are all    *)
(* that are in the stream completely.                                       *)
LEMMA CollectedIsWhole ==
    ASSUME IInv, NEW s \in {"Sent", "Received"}, NEW k \in Nat, Collected(s, k),
           EndOf(transcript[s].written, k) = Cardinality(DOMAIN transcript[s].cells)
    PROVE  /\ DOMAIN parsed[s] = Whole(s)
           /\ \A j \in Whole(s) : parsed[s][j].body = transcript[s].written[j].payload
           /\ Cardinality(DOMAIN transcript[s].cells)
                 \in {0} \cup {transcript[s].written[j].end : j \in Whole(s)}
PROOF
  <1>1. PICK written : written = transcript[s].written
    OBVIOUS
  <1>2. PICK n \in Nat : n = Cardinality(DOMAIN transcript[s].cells)
    BY StreamFacts DEF IInv
  <1>3. PICK len \in Nat : len = Len(written) /\ DOMAIN written = 1 .. len
    BY <1>1, StreamFacts DEF IInv
  <1>4. \A j \in 1 .. len : /\ written[j].end \in Nat
                            /\ \A i \in 0 .. j - 1 : EndOf(written, i) < written[j].end
    BY <1>1, <1>3, StreamFacts DEF IInv
  <1>5. /\ k <= len /\ DOMAIN parsed[s] = 1 .. k /\ EndOf(written, k) = n
        /\ \A j \in 1 .. k : parsed[s][j].body = written[j].payload
    BY <1>1, <1>2, <1>3 DEF Collected
  <1>6. ASSUME NEW j \in 1 .. len PROVE written[j].end <= n <=> j <= k
    <2>1. CASE j <= k
      <3>1. CASE j = k
        BY <1>5, <3>1 DEF EndOf
      <3>2. CASE j < k
        <4>1. EndOf(written, j) = written[j].end /\ EndOf(written, k) = written[k].end
          BY <3>2 DEF EndOf
        <4>2. k \in 1 .. len /\ j \in 0 .. k - 1
          BY <1>5, <3>2
        <4> QED
          BY <1>4, <1>5, <3>2, <4>1, <4>2
      <3> QED
        BY <2>1, <3>1, <3>2
    <2>2. CASE k < j
      <3>1. k \in 0 .. j - 1
        BY <2>2
      <3>2. EndOf(written, k) < written[j].end
        BY <1>4, <3>1
      <3> QED
        BY <1>4, <1>5, <2>2, <3>2
    <2> QED
      BY <2>1, <2>2
  <1>7. Whole(s) = 1 .. k
    <2>1. Whole(s) = {j \in 1 .. len : written[j].end <= n}
      BY <1>1, <1>2, <1>3 DEF Whole
    <2>2. \A j : j \in 1 .. k <=> j \in 1 .. len /\ j <= k
      BY <1>5
    <2> QED
      BY <1>6, <2>1, <2>2
  <1>8. n \in {0} \cup {written[j].end : j \in Whole(s)}
    <2>1. CASE k = 0
      BY <1>5, <2>1 DEF EndOf
    <2>2. CASE k # 0
      <3>1. k \in Whole(s) /\ written[k].end = n
        BY <1>5, <1>7, <2>2 DEF EndOf
      <3> QED
        BY <3>1
    <2> QED
      BY <2>1, <2>2
  <1> QED
    BY <1>1, <1>2, <1>5, <1>7, <1>8

(* A parse that succeeds and in which no sum has wrapped found exactly the  *)
(* messages that were written, each with its payload; a transcript that is  *)
(* cut inside a message fails.                                              *)
THEOREM OnlyWholeMessagesParsed == Spec => []OnlyWholeMessages
PROOF
  <1>1. IInv /\ Tracked => OnlyWholeMessages
    <2> SUFFICES ASSUME IInv, Tracks, phase = "Ok" PROVE OnlyWholeMessages
      BY DEF OnlyWholeMessages, Tracked
    <2>1. side = "Received" /\ at >= SourceLength /\ SentDone /\ DOMAIN parsed = {"Sent", "Received"}
      BY TracksFacts DEF IInv, ParsedLists
    <2>2. PICK k \in Nat : Position(k)
      BY TracksFacts
    <2>3. EndOf(transcript["Received"].written, k) = SourceLength
          /\ SourceLength = Cardinality(DOMAIN transcript["Received"].cells)
          /\ Collected("Received", k)
      BY <2>1, <2>2, AtEnd, SourceBegins DEF IInv, Position
    <2>4. PICK i \in Nat :
            /\ Collected("Sent", i)
            /\ EndOf(transcript["Sent"].written, i) = Cardinality(DOMAIN transcript["Sent"].cells)
      BY <2>1 DEF SentDone
    <2>5. /\ DOMAIN parsed["Received"] = Whole("Received")
          /\ \A j \in Whole("Received") :
                parsed["Received"][j].body = transcript["Received"].written[j].payload
          /\ SourceLength \in {0} \cup {transcript["Received"].written[j].end : j \in Whole("Received")}
      BY <2>3, CollectedIsWhole
    <2>6. /\ DOMAIN parsed["Sent"] = Whole("Sent")
          /\ \A j \in Whole("Sent") : parsed["Sent"][j].body = transcript["Sent"].written[j].payload
          /\ Cardinality(DOMAIN transcript["Sent"].cells)
                \in {0} \cup {transcript["Sent"].written[j].end : j \in Whole("Sent")}
      BY <2>4, CollectedIsWhole
    <2> QED
      BY <2>1, <2>3, <2>5, <2>6 DEF OnlyWholeMessages
  <1> QED
    BY <1>1, Tracking, PTL

(* Streams of well-formed messages, as the parser supports them, are never  *)
(* refused, and no sum wraps in them.                                       *)
THEOREM WellFormedAreParsed == Spec => []WellFormedParses
PROOF
  <1>1. Tracked => WellFormedParses
    BY DEF Tracked, Tracks, AllWellFormed, WellFormedParses
  <1> QED
    BY <1>1, Tracking, PTL

-------------------------------------------------------------------------------
(* How many messages of a side are collected, and that what is consumed     *)
(* ends in front of the messages after them.                                *)
LEMMA CollectedSide ==
    ASSUME IInv, Tracks, NEW s \in {"Sent", "Received"}, DOMAIN parsed[s] # {}
    PROVE  \E k \in Nat :
              /\ Collected(s, k)
              /\ \A i \in Consumed(s) : i \in Nat /\ i < EndOf(transcript[s].written, k)
PROOF
  <1>1. /\ side \in {"Sent", "Received"} /\ at \in Nat
    BY SideFacts DEF IInv
  <1>2. CASE s = side
    <2>1. PICK k \in Nat : Position(k)
      BY TracksFacts
    <2>2. PICK written : written = transcript[s].written
      OBVIOUS
    <2>3. Collected(s, k) /\ at = Arrival(written, k + 1) /\ k \in 0 .. Len(written)
      BY <1>2, <2>1, <2>2 DEF Position, Collected
    <2>4. PICK e \in Nat : e = EndOf(written, k)
      <3>1. Len(written) \in Nat /\ \A j \in 1 .. Len(written) : written[j].end \in Nat
        BY <2>2, StreamFacts DEF IInv
      <3> QED
        BY <2>3, <3>1 DEF EndOf
    <2>5. at <= e
      <3>1. (k + 1) - 1 = k
        OBVIOUS
      <3>2. at = e \/ (k + 1 > 1 /\ at = written[k].end - 2)
        BY <2>3, <2>4, <3>1 DEF Arrival
      <3>3. k + 1 > 1 => written[k].end = e
        BY <2>4 DEF EndOf
      <3> QED
        BY <1>1, <3>2, <3>3
    <2>6. Consumed(s) = 0 .. at - 1
      BY <1>2 DEF Consumed
    <2> QED
      BY <1>1, <2>2, <2>3, <2>4, <2>5, <2>6
  <1>3. CASE s # side
    <2>1. s = "Sent" /\ side = "Received"
      BY <1>1, <1>3, TracksFacts
    <2>2. PICK k \in Nat :
            /\ Collected("Sent", k)
            /\ EndOf(transcript["Sent"].written, k) = Cardinality(DOMAIN transcript["Sent"].cells)
      BY <2>1, TracksFacts DEF SentDone
    <2>3. PICK n \in Nat : n = Cardinality(DOMAIN transcript["Sent"].cells)
                           /\ DOMAIN transcript["Sent"].cells = 0 .. n - 1
      BY StreamFacts DEF IInv
    <2>4. Consumed(s) = 0 .. n - 1
      BY <2>1, <2>3 DEF Consumed
    <2> QED
      BY <2>1, <2>2, <2>3, <2>4
  <1> QED
    BY <1>2, <1>3

(* without_data of a parsed message reveals no payload that was written on  *)
(* its side and no header of a parsed message, however many there are,      *)
(* where header lines end with CRLF and no sum has wrapped.                 *)
THEOREM WithoutDataReveals == Spec => []WithoutDataHides
PROOF
  <1>1. IInv /\ Tracked => WithoutDataHides
    <2> SUFFICES ASSUME IInv, Tracks, sums # "Wrapped", NEW s \in DOMAIN parsed, CrLfLines(transcript[s]),
                        NEW k \in DOMAIN parsed[s]
                 PROVE  /\ \A w \in DOMAIN transcript[s].written :
                             WithoutData(parsed[s][k]) \cap transcript[s].written[w].payload = {}
                        /\ \A l \in DOMAIN parsed[s] : \A j \in DOMAIN parsed[s][l].headers :
                             WithoutData(parsed[s][k]) \cap parsed[s][l].headers[j].span = {}
      BY DEF WithoutDataHides, Tracked
    <2>1. s \in {"Sent", "Received"}
      BY DEF IInv, ParsedLists
    <2>2. \A l \in DOMAIN parsed[s] : MessageApart(parsed[s][l])
      BY DEF IInv, PartsApart
    <2>3. /\ \A l \in DOMAIN parsed[s] : l # k => parsed[s][k].span \cap parsed[s][l].span = {}
          /\ parsed[s][k].span \subseteq Consumed(s)
      BY DEF IInv, SpansTile
    <2>4. PICK hidden : hidden = WithoutData(parsed[s][k])
      OBVIOUS
    <2>5. /\ hidden \subseteq parsed[s][k].span /\ hidden \cap parsed[s][k].body = {}
          /\ \A j \in DOMAIN parsed[s][k].headers : hidden \cap parsed[s][k].headers[j].span = {}
      BY <2>4 DEF WithoutData
    <2>6. ASSUME NEW w \in DOMAIN transcript[s].written
          PROVE  hidden \cap transcript[s].written[w].payload = {}
      <3>1. PICK written : written = transcript[s].written
        OBVIOUS
      <3>2. PICK n \in Nat :
              /\ Collected(s, n)
              /\ \A i \in Consumed(s) : i \in Nat /\ i < EndOf(written, n)
        BY <2>1, <3>1, CollectedSide
      <3>3. DOMAIN parsed[s] = 1 .. n /\ \A j \in 1 .. n : parsed[s][j].body = written[j].payload
        BY <3>1, <3>2 DEF Collected
      <3>4. PICK len \in Nat : len = Len(written) /\ DOMAIN written = 1 .. len
        BY <2>1, <3>1, StreamFacts DEF IInv
      <3>5. w \in 1 .. len /\ n <= len
        BY <3>1, <3>2, <3>4 DEF Collected
      <3>6. CASE w \in 1 .. n
        <4>1. written[w].payload = parsed[s][w].body /\ parsed[s][w].body \subseteq parsed[s][w].span
          BY <2>2, <3>3, <3>6 DEF MessageApart
        <4>2. w # k => parsed[s][k].span \cap parsed[s][w].span = {}
          BY <2>3, <3>3, <3>6
        <4> QED
          BY <2>5, <3>1, <4>1, <4>2
      <3>7. CASE n < w
        <4>1. written[w].payload \subseteq EndOf(written, w - 1) .. written[w].end - 1
          BY <2>1, <3>1, StreamFacts DEF IInv, InOrder
        <4>2. \A j \in 1 .. len : /\ written[j].end \in Nat
                                  /\ \A i \in 0 .. j - 1 : EndOf(written, i) < written[j].end
          BY <2>1, <3>1, <3>4, StreamFacts DEF IInv
        <4>3. PICK a \in Nat : a = EndOf(written, n)
          BY <3>5, <4>2 DEF EndOf
        <4>4. PICK b \in Nat : b = EndOf(written, w - 1)
          BY <3>5, <4>2 DEF EndOf
        <4>5. a <= b
          <5>1. CASE w - 1 = n
            BY <4>3, <4>4, <5>1
          <5>2. CASE w - 1 # n
            <6>1. w - 1 \in 1 .. len /\ n \in 0 .. (w - 1) - 1 /\ w - 1 # 0
              BY <3>5, <3>7, <5>2
            <6>2. EndOf(written, w - 1) = written[w - 1].end
              BY <6>1 DEF EndOf
            <6> QED
              BY <4>2, <4>3, <4>4, <6>1, <6>2
          <5> QED
            BY <5>1, <5>2
        <4>6. \A i \in hidden : i \in Nat /\ i < a
          BY <2>3, <2>5, <3>2, <4>3
        <4>7. \A i \in written[w].payload : i \in Int /\ b <= i
          BY <3>5, <4>1, <4>2, <4>4
        <4> QED
          BY <3>1, <4>5, <4>6, <4>7
      <3> QED
        BY <3>5, <3>6, <3>7
    <2>7. ASSUME NEW l \in DOMAIN parsed[s], NEW j \in DOMAIN parsed[s][l].headers
          PROVE  hidden \cap parsed[s][l].headers[j].span = {}
      <3>1. parsed[s][l].headers[j].span \subseteq parsed[s][l].span
        BY <2>2 DEF MessageApart
      <3> QED
        BY <2>3, <2>5, <3>1
    <2> QED
      BY <2>4, <2>6, <2>7
  <1> QED
    BY <1>1, Tracking, PTL
===============================================================================
