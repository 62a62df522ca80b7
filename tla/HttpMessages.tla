------------------------------ MODULE HttpMessages ------------------------------
(***************************************************************************)
(* HttpTranscript::parse (context/src/http/transcript.rs): the iterators    *)
(* Requests and Responses (spanner/src/http/mod.rs) collected over the sent *)
(* and then over the received data, with the message framing of             *)
(* spanner/src/http/span.rs.  Heads are found by the crate httparse, which  *)
(* is external: a stream says at which offsets it finds one, and what; so   *)
(* is the JSON grammar.  Everything else is the code's own work.  A cell of *)
(* a header value may stand for several bytes.  One call of next() is one   *)
(* step, but a chunked body takes a step for each chunk (ChunkLoop).        *)
(***************************************************************************)
EXTENDS ChunkLoop, HttpTypes, RangeSets

CONSTANTS
    Transcripts,   \* [Sent, Received] of streams [cells, heads, whole, written]
    LengthValue,   \* a function from the texts that parse to a usize
    JsonOf,        \* a function from the texts that are JSON to the values
                   \* in them: a sequence of [span, pair, ...], the root first
    NotText        \* the cells that are no UTF-8

(* What the code relies on: httparse finds the parts of a head inside it    *)
(* and in their order, no target in a response, and lengths of type usize.  *)
HeadInOrder(o, head) ==
    /\ o < head.end
    /\ head.target \subseteq o .. head.end - 1
    /\ Len(head.headers) \in Nat /\ DOMAIN head.headers = 1 .. Len(head.headers)
    /\ \A k \in DOMAIN head.headers :
          LET h == head.headers[k]
          IN  /\ h.first \in o .. head.end /\ h.start \in h.first .. head.end
              /\ h.end \in h.start .. head.end
              /\ \A i \in head.target : i < h.first
              /\ \A j \in DOMAIN head.headers : k < j => h.end < head.headers[j].first

ASSUME TranscriptsAssumption ==
    \A t \in Transcripts :
        /\ DOMAIN t = {"Sent", "Received"}
        /\ \A s \in DOMAIN t : \E n \in 0 .. MaxUsize :
              /\ DOMAIN t[s].cells = 0 .. n - 1
              /\ \A o \in DOMAIN t[s].heads :
                    /\ o \in 0 .. n /\ t[s].heads[o].end \in 0 .. n
                    /\ HeadInOrder(o, t[s].heads[o])
                    /\ s = "Received" => t[s].heads[o].target = {}

ASSUME LengthAssumption == \A text \in DOMAIN LengthValue : LengthValue[text] \in 0 .. MaxUsize

VARIABLES
    transcript,    \* the transcript that is parsed
    side,          \* the side the iterator is on
    at,            \* Requests::pos or Responses::pos
    parsed,        \* parsed[s]: the messages collected on side s
    phase          \* "Idle" between two calls, "Chunks" in a chunked body,
                   \* or how parse ended

vars == <<src, transcript, side, at, parsed, phase, loopVars>>

heads == transcript[side].heads

NoCrLfFrom(first) == \A i \in first .. SourceLength : ~ CrLfAt(i)

FirstCrLf(first) ==
    CHOOSE i \in first .. SourceLength : CrLfAt(i) /\ \A j \in first .. i - 1 : ~ CrLfAt(j)

(* from_header: the header with its trailing whitespace and line break *)
FromHeader(h) ==
    [name |-> h.name,
     span |-> h.first .. FirstCrLf(h.end) + 1,
     value |-> h.start .. h.end - 1]

(* "request line is terminated with CRLF", "CRLF is present in a valid      *)
(* header": no CRLF behind the start of the message or behind the value of  *)
(* a header, since httparse also takes a single LF for the end of a line.   *)
LineBreakMissing(head) ==
    NoCrLfFrom(at) \/ \E k \in DOMAIN head.headers : NoCrLfFrom(head.headers[k].end)

(* The line up to the first CRLF, which a span of text is made of, holds a  *)
(* cell that is no text.                                                    *)
RawLine(cells, o) ==
    \E i \in DOMAIN cells :
        o <= i /\ cells[i] \in NotText /\ \A j \in o .. i - 1 : ~ CrLfIn(cells, j)

(* The code expects a span for each part of a head.  There is none for a    *)
(* status code below 100, whose digits are not found, and for a reason that *)
(* is not in the source: httparse gives an empty one of its own where the   *)
(* phrase is missing or not ASCII.                                          *)
SpanPanics(head) ==
    \/ LineBreakMissing(head)
    \/ RawLine(src, at)
    \/ side = "Received" /\ (head.code = {} \/ ~ head.phrase)

Headers(head) == [k \in DOMAIN head.headers |-> FromHeader(head.headers[k])]

(* The data of a span. *)
DataOf(S) == IndexRanges(src, S)

(* headers_with_name(name).next(), as a set of at most one text *)
NamedIn(cells, head, name) ==
    {IndexRanges(cells, h.start .. h.end - 1) :
        h \in {head.headers[k] : k \in FirstWithName(head.headers, name)}}

FirstNamed(head, name) == NamedIn(src, head, name)

IsJson(head) == <<"application/json">> \in FirstNamed(head, "content-type")

SetMin(S) == CHOOSE i \in S : \A j \in S : i <= j
SetEnd(S) == (CHOOSE i \in S : \A j \in S : i >= j) + 1

JsonParses(ranges) == DataOf(ranges) \in DOMAIN JsonOf

Shifted(S, by) == {i + by : i \in S}

(* Mutant of OffsetValues: the pairs stay where they are. *)
OffsetWithoutPairs(values, by) ==
    [n \in DOMAIN values |-> [values[n] EXCEPT !.span = Shifted(@, by)]]

(* JsonValue::offset, which reaches every value and every pair *)
OffsetValues(values, by) ==
    [n \in DOMAIN values |->
        [values[n] EXCEPT !.span = Shifted(@, by), !.pair = Shifted(@, by)]]

(* parse_body: JSON is parsed from the joined data of the ranges, and its   *)
(* spans are shifted by the start of the first range.                       *)
ParsedJson(ranges) == OffsetValues(JsonOf[DataOf(ranges)], SetMin(ranges))

(* code is the method of a request and the status code of a response. *)
Message(head, span, body, boundaries) ==
    [span |-> span, code |-> head.code, target |-> head.target, headers |-> Headers(head),
     body |-> body, boundaries |-> boundaries,
     json |-> IF body # {} /\ IsJson(head) THEN ParsedJson(body) ELSE << >>]

-------------------------------------------------------------------------------
Init ==
    /\ transcript \in Transcripts
    /\ side = "Sent"
    /\ src = transcript["Sent"].cells
    /\ at = 0
    /\ parsed = [s \in {"Sent", "Received"} |-> << >>]
    /\ phase = "Idle"
    /\ pos = 0 /\ content = {} /\ structure = {} /\ trailer = {}
    /\ outcome = "Reading" /\ sums \in Builds

(* Mutant of Yield: the iterator moves behind the body it found. *)
YieldBehindBody(m) ==
    /\ parsed' = [parsed EXCEPT ![side] = Append(@, m)]
    /\ at' = IF m.body = {} THEN at + Cardinality(m.span) ELSE SetEnd(m.body)
    /\ phase' = "Idle"

(* The iterator yields a message and moves behind its span. *)
Yield(m) ==
    /\ parsed' = [parsed EXCEPT ![side] = Append(@, m)]
    /\ at' = at + Cardinality(m.span)
    /\ phase' = "Idle"

(* The first error ends the collection: parse returns it. *)
Stop(how) == phase' = how /\ UNCHANGED <<at, parsed>>

(* A message that is its head. *)
NoBody(head) == Yield(Message(head, at .. head.end - 1, {}, {}))

(* Mutant of Sized: a body is cut at the end of the source. *)
SizedCut(head, length) ==
    LET end == IF head.end + length > SourceLength THEN SourceLength ELSE head.end + length
        body == head.end .. end - 1
    IN  IF IsJson(head) /\ body # {} /\ ~ JsonParses(body) THEN Stop("Err")
        ELSE Yield(Message(head, at .. end - 1, body, {}))

(* Mutant of Sized: the end of the body is not compared with the source. *)
SizedUnchecked(head, length) ==
    Yield(Message(head, at .. head.end + length - 1, head.end .. head.end + length - 1, {}))

(* A body given by its length.  A range beyond the source is an error, and  *)
(* so is a body that should be JSON and is not.                             *)
Sized(head, length) ==
    LET body == head.end .. head.end + length - 1
    IN  \/ length = 0 /\ NoBody(head)
        \/ /\ length > 0 /\ head.end + length > MaxUsize /\ sums = "Checked"
           /\ Stop("Panicked")
        \/ /\ length > 0 /\ head.end + length \in SourceLength + 1 .. MaxUsize
           /\ Stop("Err")
        \/ /\ length > 0 /\ head.end + length <= SourceLength
           /\ \/ IsJson(head) /\ ~ JsonParses(body) /\ Stop("Err")
              \/ /\ IsJson(head) => JsonParses(body)
                 /\ Yield(Message(head, at .. head.end + length - 1, body, {}))

(* The text of the Content-Length header. *)
SizedBy(head, text) ==
    \/ text \notin DOMAIN LengthValue /\ Stop("Err")
    \/ text \in DOMAIN LengthValue /\ Sized(head, LengthValue[text])

(* httparse finds no complete head here. *)
NoHead == at \notin DOMAIN heads /\ Stop("Err")

HeadHere == IF at \in DOMAIN heads THEN {heads[at]} ELSE {}

BadHead == \E head \in HeadHere : SpanPanics(head) /\ Stop("Panicked")

GoodHead == {head \in HeadHere : ~ SpanPanics(head)}

Has(head, name) == FirstNamed(head, name) # {}

(* The iterators look for a message while there is data left. *)
RequestsNext == phase = "Idle" /\ side = "Sent" /\ at < SourceLength
ResponsesNext == phase = "Idle" /\ side = "Received" /\ at < SourceLength

(* request_body_len, and the body it gives *)
RequestBody(head) ==
    \/ Has(head, "transfer-encoding") /\ Stop("Err")
    \/ /\ ~ Has(head, "transfer-encoding") /\ ~ Has(head, "content-length")
       /\ NoBody(head)
    \/ /\ ~ Has(head, "transfer-encoding")
       /\ \E text \in FirstNamed(head, "content-length") : SizedBy(head, text)

(* One call of Requests::next that reaches parse_request_from_bytes. *)
ParseRequest ==
    /\ RequestsNext
    /\ NoHead \/ BadHead \/ \E head \in GoodHead : RequestBody(head)
    /\ UNCHANGED <<src, transcript, side, loopVars>>

(* response_body_ranges for a response that is not chunked, and its body *)
ResponseBody(head) ==
    \/ head.noBody /\ NoBody(head)
    \/ /\ ~ head.noBody
       /\ \E coding \in FirstNamed(head, "transfer-encoding") :
             coding # <<"chunked">> /\ Stop("Err")
    \/ /\ ~ head.noBody /\ ~ Has(head, "transfer-encoding")
       /\ \E text \in FirstNamed(head, "content-length") : SizedBy(head, text)
    \/ /\ ~ head.noBody
       /\ ~ Has(head, "transfer-encoding") /\ ~ Has(head, "content-length")
       /\ Stop("Err")

(* One call of Responses::next that reaches parse_response_from_bytes. *)
ParseResponse ==
    /\ ResponsesNext
    /\ NoHead \/ BadHead \/ \E head \in GoodHead : ResponseBody(head)
    /\ UNCHANGED <<src, transcript, side, loopVars>>

(* The lengths that end beyond MaxUsize. *)
TooLong(head) ==
    {text \in FirstNamed(head, "content-length") \cap DOMAIN LengthValue :
        head.end + LengthValue[text] > MaxUsize}

(* A body whose end wraps, to a position in front of the body.  A response  *)
(* has no body then.  A request has an empty one, which is taken for none   *)
(* here; it is no JSON, and the span of the request may end in its head or  *)
(* even before it begins, which no slice does (Bytes::slice).               *)
WrappedBody(head, end) ==
    \/ side = "Received" /\ NoBody(head)
    \/ side = "Sent" /\ IsJson(head) /\ Stop("Err")
    \/ side = "Sent" /\ ~ IsJson(head) /\ end < at /\ Stop("Panicked")
    \/ /\ side = "Sent" /\ ~ IsJson(head) /\ end >= at
       /\ Yield(Message(head, at .. end - 1, {}, {}))

(* One call of next in a build that does not check arithmetic, when the     *)
(* length is too large for it.                                              *)
LengthWraps ==
    /\ RequestsNext \/ ResponsesNext
    /\ sums # "Checked"
    /\ \E head \in GoodHead :
          /\ ~ Has(head, "transfer-encoding") /\ (side = "Received" => ~ head.noBody)
          /\ \E text \in TooLong(head) :
                WrappedBody(head, (head.end + LengthValue[text]) % (MaxUsize + 1))
    /\ sums' = "Wrapped"
    /\ UNCHANGED <<src, transcript, side, pos, content, structure, trailer, outcome>>

(* The same for a chunked response: the loop starts behind the head. *)
StartChunks ==
    /\ ResponsesNext
    /\ \E head \in GoodHead :
          /\ ~ head.noBody
          /\ <<"chunked">> \in FirstNamed(head, "transfer-encoding")
          /\ Enter(head.end)
    /\ phase' = "Chunks"
    /\ UNCHANGED <<src, transcript, side, at, parsed>>

ReadChunk ==
    /\ phase = "Chunks"
    /\ Iterate
    /\ UNCHANGED <<src, transcript, side, at, parsed, phase>>

(* The end of a chunked message: two positions behind the last size line,   *)
(* or two behind the trailer section.                                       *)
ChunkedEnd == IF trailer = {} THEN SetEnd(structure) + 2 ELSE SetEnd(trailer) + 2

(* A body that ends beyond the source, or that should be JSON and is not. *)
BodyRejected ==
    /\ content # {}
    /\ SetEnd(content) > SourceLength \/ (IsJson(heads[at]) /\ ~ JsonParses(content))

(* A boundary that ends beyond the source: only where a position wrapped    *)
(* is the last chunk not behind all others.                                 *)
BoundaryPanics == SetEnd(structure) + 2 > SourceLength

(* parse_response_from_bytes behind the chunk loop. *)
FinishChunked ==
    /\ phase = "Chunks"
    /\ \/ outcome = "Panicked" /\ Stop("Panicked")
       \/ outcome = "Failed" /\ Stop("Err")
       \/ outcome = "Parsed" /\ BodyRejected /\ Stop("Err")
       \/ outcome = "Parsed" /\ ~ BodyRejected /\ BoundaryPanics /\ Stop("Panicked")
       \/ /\ outcome = "Parsed" /\ ~ BodyRejected /\ ~ BoundaryPanics
          /\ Yield(Message(heads[at], at .. ChunkedEnd - 1, content, structure))
    /\ UNCHANGED <<src, transcript, side, loopVars>>

(* The iterator over the sent data returns None; the received data is next. *)
SentCollected ==
    /\ phase = "Idle" /\ side = "Sent" /\ at >= SourceLength
    /\ side' = "Received"
    /\ src' = transcript["Received"].cells
    /\ at' = 0
    /\ UNCHANGED <<transcript, parsed, phase, loopVars>>

ReceivedCollected ==
    /\ phase = "Idle" /\ side = "Received" /\ at >= SourceLength
    /\ Stop("Ok")
    /\ UNCHANGED <<src, transcript, side, loopVars>>

Next ==
    \/ ParseRequest
    \/ ParseResponse
    \/ LengthWraps
    \/ StartChunks
    \/ ReadChunk
    \/ FinishChunked
    \/ SentCollected
    \/ ReceivedCollected

Spec == Init /\ [][Next]_vars

FairSpec == Spec /\ WF_vars(Next)

-------------------------------------------------------------------------------
(* How a stream st is written: message after message and then cut off, so   *)
(* that st.cells is the beginning of st.whole.  Of a written message w there *)
(* is its end, its payload, whether it has trailers, whether it is written   *)
(* as the parser supports it, and the layout of a chunked body.              *)
EndOf(written, k) == IF k = 0 THEN 0 ELSE written[k].end

(* Where the parser looks for message k: behind the one before, or in front *)
(* of the empty line that ends the trailer section of the one before.       *)
Arrival(written, k) ==
    IF k > 1 /\ written[k - 1].trailers THEN written[k - 1].end - 2 ELSE EndOf(written, k - 1)

(* The framing that a head announces. *)
NoneAnnounced(s, cells, head) ==
    IF s = "Sent"
    THEN NamedIn(cells, head, "transfer-encoding") = {} /\ NamedIn(cells, head, "content-length") = {}
    ELSE head.noBody

LengthAnnounced(s, cells, head) ==
    /\ s = "Received" => ~ head.noBody
    /\ NamedIn(cells, head, "transfer-encoding") = {}
    /\ NamedIn(cells, head, "content-length") # {}

ChunksAnnounced(s, cells, head) ==
    /\ s = "Received" /\ ~ head.noBody
    /\ NamedIn(cells, head, "transfer-encoding") = {<<"chunked">>}

(* The message has the body that is announced. *)
WithoutBody(w, head) == w.end = head.end /\ w.payload = {} /\ ~ w.trailers

WithLength(w, head, text) ==
    /\ text \in DOMAIN LengthValue /\ w.end = head.end + LengthValue[text]
    /\ w.payload = head.end .. w.end - 1 /\ ~ w.trailers

WithChunks(whole, w, head) ==
    LET trailers == w.chunks[Len(w.chunks)].last + 2
    IN  /\ Layout(whole, w.chunks, w.stop) /\ w.chunks[1].at = head.end
        /\ w.payload = DataOfChunks(w.chunks)
        /\ w.trailers <=> trailers < w.stop
        /\ w.end = IF w.trailers THEN w.stop + 4 ELSE w.stop + 2

(* No message has the body that is announced. *)
BadLength(whole, head, text) ==
    text \in DOMAIN LengthValue => head.end + LengthValue[text] > Cardinality(DOMAIN whole)

BadChunks(whole, w, head) == BrokenLayout(whole, w.chunks) /\ w.chunks[1].at = head.end

Framed(s, st, w, head) ==
    /\ NoneAnnounced(s, st.cells, head) => WithoutBody(w, head)
    /\ LengthAnnounced(s, st.cells, head) =>
          \A text \in NamedIn(st.cells, head, "content-length") :
             WithLength(w, head, text) \/ BadLength(st.whole, head, text)
    /\ ChunksAnnounced(s, st.cells, head) =>
          WithChunks(st.whole, w, head) \/ BadChunks(st.whole, w, head)

(* The body is there, lines end with CRLF, the first one is text, a         *)
(* response has a code from 100 and a reason phrase, and JSON is JSON.      *)
Supported(s, st, w, o, head) ==
    /\ \/ NoneAnnounced(s, st.cells, head)
       \/ /\ LengthAnnounced(s, st.cells, head)
          /\ \A text \in NamedIn(st.cells, head, "content-length") : WithLength(w, head, text)
       \/ ChunksAnnounced(s, st.cells, head) /\ WithChunks(st.whole, w, head)
    /\ \A first \in {o} \cup {head.headers[k].end : k \in DOMAIN head.headers} :
          \E i \in first .. head.end : CrLfIn(st.cells, i)
    /\ ~ RawLine(st.cells, o)
    /\ s = "Received" => head.code # {} /\ head.phrase
    /\ w.payload # {} /\ <<"application/json">> \in NamedIn(st.cells, head, "content-type") =>
          IndexRanges(st.cells, w.payload) \in DOMAIN JsonOf

(* The messages follow one another. *)
InOrder(st) ==
    LET written == st.written
    IN  /\ written \in Seq({written[k] : k \in DOMAIN written})
        /\ DOMAIN st.whole = 0 .. EndOf(written, Len(written)) - 1
        /\ st.cells = [i \in DOMAIN st.cells |-> st.whole[i]]
        /\ DOMAIN st.cells \subseteq DOMAIN st.whole
        /\ \A k \in DOMAIN written :
              /\ written[k].end \in Nat
              /\ \A j \in 0 .. k - 1 : EndOf(written, j) < written[k].end
              /\ written[k].payload \subseteq EndOf(written, k - 1) .. written[k].end - 1

(* httparse finds the head of each message as long as it is not cut off,    *)
(* and no head behind the last one.                                         *)
WrittenStream(s, st) ==
    LET written == st.written
        n == Cardinality(DOMAIN st.cells)
    IN  /\ InOrder(st)
        /\ \A k \in DOMAIN written :
              LET o == Arrival(written, k)
              IN  /\ written[k].end <= n => o \in DOMAIN st.heads
                  /\ o \in DOMAIN st.heads => Framed(s, st, written[k], st.heads[o])
                  /\ written[k].end <= n /\ written[k].supported =>
                        Supported(s, st, written[k], o, st.heads[o])
        /\ EndOf(written, Len(written)) # Arrival(written, Len(written) + 1) =>
              Arrival(written, Len(written) + 1) \notin DOMAIN st.heads

ASSUME WrittenAssumption ==
    \A t \in Transcripts : \A s \in DOMAIN t : WrittenStream(s, t[s])

-------------------------------------------------------------------------------
TypeOK ==
    /\ side \in DOMAIN transcript /\ src = transcript[side].cells
    /\ at \in 0 .. SourceLength
    /\ \A s \in DOMAIN parsed : \A k \in DOMAIN parsed[s] :
          parsed[s][k].span \subseteq DOMAIN transcript[s].cells
    /\ phase \in {"Idle", "Chunks", "Ok", "Err", "Panicked"}
    /\ outcome \in {"Reading", "Parsed", "Failed", "Panicked"}
    /\ sums \in {"Checked", "Unchecked", "Wrapped"}

(* How far side s has been consumed. *)
Consumed(s) ==
    CASE s = side -> 0 .. at - 1
      [] s # side /\ s = "Sent" -> DOMAIN transcript["Sent"].cells
      [] OTHER -> {}

(* The spans of the messages tile what the iterators consumed: no byte is   *)
(* skipped, none belongs to two messages, however the bodies are framed.    *)
SpansTile ==
    \A s \in DOMAIN parsed :
        /\ UNION {parsed[s][k].span : k \in DOMAIN parsed[s]} = Consumed(s)
        /\ \A k, l \in DOMAIN parsed[s] :
              k # l => parsed[s][k].span \cap parsed[s][l].span = {}

(* Every header of a stream ends with CRLF in front of the next one and of  *)
(* the end of the head.                                                     *)
CrLfLines(stream) ==
    \A o \in DOMAIN stream.heads :
        LET head == stream.heads[o]
        IN  \A k \in DOMAIN head.headers :
                \E i \in head.headers[k].end .. head.end - 2 :
                    /\ stream.cells[i] = CR /\ stream.cells[i + 1] = LF
                    /\ \A j \in DOMAIN head.headers : k < j => i + 1 < head.headers[j].first

MessageApart(m) ==
    LET header(j) == m.headers[j].span
    IN  /\ m.target \cup m.body \cup m.boundaries \subseteq m.span
        /\ m.body \cap m.boundaries = {} /\ m.target \cap m.boundaries = {}
        /\ m.target \cap m.body = {}
        /\ \A j \in DOMAIN m.headers :
              /\ header(j) \subseteq m.span
              /\ m.headers[j].value \subseteq header(j)
              /\ header(j) \cap (m.target \cup m.body \cup m.boundaries) = {}
              /\ \A i \in DOMAIN m.headers \ {j} : header(i) \cap header(j) = {}

(* Target, headers, body and chunk boundaries of a message are parts of its *)
(* span and share no byte, so a commitment to one reveals no other, unless  *)
(* a sum has wrapped.                                                       *)
PartsApart ==
    sums # "Wrapped" =>
        \A s \in DOMAIN parsed : CrLfLines(transcript[s]) =>
            \A k \in DOMAIN parsed[s] : MessageApart(parsed[s][k])

(* The messages written on side s that are in the stream completely. *)
Whole(s) == {k \in DOMAIN transcript[s].written :
                transcript[s].written[k].end <= Cardinality(DOMAIN transcript[s].cells)}

(* A transcript that is cut inside a message is never parsed successfully,  *)
(* and a successful parse finds exactly the messages that were written,     *)
(* each with its own payload as body: a cut chunk, head, body or trailer is *)
(* never taken for the end.  A length beyond MaxUsize wraps to less, in a   *)
(* build that does not check arithmetic.                                    *)
OnlyWholeMessages ==
    phase = "Ok" /\ sums # "Wrapped" => \A s \in DOMAIN parsed :
        /\ DOMAIN parsed[s] = Whole(s)
        /\ \A k \in Whole(s) : parsed[s][k].body = transcript[s].written[k].payload
        /\ Cardinality(DOMAIN transcript[s].cells)
              \in {0} \cup {transcript[s].written[k].end : k \in Whole(s)}

(* No trailer section, a framing the parser supports, and nothing cut off. *)
WellFormed(s) ==
    /\ Whole(s) = DOMAIN transcript[s].written
    /\ \A k \in DOMAIN transcript[s].written :
          transcript[s].written[k].supported /\ ~ transcript[s].written[k].trailers

(* Streams of well-formed messages, pipelined in any number and order, are  *)
(* parsed to the end.  What is supported is narrower than HTTP: a response  *)
(* without a reason phrase, say, makes the parser panic (span.rs:164).      *)
WellFormedParses ==
    (\A s \in DOMAIN transcript : WellFormed(s)) => phase \notin {"Err", "Panicked"}

(* without_data of a message reveals no payload byte and no header byte of  *)
(* any message on its side, provided that header lines end with CRLF and no *)
(* sum has wrapped.                                                         *)
WithoutDataHides ==
    sums # "Wrapped" =>
        \A s \in DOMAIN parsed : CrLfLines(transcript[s]) => \A k \in DOMAIN parsed[s] :
            /\ \A w \in DOMAIN transcript[s].written :
                  WithoutData(parsed[s][k]) \cap transcript[s].written[w].payload = {}
            /\ \A l \in DOMAIN parsed[s] : \A j \in DOMAIN parsed[s][l].headers :
                  WithoutData(parsed[s][k]) \cap parsed[s][l].headers[j].span = {}

(* A number that is too large: a chunk size or a Content-Length. *)
AtOverflow ==
    \/ phase = "Chunks" /\ Overflowing
    \/ phase = "Idle" /\ \E head \in HeadHere : TooLong(head) # {}

(* parse returns on every transcript, whatever it holds, unless a build     *)
(* that does not check arithmetic comes to a number that is too large again *)
(* and again.                                                               *)
Returns ==
    <>(phase \in {"Ok", "Err", "Panicked"}) \/ []<>(sums = "Wrapped" /\ AtOverflow)

(* mod.rs: "An iterator yielding parsed HTTP responses."  Also a response   *)
(* with trailer headers is yielded, and then the iterator goes on behind it *)
(* or is at its end.                                                        *)
TrailersParse ==
    (\A s \in DOMAIN transcript :
        /\ Whole(s) = DOMAIN transcript[s].written
        /\ \A k \in DOMAIN transcript[s].written : transcript[s].written[k].supported)
    => phase \notin {"Err", "Panicked"}

(* lib.rs: the indices of a span are "The set of indices within the source  *)
(* data."  The indices of a JSON body are positions of that body.           *)
JsonIndicesInBody ==
    \A s \in DOMAIN parsed : \A k \in DOMAIN parsed[s] :
        \A n \in DOMAIN parsed[s][k].json : parsed[s][k].json[n].span \subseteq parsed[s][k].body
===============================================================================
