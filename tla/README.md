# Verification of web-transcript-parser

TLA+ modules, TLC runs and TLAPS proofs kept beside the Rust workspace of
`spanner` (a parser whose values remember where in the source they lie) and
`context` (transcripts of HTTP over TLS that are authenticated in part, and the
commitments by which parts are disclosed later).

The workspace is a sequential library. It starts no thread, keeps nothing on
disk and opens no connection. What is hard in it is not interleaving but

- *index arithmetic*: every later step (commitment, disclosure, merging) trusts
  the sets of positions the parser computed, and a set that is one byte wrong
  is only noticed by whoever verifies the disclosure;
- *sequences of legal calls*: a partial transcript is merged, filled, sent and
  merged again, and must stay sound whatever the order;
- *failing half way*: panics and `?` in the middle of a loop leave behind what
  was done before.

The models therefore follow control and positions exactly, and treat bytes as
a handful of distinguishable values.

## 1. Inventory

Paths are below `src/crates/`.

| Component | Source | State and operations | What is hard | What makes it correct |
|---|---|---|---|---|
| PartialTranscript | `context/src/transcript/transcript.rs` | two buffers and two index sets; `new`, `to_partial`, `union_transcript`, `union_subsequence`, `set_unauthed`, `set_unauthed_range`, compression to a wire format and back | order of merges, panics in the middle of one, a wire that delivers late or twice | authenticated bytes are the transcript's, hidden bytes are not there, complete means complete |
| HTTP framing | `spanner/src/http/span.rs`, `http/mod.rs`, `context/src/http/transcript.rs` | `pos` of the iterators `Requests` and `Responses`; one message per `next()`, a loop over the chunks of a chunked body; `HttpTranscript::parse` collects both sides | chunk loop, where a message ends, cut transcripts | spans tile the input, kinds of bytes stay apart, no cut message is taken for whole |
| HTTP values | `spanner/src/http/types.rs` | messages as sets of positions; `without_data`, `without_value`, `headers_with_name`, `offset` | set differences at boundaries | what they say they leave out is left out |
| JSON committer | `context/src/json/commit.rs`, `spanner/src/json/types.rs` | recursion over a value, each step a call of the commitment builder that may fail; `commit_value`, `commit_structure` | which ranges, nesting, failing half way | the structure can be opened without the values, any selection of values can stay hidden |
| HTTP committer | `context/src/http/commit.rs` | walk over a transcript that ends in the JSON committer; `commit_transcript`, `commit_request`, `commit_response`, `commit_structure` | header rules that differ for requests and responses, optional parts | as above, for headers, targets and bodies |
| Commitment builder | `context/src/transcript/commit.rs` | a trait: `commit` takes a range and accepts or refuses it | it may refuse at any call | external; modelled as a set of accepted ranges |
| JSON enforcer | `context/src/json/enforce.rs` | a recursion over two values that panics | repeated keys, lengths | accepted means that disclosed parts agree |
| JSON paths | `spanner/src/json/types.rs` | `get`, `get_keyvalue` | repeated keys | finds what the enforcer compared |
| Spans | `spanner/src/lib.rs`, `helpers.rs` | a set of positions and a copy of the bytes; `offset`, views, comparisons | shifting nested spans | positions name the bytes they hold |
| JSON parser | `spanner/src/json/span.rs`, `mod.rs`, `json.pest` | grammar run by `pest` | (generated) | values nest |
| JSON visitor | `spanner/src/json/visit.rs` | a traversal with empty defaults; a visitor overrides what it wants to see | order, containers | every key and literal is shown once, in the order of the source |
| JSON context | `context/src/json/context.rs` | a conversion of a JSON value to a `serde_json` value | repeated keys, numbers that do not fit | a path leads to the same literal in both |
| HTTP context | `context/src/http/context.rs`, `http/transcript.rs` | `parse_partial` of a partial transcript whose gaps are filled with `*`; conversion of what it finds to serialisable values | framing of hidden parts, repeated header names | the verifier finds the prover's messages and is told nothing else |
| HTTP enforcer, TLS connection data | `context/src/http/enforce.rs`, `tls/connection.rs` | | | commented out (`//pub mod enforce;` in `http/mod.rs:5`, `//pub mod tls;` in `lib.rs:3`): not in the build |

How they interact: `HttpTranscript::parse` runs HTTP framing over the two sides
of a `Transcript`; framing hands bodies to the JSON parser and shifts the spans
it gets back. The HTTP committer walks the parsed transcript, hands JSON bodies
to the JSON committer, and both hand sets of positions to the builder. The
positions chosen for disclosure become a `PartialTranscript`
(`Transcript::to_partial`), which travels to the other party, is merged with
other parts, has its gaps filled by `set_unauthed`, and is parsed again by
`HttpTranscript::parse_partial` for the contexts and enforcers. Everything is a
direct call; the only shared state is the builder, which is `&mut`.

The hazards, each at its line and with the properties that would notice it, are
listed in `PROJECT.json`.

## 2. Modules

```
RangeSets            operators on sets of positions
PartialTranscript    EXTENDS RangeSets     implements Disclosure
Disclosure           abstract: which positions are disclosed
ChunkLoop            one iteration of chunked_body_ranges
ChunkedBody          EXTENDS ChunkLoop     the loop alone, on any source
HttpTypes            operators on headers and messages
HttpMessages         EXTENDS ChunkLoop, HttpTypes    HttpTranscript::parse
JsonCommitter        the committer as an agenda of calls
JsonCommit           EXTENDS JsonCommitter           a caller of it
HttpCommitter        EXTENDS JsonCommitter, HttpTypes
HttpCaller           EXTENDS HttpCommitter           one call after the other
HttpCommit           EXTENDS HttpCaller              any calls on any messages
JsonEnforce          the enforcer as an agenda of visits, and get step by step
JsonContext          what a verifier is told of a JSON value
JsonValues           EXTENDS JsonContext   offset, visitor, get, get_keyvalue
SelectiveDisclosure  EXTENDS HttpMessages, HttpCaller, JsonContext
                     all parts together, with the calls of a prover
JsonDocuments        lays out small JSON documents as the parser does, for TLC
HttpStreams          lays out small streams of HTTP messages, for TLC
*_proofs             theorems about the module they are named for; those about
                     SelectiveDisclosure are in HttpCommit_proofs
MC*                  instances for TLC
```

Three conventions recur.

- *A span is the set of its positions*, as `RangeSet<usize>` is. A transcript's
  byte has one position, so unions, differences and membership mean in the
  model what they mean in the code; the copied data of a span is left out.
- *Recursion is an agenda.* The committers and the enforcer recurse over a
  value and fail with `?` or a panic. In the models the calls still to be made
  are a sequence; a call replaces itself by the calls it makes, in order, and a
  failure empties the sequence. Each call of the builder is a step, so every
  prefix of the work is a state and every failure half way is reached.
- *A caller is an action* that starts any operation on any value at any time
  there is no operation under way, up to a bound on the number of calls.

### PartialTranscript

`slots` holds the partial transcripts of the calling program, `wire` the last
serialised one. `New`, `CreatePartial`, `UnionTranscript`, `UnionSubsequence`,
`SetAllUnauthed`, `SetUnauthedRange`, `Serialize` and `Deserialize` are the public
operations. `UnionSubsequencePanics` is the panic of
`Subsequence::copy_to` (line 485) after some ranges have been written: the
buffers change and the index does not. A delivery from the wire may come late,
repeatedly, and with its totals or its data damaged; `Valid` is the
validation that stands between. `sources`, `wireSources` and `raw` are
auxiliary: which transcripts a slot's bytes may come from, and which slots may
hold bytes outside their index that are no filler (made by `new`, or left so by
a panic).

`new` keeps the data it is given (its doc comment says that it initialises to
zeroes); a slot made by it is `raw` until it is filled. It is called with an
index inside its buffers. The code compares neither;
an index outside is taken for the caller's mistake, and listed as a hazard.

`Disclosure` is what the component promises: a view is a pair of index sets and
the bytes at them; a holder starts over with a part of a transcript, learns more
of one (what it learns replaces what it knew), merges what another holder knows
(its own bytes stay), and sends and receives; filling bytes without
authentication is invisible. `Abstract` in
`PartialTranscript` is its instance, with `View` of each slot for what is known.

### HTTP framing

`ChunkLoop` is one iteration of `chunked_body_ranges`, with its panics: the
slice behind the end of the source, the addition that overflows in a build that
checks (`ChunkOverflows`; in others it wraps, `ChunkWraps`), the missing line
break behind the last size. `ChunkedBody` starts the loop anywhere in any source.
`HttpMessages` runs it inside `parse_response_from_bytes`; every other `next()`
of the iterators is one step. A cell of a source stands for a byte. The crate
`httparse` is external: a stream says at which offsets a head is found, with
its headers and their values (also at the empty lines in front of it, which
`httparse` skips), and the code's work starts there (line breaks
behind a header, framing headers by name, the order of the checks, the span of
the message). JSON text is external too: `JsonOf` gives the values of each text
that is JSON.

Beside its cells a stream has the messages as they were written: where each
ends, its payload, the layout of a chunked body, and whether it is written as
the parser supports it. The parser never looks at them; the properties compare
with them. `WrittenStream` says what "written" means (`WrittenAssumption`, which
TLC evaluates on the streams of the run): the messages follow one another, the
stream is the beginning of them all, `httparse` finds the head of each, and
behind the head comes the body that is announced (`WithLength`, `WithChunks`), or
bytes that can be no such body (`BadLength`, `BadChunks`).

`httparse` also takes a single LF for the end of a line, where `from_header` and
the request line look for CRLF. Streams with such lines are among the inputs:
without any CRLF further on the `expect` panics (`LineBreakMissing`), otherwise the
span of the header runs up to the next CRLF, wherever it is. `PartsApart` and
`WithoutDataHides` are therefore stated for streams whose header lines end with
CRLF (`CrLfLines`); the other properties hold for all of them.

Three kinds of responses that `httparse` takes make the parser panic
(`SpanPanics`; `span.rs:154-164`): those with a status code below 100, whose digits
`code.to_string()` does not give as they are written; those whose status line is no
UTF-8 (`RawLine`, which requests have as well); and those without a reason phrase, or
with one that is not ASCII, for which `httparse` gives an empty text of its own that
`Span::new_from_str` does not find in the source. A stream says of each head whether
its code and its phrase are found (`code`, `phrase`), and which cells are no text is
the constant `NotText`. All of these are among the streams of the run. What the
parser supports (`Supported`) is therefore narrower than HTTP: lines that end with
CRLF, a first line of text, for a response a code from 100 and a reason phrase in
ASCII, a framing it knows, and JSON that parses where JSON is announced.
`WellFormedParses` says of such messages that they are never refused.

`usize` is bounded by `MaxUsize`. What happens beyond depends on the build: one
that checks arithmetic, as tests are built, panics; one that does not, as releases
are built unless told otherwise (the workspace sets no `overflow-checks`), wraps.
Both are modelled. `sums` is the build, and becomes `"Wrapped"` once a sum has
wrapped in it. What this means for the code:

- A chunk size may lead the loop back to an earlier position, and to its own size line:
  `FFFFFFFFFFFFFFEC` moves `pos` by 18 and then by -18 (`span.rs:331`, `349`). Such a
  build then **reads the same line for ever**, while its vectors grow. `Terminates`
  and `Returns` say that it is the only way not to end.
- Chunk data and boundaries may overlap, and a boundary may end behind the source,
  which panics (`BoundaryPanics`).
- A Content-Length that is too large (`span.rs:82`, `292`) gives an end in front of the
  body: the response has no body then, and the span of the request ends in its
  head (`LengthWraps`, `WrappedBody`; the request gets a body without bytes, which is
  not told from none), unless the body should be JSON, which is an error, or the
  end lies in front of the request itself, which panics.

`Apart`, `ParsedInside`, `PartsApart`, `OnlyWholeMessages`, `WithoutDataHides` and
`DisclosedExactly` are stated as long as no sum has wrapped; `RoundTrip`,
`SpansTile` and `WellFormedParses` hold in either build.

`from_str_radix` also accepts a leading `+`, which the model does not.

### JSON committer

`doc` maps the values of a document to kind, span, elements and, for a value of a key-value
pair, the span of the pair. The operators are the methods of
`json/types.rs`: `WithoutPairs`, `WithoutValue`, `WithoutValues` (the two brackets: a
union of the first range and the last position), `Separators`. `ValueCalls` and
`StructureCalls` list the calls that `commit_value` and `commit_structure` make
for a value of each kind. `BuilderCommits` accepts or refuses.

That documents are `WellNested` (elements in their array, pairs in their
object, primitive values apart) is an assumption about the JSON parser, made by
`JsonCommit`, `HttpCommit` (`ParsesAssumption`) and `SelectiveDisclosure`
(`JsonAssumption`) and satisfied by the layouts of `JsonDocuments`.

### HTTP committer

`http[d]` are the messages of a direction: span, target, headers with span and
value, body, chunk boundaries and the JSON value of the body; the parser never
fills `Response::trailers`, so nothing is committed for them. The
body is the empty set when there is none, and `json`, which names the values of
the body, is empty when the content is unknown. The calls end in calls of
`JsonCommitter`, whose step is part of `HttpStep`. `HttpCaller` calls the committer
with one builder, on messages that are `WellParsed`: parts and messages apart,
values nested in their body.

### JSON values: offset, visitor, paths, context

`JsonValues` is a program that holds one parsed value. `CallOffset` starts
`JsonValue::offset`, which is an agenda of shifts of values, pairs and keys and
panics where an index would exceed `MaxUsize`; `CallVisitor` starts the traversal
of `visit.rs` with a visitor that is shown every key and literal. What is assumed
of a parsed value (`ValuesAssumption`) is what the grammar gives it: it is a
tree (`IsTree`), and elements lie inside of what they are in, in their order,
pairs with the key in front of the value (`LaidOutInOrder`). `Get` and
`GetKeyValue` fold a path over the value. `ContextOf`, in `JsonContext`, is what
`context.rs` makes of it, level by level from the leaves: repeated keys collapse
to the last, numbers become `i64`, `f64`, 0 or their digits.

### SelectiveDisclosure

The whole way of one transcript. The prover parses it with `HttpMessages`
(`Parse`), commits to its structure and then to its values with `HttpCommitter`
(`TakeParsed`, `CommitToStructure`, `CommitterStep`, `CommitToValues`), and chooses any set of
header values and JSON values to hide (`Choose`): every commitment to the structure is
opened, and every other one that spares what is hidden. `ParsePartial` fills
what is not authenticated with `*` and starts the same parser again; a head is
found where all of it that `httparse` reads is authenticated. `BuildContext` is
`HttpContext`. Three properties tie both ends together: `DisclosedExactly`,
`FramingAgrees`, `ContextTrue`.

`DisclosedExactly` is stated where all is `Regular`: header lines end with
CRLF, a JSON body is in one piece, and no sum has wrapped. Elsewhere the parts of a parsed message are
not where they should be (the bare LF and the wrapped sums above, and `http_chunked_json`), so a
commitment may spare the span of a value and not its bytes.

The doc of `parse_partial` (`http/transcript.rs:45-49`) speaks of null bytes; the
code fills with `*`, and so does the model.

### JSON enforcer

`structure` and `value` are compared by an agenda of visits. A visit that looks
up a missing key, an index behind the end or a different literal panics. Texts are compared
as the code does, by the text of the span. After a value was accepted a caller
follows a path in the structure and in the value: `Get` is one step of it, by a
key or an index, and `read` is where the path has led to in either. Paths are
as long as the structure is deep. `Disclosures` is a relation of structures with the
values of which they disclose a part; all that is asked of it is that it holds
of the parts of what it holds of (`DisclosuresAssumption`). The run takes the
largest one.

## 3. Runs

| Run | Properties | Shows |
|---|---|---|
| `partial_transcript` | `TypeOK AuthedSound NoLeak CompleteIsTranscript MergeCommutes ImplementsDisclosure` | two slots, three sessions of which one has other lengths, so that a merge panics half way; up to four calls in any order; every step is one of `Disclosure` or invisible |
| `chunked_body` | `TypeOK Apart ParsedInside RoundTrip Terminates` | all sources of up to four pieces (lines, sizes, data), all written bodies of up to two chunks with and without trailers, in either build |
| `http_messages` | `TypeOK SpansTile PartsApart OnlyWholeMessages WellFormedParses WithoutDataHides Returns` | streams of one or two messages of 13 request and 23 response kinds, cut at every position, in a build that panics on overflow and in one that wraps |
| `json_commit` | `TypeOK StructureHides StaysInside StructureOpens SelectionOpens RedactedFails` | two calls on any values of 34 documents |
| `http_commit` | `StructureHides OneMessage StructureOpens SelectionOpens` | two calls on 11 transcripts: every list of requests with one response, every list of responses with one request |
| `json_enforce` | `TypeOK AcceptedAgrees DisclosureAccepted` | all pairs of 78 values, and every path in the structure |
| `json_values` | `NamesSource VisitsInOrder PathsAgree` | three calls of offset or a visitor on 102 values, with offsets that overflow |
| `selective_disclosure` | `DisclosedExactly FramingAgrees ContextTrue` | 22 transcripts with every kind of body, every choice of parts to hide |

Four more runs show where the code and what is written about it part:

| Run | Property | Shows |
|---|---|---|
| `http_trailers` | `TrailersParse` | the span of a chunked response with trailers ends in front of its last line break, and the iterator fails if the stream ends there |
| `http_chunked_json` | `JsonIndicesInBody` | spans of a JSON body in several chunks are shifted by the first chunk only |
| `http_target` | `TargetApart` | a request that is only its request line is not committed without its target |
| `json_same_number` | `SameNumber` | the enforcer accepts arrays longer than the structure's |

Two smaller observations have no run of their own. A JSON body is committed as
its JSON value (`http/commit.rs:252`), so what follows the value in the body, and
the quotes of a string that is the whole body, are only in the commitment to the message;
`DisclosedExactly` allows for the former, and bodies that are a single string are
not among its transcripts. And a hidden string keeps its quotes, so the verifier
reads a string of stars and not a redacted value.

### Bounds, and why they are enough

- *PartialTranscript.* A merge looks at positions one by one and at no more
  than two partial transcripts. Two positions on one side give every
  relation of two index sets (apart, overlapping, equal, one in the other); the
  sessions with a byte on either side tell the sides apart, and the third
  session, of other lengths, makes a merge fail half way. Four calls reach
  `create, create, fill, merge` and `create, serialise, deserialise, merge`; the
  proofs cover every number of calls. The two slots are symmetric; no liveness is checked there.
- *Chunk loop.* Four pieces are a size line, data, and the last chunk with
  what follows; pieces include sizes that are too large, lines without a size
  and lines without an end. Two chunks are needed for a chunk that is neither
  first nor last to have a neighbour; sizes 1, 3 and 15, of which only the first
  two can be met, and 31 (`1F`, two pieces), which overflows `MaxUsize` = 36 everywhere and leads
  back to its own line, or behind a leading zero of it. Ways back to other chunks are among the
  streams of `http_messages`.
- *Messages.* An iterator only carries `pos` from one message to the next, so
  two messages show every displacement; each kind occurs first and second, and
  cut at each position. `MaxUsize` = 200 is far above the positions and exceeded only
  by the numbers that are meant to: chunk sizes that lead back to their own line
  (`SameChunk`), into the chunk before (`BackChunk`) and in front of the message
  (`HugeChunk`), and lengths that end in the head or in front of it. No length ends
  exactly where its request begins, and no chunk leads back to a trailer section in front of its
  response: such messages are yielded again and again without bytes, so that `parsed` has
  no bound. `Returns` allows for them, and the proofs include them.
- *Committers.* A commitment depends on a value, its parent and its siblings.
  Documents have containers of zero, one and two elements, and nest three levels
  deep. Two calls are enough for one to commit what the other must hide, and
  for one that failed to be followed by another.
- *Enforcer and JSON values.* Two elements are enough for two equal keys, a swapped order, one
  too few and one too many; nested values for a difference below. Three calls
  of `offset` let a call follow one that shifted and one that panicked.
- *SelectiveDisclosure.* Every hidden part is chosen independently, so a
  transcript has as many choices as its parts have subsets; two messages on
  one side and one on the other are enough for a wrong span to displace a
  neighbour. JSON bodies in several chunks are left out, because their indices
  are wrong already (`http_chunked_json`).

`None` and the slots are model values; `MaxCalls`, `MaxLength`, `MaxPieces` and
`MaxUsize` are the only bounds, all of them constants.

### Deadlock and fairness

All configurations turn deadlock checking off: a caller may stop calling, and a
parse or a disclosure that is over does nothing more.

`FairSpec`, in `ChunkedBody` and `HttpMessages`, asks for weak fairness of the
steps of a call that has started. The library is sequential and blocks on
nothing, so once a function is called it goes on. Under it `Terminates` and
`Returns` say that the chunk loop ends and that `HttpTranscript::parse` returns,
which is a real question where a loop moves a position by what it has read; the
answer is no in a build where sums wrap, and the properties name the one
exception. The committers and the enforcer recurse over a finite value, which ends by
construction: that is not a property here. The other modules have no liveness
property and no fairness.

## 4. Proofs

`tlapm` checks all of them, for every value of the constants that the named
assumptions allow.

**`PartialTranscript_proofs`**: `TypeCorrect`, `AuthedIsTranscript`,
`UnauthedIsBlank`, `CompleteMeansTranscript`, `MergeOrder` and `Refinement`.
No single invariant is inductive: that authenticated bytes stay sound over a
trip on the wire needs the same of the wire, so the invariant is
`IInv == TypeOK /\ AuthedSound /\ WireSound /\ NoLeak`, with `WireSound` (the wire's bytes, by rank,
are those of its sources) as the strengthening. Serialisation packs the
disclosed bytes by rank, and that unpacking restores each to its position is the
lemma on `Rank`, from the library's facts on cardinality.
`MergeOrder` and `CompleteMeansTranscript` follow from it.
`Refinement` shows that initial states map to initial states and each action to
a step of `Disclosure` or to a stutter. Assumptions: `0` is a byte, transcripts
are pairs of buffers of at most `MaxLength`, `None` is nothing else.

**`ChunkedBody_proofs`**: `TypeCorrect`, `RangesApart`, `RangesInside` and `WrittenIsRead`, for
sources of any length and content. `RangesInside` is the interesting one: the
loop records positions before it compares them with the end of the source, so
they are *not* always inside; the invariant is
`TypeOK /\ Apart /\ ParsedInside /\ NoTrailerYet /\ Forward`. `Apart` includes that every
recorded position lies before `pos`, so the line break that the last iteration
finds in the source puts all of them inside; `Forward` says that, unless a sum has wrapped, the loop is not
in front of where it started; `NoTrailerYet` that trailers
are only recorded by the iteration that ends the loop. `WrittenIsRead` is
`RoundTrip` for bodies of any number of chunks of any size. `BodiesAssumption` says
what a writer does (`Layout`, in `ChunkLoop`): each chunk has a size line, that many cells and a
line break; only the last is empty; an empty line ends the trailers. The
invariant `Follows` says that the loop stands at a chunk of the written
body and has recorded those before it. The step needs that the line break that
the loop finds is the one that was written (`LineRead`): the digits before it
hold none. None of this needs to know what the loop does after a sum has wrapped:
`Apart` and `ParsedInside` say nothing of it, and `Follows` excludes it, because a written
chunk lies in the source and the source is no longer than `MaxUsize`.

**`HttpMessages_proofs`**: `TypeCorrect`, `MessagesTile` and `MessagePartsApart`,
for streams of any length with any number of messages. What is assumed is that
`httparse` finds the parts of a head inside it and in order
(`TranscriptsAssumption`) and that lengths are of type `usize`
(`LengthAssumption`). The invariant `IInv` adds to the three properties that the
lists of messages are sequences (`ParsedLists`) and, while a chunked body is
read, what the loop knows of its sets of positions (`ChunksOK`: they lie behind
the head, apart, before `pos`). It is needed because the iterator moves by the
*size* of the span that it yields: that the span has no gap, and so ends where
the next message starts, follows from where the loop ended.

`OnlyWholeMessagesParsed`, `WellFormedAreParsed` and `WithoutDataReveals` compare
with the messages as they were written (`WrittenAssumption`). Their invariant is
`Tracks`: the iterator has collected the first `k` written messages, each with its
payload, and is where the next one is looked for (`Position`); in a chunked
body the loop stands at one of the written chunks (`AtChunk`), has read them all
(`LoopDone`), or is `Lost`, which only happens in a message that is cut or
framed wrongly. `Lost` is the interesting part. A size line that is cut can
be read as a smaller size, so the loop may read on with a wrong size; but then
the line was the rest of the source, and the loop is behind the end of the
source and will panic (`CutLine`). After a trailer section the iterator
is two positions in front of the next message; that no head is found there at the end of
a stream, and that it is found in front of another message, is `httparse` skipping
empty lines, and part of `WrittenStream`. `OnlyWholeMessages` follows at the
end of both sides (`AtEnd`, `CollectedIsWhole`). For `WithoutDataHides` a payload is
either the body of a parsed message, whose parts and span are apart from the
others by `PartsApart` and `SpansTile`, or behind all that was consumed; a header
of any parsed message is a part of that message.

All three hold for both builds, so the proofs follow a wrapped sum as far as
needed. The sets of a loop in which one has wrapped are only bounded (`LoopBounds`),
which keeps `TypeOK` and `SpansTile`. A sum that has wrapped stays wrapped (`SumsGoOn`), so
what is stated for no wrap is kept for nothing by every step after one.
`Tracks` is needed as long as no sum has wrapped; and one only wraps at a number that
is no length of a supported message (`NoLengthWraps`, `NoChunkWraps`), so where all
messages are well-formed none ever does (`Tracked`). That is what `WellFormedParses`
rests on: it is stated without a condition.

**`JsonCommit_proofs`**: `TypeCorrect`, `CallsStayInside`,
`StructureSaysNothing`, `StructureCanBeOpened`, `SelectionCanBeOpened` and
`NoRedactedValueIsCommitted`, for documents of any size and depth that are well
nested. The committer's recursion is its agenda, so each invariant speaks of the
calls that are still to be made as well as of what was committed: `InsideInv`
(every pending call is on a value inside the one called on), `HidesInv`
(pending structure calls hold no primitive byte), `OpensInv` (what a returned
call must have provided is committed or still pending: `Provided`, `Underway`,
`Finished`), `RedactedInv` (a redacted value below the one called on is still
`Pursued` or the call has failed). No induction on documents is needed: the
agenda carries it.

**`HttpCommit_proofs`**: `CommitmentsKeepApart` and `StructureSaysNothing`, for
transcripts with any number of messages, headers and values that are `WellParsed`
(`ParsesAssumption`). The invariant `AskedInv` gives each call on the agenda and
each commitment a message that it is about (`About`): after that message was to be
committed, any call about its parts; before, only those of `commit_structure`,
whose positions are outside of `LeftOut`. A call makes calls that belong to the
same message, and what was asked for stays so (`AllowedGrows`). What the JSON
committer does with the values of one body comes from `JsonCommitter_proofs`, whose
lemmas (`StructureParts`, `ExpandsWithin`, `StructureExpandsWithin`, `ExpandsCarries`)
are about a set of values that is closed under elements, and do not mention a caller.

`StructureCanBeOpened` and `SelectionCanBeOpened` are proved there as well, for
the same transcripts. The invariant `OpensInv` is the one of `JsonCommit_proofs`
one layer up: every byte that the call under way owes, for every set that it
lets stay hidden (`Hides`), is openable already or is promised by a call on the
agenda (`Promises`). The step is `PromiseKept`: of the calls that a call makes, one
keeps its promise. It rests on `HiddenParts` (a hidden set holds each target,
header value and JSON value or nothing of it, and nothing else) and, for
`commit_structure`, on `LeftOutHidden`: the first header of a framing name is
committed in full, so that its value is not left out.

`OnlyChosenHidden` is `DisclosedExactly` of `SelectiveDisclosure`, for transcripts of
any number of messages with any bodies and for any choice of what to hide, and the one
theorem that crosses components. It has three parts.

- What the parser yields is what the committers take: `TakenIsWellParsed` derives
  `WellParsed`, which `HttpCommit` assumes, from the invariant of `HttpMessages_proofs`
  (`IInv`, and `Built`: what each parsed message owes to its head). Spans that are apart and
  tile the stream are apart as committed parts; the values of a body are those that
  `JsonOf` gives for its text, shifted by where the body starts, and shifting keeps
  them nested (`RenamedNested`) and inside a body that is in one piece (`ValuesInPiece`).
  Assumed of the JSON parser is that values are nested, inside their text (`JsonAssumption`).
- From then on `OpensInv` holds as it does in `HttpCommit`: its lemmas are about
  `CallCommitter`, `HttpStep` and `Return`, whoever calls. When `commit_structure`
  has returned and nothing else was called, its commitments reach all bytes
  but those left out, and none of the latter (`StructureCommitted`); these
  commitments are always opened.
- `ChoiceDiscloses`: a byte that is opened is not hidden, since a byte that is hidden and
  not needed by the parser is left out (`NeededOrLeftOut`) and no commitment to the
  structure reaches it. A byte that is not hidden is either not left out, and
  opened with the structure, or in a commitment of `commit_transcript` that spares the
  hidden parts *of its message*; that it spares those of all other messages as well
  is `CommitmentsKeepApart`. A message with a body has headers (`Built`), so
  the exception of `SelectionOpens` does not arise.

The invariant is `DisclosureInv`.

**`JsonEnforce_proofs`**: `TypeCorrect`, `DisclosedPartsAgree` and
`DisclosuresAreAccepted`, for values of any size and depth, paths of any length,
and any relation that is a disclosure. There is no induction over values. For the
first, `ExploredInv` says that there is a set of visits that were made, each
of which has ended well or made visits that are in the set or pending
(`Passes`). When the agenda is empty that set is closed, and a path that
starts in it cannot leave it, since `get` and the enforcer find the same
element (`ExploredByGet`). For the second, `DisclosedInv` says that all
pending visits compare a part of a disclosure with what it discloses.

**`JsonValues_proofs`**: `OffsetMovesEveryPart`, `VisitorSeesAllInOrder` and
`ContextFollowsPaths`, for values of any size and depth that are laid out in order.
`offset` and the visitor are agendas of calls on values, pairs and keys
(`CallsOf`), and one argument serves both.
`Work` says which calls have been made: each call made was made by another one
that was, what it makes was made or is on the agenda, and nothing is on it
twice or again. It is kept (`WorkStep`) because no two calls make the same
one (`MadeOnce`), which is the tree; and when the agenda is empty nothing was left
out (`WorkDone`), because the first node left out would be an element of an
earlier one. This replaces the induction over the value. For `NamesSource`,
`Moved` says that the parts whose call was made are shifted and all others are
not, and `Room` that a panic can only come first, at the value itself, since every
other part lies inside of it (`InsideRoot`). For `VisitsInOrder`, `InOrder` says that what
was shown lies in front of all that is to do, which is itself in order; the count
at the end is the cardinality of the calls that show something (`AllShown`).
The invariant of both is `IInv`. Assumed are `ValuesAssumption` and that
offsets and `usize::MAX` are natural numbers (`NumbersAssumption`).

`ContextFollowsPaths` (`PathsAgree`) compares three readings of a value, which are
recursive functions over the path (`Get`, `Told`) and over the nodes (`ContextOf`).
That the recursion over nodes defines anything is `ContextsExist`: an
element lies behind what it is in, so the last node without a context is one whose
elements all have theirs. A path is walked by both readings
(`WalksMeet`): where `get` is at a node, the context is at that node's context, and one is
nowhere exactly when the other is; the first step where they part would be a step at
which they agreed (`StepAgrees`), because without repeated keys the
first pair of a key is the last (`OnePlace`). `PathsAssumption` says that paths are sequences,
`IntegerAssumption` that no `i64` is written with a point.

Only model-checked are: liveness (`Terminates`, `Returns`); and
`FramingAgrees` and `ContextTrue`, which compare two runs of the parser and would need
the trace of the first one, chunk by chunk, and assumptions about what `httparse` and
`pest` make of a text with stars in it.
`JsonDocuments` is recursive and is used by TLC's instances only.

## 5. Not modelled, and why

- Splitting a path at its dots, and serialising a context: formatting.
- Conversions, views and comparisons of spans, and `Subsequence` outside of
  `union_subsequence` and the wire format: they change no state.
- `build` and `contains` of the commitment builder: the trait has no
  implementation in the repository.
- `Body::offset`, `Response::offset`: no code of the crates calls them; what
  they leave unmoved is listed as a hazard.
- The grammar (`pest`), `httparse`, `rangeset`, `serde_json` and the builder:
  external, and modelled from their use.
- Lengths beyond 32 bits in `Transcript` ids: out of reach of TLC.
- The HTTP enforcer and the TLS data: their modules are commented out, so they
  are not part of the build.

## 6. Plan

The order was: the most important behaviour first (PartialTranscript with
its refinement and proofs), then the chunk loop and HTTP framing, the JSON and
the HTTP committer, the enforcer, and last what composes them
(`SelectiveDisclosure`) with the contexts. All components that are part of the build are
modelled. What is left are theorems about the verifier's side of `SelectiveDisclosure`
(`FramingAgrees`, `ContextTrue`).
