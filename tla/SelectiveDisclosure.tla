-------------------------- MODULE SelectiveDisclosure --------------------------
(***************************************************************************)
(* The way of a transcript from the prover to the verifier, through all the *)
(* parts.  The prover parses it (HttpMessages), commits to its structure    *)
(* and then to its values (HttpCommitter), chooses parts that stay hidden,  *)
(* and opens the commitments to the structure and those that spare the      *)
(* hidden parts.  The verifier replaces all other bytes by "*", parses      *)
(* again (HttpTranscript::parse_partial), and builds an HttpContext         *)
(* (context/src/http/context.rs), which is what the verifier is told.       *)
(***************************************************************************)
EXTENDS HttpMessages, HttpCaller, JsonContext

VARIABLES
    stage,         \* what is done with the transcript
    required,      \* the commitments to the structure
    original,      \* the streams of the prover, and what they were parsed to
    hidden,        \* hidden[d]: the parts the prover chose to hide
    opened,        \* opened[d]: the positions that are authenticated
    report         \* report[d]: what HttpContext says of each message

disclosureVars == <<vars, callVars, stage, required, original, hidden, opened, report>>

OnBoth(x) == [d \in Direction |-> x]

(* What the code relies on: parse_json finds the values of a text nested in *)
(* one another, inside the text.                                            *)
ASSUME JsonAssumption ==
    \A text \in DOMAIN JsonOf :
        LET values == JsonOf[text]
        IN  /\ values \in Seq({values[n] : n \in DOMAIN values})
            /\ WellNested(values)
            /\ \A n \in DOMAIN values :
                  /\ {"kind", "span", "pair", "elems"} \subseteq DOMAIN values[n]
                  /\ values[n].span \cup values[n].pair \subseteq 0 .. Len(text) - 1

-------------------------------------------------------------------------------
(* What was parsed, as the committers take it.                              *)

(* iter_ranges, and a boundary for each range *)
Boundaries(S) ==
    LET starts == {i \in S : \A j \in S : j + 1 # i}
        start(b) == CHOOSE i \in starts : Rank(starts, i) = b
    IN  [b \in 1 .. Cardinality(starts) |-> {i \in S : start(b) <= i /\ start(b) .. i \subseteq S}]

(* The values of all JSON bodies in one document: value n of message k of   *)
(* direction d is <<d, k, n>>.                                              *)
NamesOf(d, k) == {<<d, k, n>> : n \in DOMAIN parsed[d][k].json}

ParsedValue(x) ==
    LET value == parsed[x[1]][x[2]].json[x[3]]
    IN  [kind |-> value.kind, span |-> value.span, pair |-> value.pair,
         elems |-> [e \in DOMAIN value.elems |-> <<x[1], x[2], value.elems[e]>>]]

ParsedDoc ==
    [x \in UNION {UNION {NamesOf(d, k) : k \in DOMAIN parsed[d]} : d \in Direction} |->
        ParsedValue(x)]

ParsedMessage(d, k) ==
    LET m == parsed[d][k]
    IN  [span |-> m.span, target |-> m.target, headers |-> m.headers, body |-> m.body,
         boundaries |-> Boundaries(m.boundaries), json |-> [n \in DOMAIN m.json |-> <<d, k, n>>]]

ParsedHttp == [d \in Direction |-> [k \in DOMAIN parsed[d] |-> ParsedMessage(d, k)]]

-------------------------------------------------------------------------------
DisclosureInit ==
    /\ Init
    /\ doc = << >> /\ http = OnBoth(<< >>) /\ NothingCalled
    /\ stage = "Parsing"
    /\ required = {} /\ original = OnBoth(<< >>)
    /\ hidden = OnBoth({}) /\ opened = OnBoth({}) /\ report = OnBoth(<< >>)

(* HttpTranscript::parse, by the prover and then by the verifier *)
Parse ==
    /\ stage \in {"Parsing", "ParsingPartial"}
    /\ Next
    /\ UNCHANGED <<callVars, stage, required, original, hidden, opened, report>>

TakeParsed ==
    /\ stage = "Parsing" /\ phase = "Ok"
    /\ stage' = "Parsed"
    /\ original' = [d \in Direction |-> [stream |-> transcript[d], messages |-> parsed[d]]]
    /\ doc' = ParsedDoc
    /\ http' = ParsedHttp
    /\ UNCHANGED <<vars, agenda, committed, failed, calling, called, completed,
                   required, hidden, opened, report>>

StructureCall == Call("transcript_structure", 0, "Sent")
TranscriptCall == Call("commit_transcript", 0, "Sent")

CommitToStructure ==
    /\ stage = "Parsed"
    /\ CallCommitter(StructureCall)
    /\ stage' = "Structure"
    /\ UNCHANGED <<vars, required, original, hidden, opened, report>>

CommitterStep ==
    /\ stage \in {"Structure", "Values"}
    /\ Step
    /\ UNCHANGED <<vars, stage, required, original, hidden, opened, report>>

CommitToValues ==
    /\ stage = "Structure" /\ StructureCall \in completed
    /\ CallCommitter(TranscriptCall)
    /\ stage' = "Values"
    /\ required' = committed
    /\ UNCHANGED <<vars, original, hidden, opened, report>>

Messages(d) == {http[d][k] : k \in DOMAIN http[d]}

(* The parts that may be left out. *)
Hideable(d) == UNION {HeaderValues(m) \cup LeafSpans(m) : m \in Messages(d)} \ {{}}

(* Both kinds of commitments are made; those to the values are opened only  *)
(* if they spare what is hidden.                                            *)
OpenedBy(d, choice) ==
    UNION {e[2] : e \in {x \in committed : /\ x[1] = d
                                           /\ x \in required \/ x[2] \cap UNION choice = {}}}

Choose ==
    /\ stage = "Values" /\ TranscriptCall \in completed
    /\ \E s \in SUBSET Hideable("Sent"), r \in SUBSET Hideable("Received") :
          hidden' = [d \in Direction |-> IF d = "Sent" THEN s ELSE r]
    /\ opened' = [d \in Direction |-> OpenedBy(d, hidden'[d])]
    /\ stage' = "Presented"
    /\ UNCHANGED <<vars, callVars, required, original, report>>

(* The bytes of a head that httparse reads: all but target and values. *)
HeadBytes(o, head) ==
    (o .. head.end - 1) \ (head.target \cup
        UNION {head.headers[k].start .. head.headers[k].end - 1 : k \in DOMAIN head.headers})

(* set_unauthed('*') on the partial transcript: a head is found where all   *)
(* of it that httparse reads is authenticated.                              *)
Parseable(d) ==
    [transcript[d] EXCEPT
        !.cells = Fill(@, DOMAIN @ \ opened[d], "*"),
        !.heads = [o \in {i \in DOMAIN @ : HeadBytes(i, @[i]) \subseteq opened[d]} |-> @[o]]]

ParsePartial ==
    /\ stage = "Presented"
    /\ stage' = "ParsingPartial"
    /\ transcript' = [d \in Direction |-> Parseable(d)]
    /\ side' = "Sent"
    /\ src' = transcript'["Sent"].cells
    /\ at' = 0
    /\ parsed' = OnBoth(<< >>)
    /\ phase' = "Idle"
    /\ pos' = 0 /\ content' = {} /\ structure' = {} /\ trailer' = {} /\ outcome' = "Reading"
    /\ UNCHANGED <<sums, callVars, required, original, hidden, opened, report>>

-------------------------------------------------------------------------------
(* HttpContext: the data of the spans, as they are in the parsed transcript *)
Data(d, S) == IndexRanges(transcript[d].cells, S)

(* A request is reported without its length. *)
Reported(d, headers) ==
    SelectSeq(headers, LAMBDA h : d = "Sent" => h.name # "content-length")

(* Mutant of HeaderContext: the header at the same place, which is another  *)
(* one behind a header that is not reported.                                *)
HeaderAtPlace(d, headers, k) ==
    [name |-> Reported(d, headers)[k].name, value |-> Data(d, headers[k].value)]

(* The value is looked up by the name: it is that of the first header that  *)
(* has it.                                                                  *)
HeaderContext(d, headers, k) ==
    LET name == Reported(d, headers)[k].name
    IN  [name |-> name,
         value |-> Data(d, (CHOOSE h \in {headers[j] : j \in FirstWithName(headers, name)} : TRUE).value)]

BodyContext(d, m) ==
    CASE m.body = {} -> [is |-> "None"]
      [] m.json # << >> -> ContextOf(m.json)
      [] OTHER -> [is |-> "Unknown", bytes |-> Data(d, m.body)]

MessageContext(d, m) ==
    [code |-> Data(d, m.code), target |-> Data(d, m.target),
     headers |-> [k \in DOMAIN Reported(d, m.headers) |-> HeaderContext(d, m.headers, k)],
     body |-> BodyContext(d, m)]

BuildContext ==
    /\ stage = "ParsingPartial" /\ phase = "Ok"
    /\ stage' = "Reported"
    /\ report' = [d \in Direction |-> [k \in DOMAIN parsed[d] |-> MessageContext(d, parsed[d][k])]]
    /\ UNCHANGED <<vars, callVars, required, original, hidden, opened>>

DisclosureNext ==
    \/ Parse
    \/ TakeParsed
    \/ CommitToStructure
    \/ CommitterStep
    \/ CommitToValues
    \/ Choose
    \/ ParsePartial
    \/ BuildContext

DisclosureSpec == DisclosureInit /\ [][DisclosureNext]_disclosureVars

-------------------------------------------------------------------------------
Chosen == stage \in {"Presented", "ParsingPartial", "Reported"}

(* The header values that the parser needs to find the messages again. *)
NeededToParse(d) ==
    UNION {UNION {m.headers[k].value : k \in {j \in DOMAIN m.headers : ~ IsLeftOut(m, d, j)}}
             : m \in Messages(d)}

(* No sum has wrapped, no line of a head ends with a bare LF, and no JSON   *)
(* comes in chunks: spans do not end where the message does, header spans   *)
(* run into the next line, and the spans of JSON values miss the body       *)
(* otherwise.                                                               *)
Regular ==
    sums # "Wrapped" /\ \A d \in Direction :
        /\ CrLfLines(original[d].stream)
        /\ \A k \in DOMAIN original[d].messages :
              LET m == original[d].messages[k]
              IN  m.json # << >> => \A i, j \in m.body : i .. j \subseteq m.body

(* What was chosen to be hidden stays hidden, to the last byte, unless the  *)
(* parser needs it, and everything else of every message can be read: the   *)
(* commitments of commit_structure and commit_transcript (http/commit.rs)   *)
(* together allow every choice of header values and JSON values.            *)
DisclosedExactly ==
    Chosen /\ Regular => \A d \in Direction :
        LET loose == UNION {Loose(m) : m \in Messages(d)}
            spans == UNION {m.span : m \in Messages(d)}
        IN  opened[d] \cup loose = (spans \ ((UNION hidden[d]) \ NeededToParse(d))) \cup loose

(* Where the parts of a message are. *)
Skeleton(m) ==
    [m EXCEPT !.json = [n \in DOMAIN @ |-> [span |-> @[n].span, pair |-> @[n].pair]]]

(* The verifier parses what is left to the same messages, whatever is       *)
(* hidden: parse_partial (http/transcript.rs) never fails on it, and finds  *)
(* every target, header, body, chunk boundary and JSON value at its place.  *)
FramingAgrees ==
    /\ stage = "ParsingPartial" => phase \notin {"Err", "Panicked"}
    /\ stage = "Reported" => \A d \in Direction :
          /\ DOMAIN parsed[d] = DOMAIN original[d].messages
          /\ \A k \in DOMAIN parsed[d] :
                Skeleton(parsed[d][k]) = Skeleton(original[d].messages[k])

Original(d, S) == IndexRanges(original[d].stream.cells, S)
Starred(d, S) ==
    IndexRanges(Fill(original[d].stream.cells, DOMAIN original[d].stream.cells \ opened[d], "*"), S)

(* The values of a JSON body, the hidden ones replaced: a string keeps its  *)
(* quotes and becomes a string of stars.                                    *)
StarredValues(d, m) ==
    [n \in DOMAIN m.json |->
        IF m.json[n].kind # "Primitive" \/ m.json[n].span \subseteq opened[d] THEN m.json[n]
        ELSE [m.json[n] EXCEPT !.type = IF @ = "String" THEN @ ELSE "Redacted",
                               !.text = Starred(d, m.json[n].span)]]

BodyTrue(d, m, body) ==
    CASE m.body = {} -> body.is = "None"
      [] m.json # << >> -> body = ContextOf(StarredValues(d, m))
      [] OTHER -> body.bytes = Original(d, m.body)

HeadersTrue(d, m, headers) ==
    /\ \A i \in DOMAIN headers : \E j \in DOMAIN m.headers :
          headers[i].name = m.headers[j].name /\ headers[i].value = Starred(d, m.headers[j].value)
    /\ \A j \in DOMAIN m.headers :
          j \in FirstWithName(m.headers, m.headers[j].name)
             /\ (d = "Sent" => m.headers[j].name # "content-length") =>
                \E i \in DOMAIN headers : /\ headers[i].name = m.headers[j].name
                                         /\ headers[i].value = Starred(d, m.headers[j].value)

(* What the verifier is told (HttpContext, http/context.rs) is what the     *)
(* prover's own transcript says, with stars for what is hidden: no header   *)
(* is given another's value, no value of a JSON body moves to another key,  *)
(* bodies that are not JSON are complete, and the first header of each name *)
(* is reported.                                                             *)
ContextTrue ==
    stage = "Reported" => \A d \in Direction :
        /\ DOMAIN report[d] = DOMAIN original[d].messages
        /\ \A k \in DOMAIN report[d] :
              LET m == original[d].messages[k]
                  r == report[d][k]
              IN  /\ r.code = Original(d, m.code) /\ r.target = Original(d, m.target)
                  /\ HeadersTrue(d, m, r.headers)
                  /\ BodyTrue(d, m, r.body)
===============================================================================
