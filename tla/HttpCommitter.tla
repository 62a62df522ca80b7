----------------------------- MODULE HttpCommitter -----------------------------
(***************************************************************************)
(* The default HTTP committer (context/src/http/commit.rs), which hands     *)
(* JSON bodies to the JSON committer.  A body is the set of its positions,  *)
(* empty when there is none; json lists the values of doc that are in it,   *)
(* the root first, and is empty when the content is unknown.  Requests are  *)
(* sent and responses are received.                                         *)
(***************************************************************************)
EXTENDS JsonCommitter, HttpTypes

VARIABLE http      \* http[d]: the messages of direction d

IsFraming(h) == h.name \in {"host", "content-length", "content-type", "transfer-encoding"}

HeaderCall(h, d) == [routine |-> "commit_header", header |-> h, direction |-> d]

CommitIf(condition, S, d) == IF condition THEN <<Commit(S, d)>> ELSE << >>

CommitAll(ranges, d) == [k \in DOMAIN ranges |-> Commit(ranges[k], d)]

(* Mutant of HeaderCalls: only the header as a whole. *)
WholeHeader(h, d) == <<Commit(h.span, d)>>

(* commit_request_header and commit_response_header *)
HeaderCalls(h, d) ==
    <<Commit(h.span, d)>> \o CommitIf(h.value # {}, WithoutHeaderValue(h), d)

(* commit_request_body and commit_response_body *)
BodyCalls(m, d) ==
    IF m.json # << >> THEN <<Call("commit_value", m.json[1], d)>> ELSE CommitIf(m.body # {}, m.body, d)

(* commit_request and commit_response; only a request has a target *)
MessageCalls(m, d) ==
    <<Commit(m.span, d)>>
       \o CommitIf(m.headers # << >> \/ m.body # {}, WithoutData(m), d)
       \o CommitIf(d = "Sent", m.target, d)
       \o [k \in DOMAIN m.headers |-> HeaderCall(m.headers[k], d)]
       \o BodyCalls(m, d)

(* commit_transcript *)
TranscriptCalls ==
    [k \in DOMAIN http["Sent"] |-> Call("commit_message", k, "Sent")]
       \o [k \in DOMAIN http["Received"] |-> Call("commit_message", k, "Received")]

-------------------------------------------------------------------------------
(* Mutant of RequestHeaderStructure: no value of any header. *)
HeadersWithoutValues(m) ==
    [k \in DOMAIN m.headers |-> Commit(WithoutHeaderValue(m.headers[k]), "Sent")]

(* headers_with_name(name).next() *)
FirstHeader(m, name) ==
    IF FirstWithName(m.headers, name) = {} THEN << >>
    ELSE <<Commit(m.headers[CHOOSE k \in FirstWithName(m.headers, name) : TRUE].span, "Sent")>>

(* commit_structure: the headers of a request without their values, and the *)
(* first of every framing name in full *)
RequestHeaderStructure(m) ==
    [k \in DOMAIN m.headers |-> Commit(WithoutHeaderValue(m.headers[k]), "Sent")]
       \o FirstHeader(m, "host") \o FirstHeader(m, "content-length")
       \o FirstHeader(m, "content-type") \o FirstHeader(m, "transfer-encoding")

(* Mutant of ResponseHeaderStructure: every header in full. *)
WholeHeaders(m) ==
    [k \in DOMAIN m.headers |-> Commit(m.headers[k].span, "Received")]

(* ... and every header of a response that has such a name in full *)
ResponseHeaderStructure(m) ==
    [k \in DOMAIN m.headers |->
        Commit(IF IsFraming(m.headers[k]) THEN m.headers[k].span
               ELSE WithoutHeaderValue(m.headers[k]), "Received")]

BodyStructure(m, d) ==
    IF m.json # << >> THEN <<Call("commit_structure", m.json[1], d)>>
    ELSE CommitIf(m.body # {}, m.body, d)

RequestStructure(m) ==
    <<Commit(WithoutData(m), "Sent"), Commit(m.target, "Sent")>>
       \o RequestHeaderStructure(m) \o BodyStructure(m, "Sent")

(* Chunk boundaries are committed once more; no response has trailers. *)
ResponseStructure(m) ==
    <<Commit(WithoutData(m), "Received")>>
       \o ResponseHeaderStructure(m) \o BodyStructure(m, "Received")
       \o CommitAll(m.boundaries, "Received")

MessageStructure(m, d) == IF d = "Sent" THEN RequestStructure(m) ELSE ResponseStructure(m)

TranscriptStructureCalls ==
    [k \in DOMAIN http["Sent"] |-> Call("message_structure", k, "Sent")]
       \o [k \in DOMAIN http["Received"] |-> Call("message_structure", k, "Received")]

-------------------------------------------------------------------------------
CommitTranscript ==
    \E c \in NextCalls("commit_transcript") : Becomes(TranscriptCalls)

CommitMessage ==
    \E c \in NextCalls("commit_message") :
        Becomes(MessageCalls(http[c.direction][c.node], c.direction))

CommitHeader ==
    \E c \in NextCalls("commit_header") : Becomes(HeaderCalls(c.header, c.direction))

CommitTranscriptStructure ==
    \E c \in NextCalls("transcript_structure") : Becomes(TranscriptStructureCalls)

(* One round of the loops of commit_structure. *)
CommitMessageStructure ==
    \E c \in NextCalls("message_structure") :
        Becomes(MessageStructure(http[c.direction][c.node], c.direction))

HttpStep ==
    /\ \/ CommitTranscript
       \/ CommitMessage
       \/ CommitHeader
       \/ CommitTranscriptStructure
       \/ CommitMessageStructure
       \/ JsonStep
    /\ UNCHANGED http
===============================================================================
