--------------------------- MODULE HttpCommit_proofs ---------------------------
(***************************************************************************)
(* Theorems about HttpCommit and SelectiveDisclosure, for transcripts of    *)
(* any number of messages, headers and JSON values, and any number of       *)
(* calls.  The invariant says of every call on the agenda, and of every     *)
(* commitment, which message it is about and which of its positions it may  *)
(* reach.  The caller of HttpCommit makes any calls, on any messages that   *)
(* are WellParsed; that of SelectiveDisclosure makes those of a prover, on  *)
(* the messages that HttpMessages yields, which are shown to be WellParsed. *)
(***************************************************************************)
EXTENDS HttpCommit, SelectiveDisclosure, HttpMessages_proofs, JsonCommitter_proofs

(* The messages are as the parser yields them, with their values. *)
Parsed == WellParsed(doc, http)

LEMMA MessageFacts ==
    ASSUME Parsed, NEW d \in Direction
    PROVE  /\ IsSequence(http[d])
           /\ \A k \in DOMAIN http[d] :
                 /\ PartsDisjoint(http[d][k]) /\ ValuesInBody(doc, http[d][k])
                 /\ d = "Received" => http[d][k].target = {}
                 /\ \A l \in DOMAIN http[d] \ {k} : http[d][k].span \cap http[d][l].span = {}
  BY DEF Parsed, WellParsed

-------------------------------------------------------------------------------
(* One step of the committer: the next call makes its calls, or fails, or   *)
(* is a call of the builder that succeeds.                                  *)
Makes(c, calls) ==
    \/ Expands(c, calls)
    \/ c.routine = "commit_transcript" /\ calls = TranscriptCalls
    \/ c.routine = "transcript_structure" /\ calls = TranscriptStructureCalls
    \/ c.routine = "commit_message" /\ calls = MessageCalls(http[c.direction][c.node], c.direction)
    \/ c.routine = "commit_header" /\ calls = HeaderCalls(c.header, c.direction)
    \/ /\ c.routine = "message_structure"
       /\ calls = MessageStructure(http[c.direction][c.node], c.direction)

LEMMA HttpStepCases ==
    ASSUME HttpStep
    PROVE  /\ agenda # << >>
           /\ \/ \E calls : Makes(Head(agenda), calls) /\ Becomes(calls)
              \/ Fails
              \/ Accepts(Head(agenda))
PROOF
  <1> USE DEF NextCalls
  <1>1. CASE CommitTranscript
    BY <1>1 DEF CommitTranscript, Makes
  <1>2. CASE CommitMessage
    BY <1>2 DEF CommitMessage, Makes
  <1>3. CASE CommitHeader
    BY <1>3 DEF CommitHeader, Makes
  <1>4. CASE CommitTranscriptStructure
    BY <1>4 DEF CommitTranscriptStructure, Makes
  <1>5. CASE CommitMessageStructure
    BY <1>5 DEF CommitMessageStructure, Makes
  <1>6. CASE JsonStep
    BY <1>6, StepCases DEF Makes
  <1> QED
    BY <1>1, <1>2, <1>3, <1>4, <1>5, <1>6 DEF HttpStep

-------------------------------------------------------------------------------
(* The values in the body of a message. *)
LEMMA ValueFacts ==
    ASSUME NEW m, ValuesInBody(doc, m), NEW n \in Nodes(m)
    PROVE  /\ n \in DOMAIN doc /\ doc[n].span \in SUBSET Nat
           /\ doc[n].elems \in Seq(Nodes(m)) /\ Elems(n) \subseteq Nodes(m)
           /\ doc[n].span \cup doc[n].pair \subseteq m.body
           /\ \A e \in Elems(n) : ElementInside(n, e)
           /\ \A l \in Leaves(m) :
                 /\ doc[l].span \cap (doc[n].pair \ doc[n].span) = {}
                 /\ IsContainer(doc, n) => \/ doc[l].span \cap doc[n].span = {}
                                           \/ \E e \in Elems(n) : doc[l].span \subseteq doc[e].span
PROOF
  <1>1. PICK D : D = [v \in Nodes(m) |-> doc[v]]
    OBVIOUS
  <1>2. WellNested(D) /\ DOMAIN D = Nodes(m) /\ \A v \in Nodes(m) : D[v] = doc[v]
    BY <1>1 DEF ValuesInBody
  <1>3. Shaped(D) /\ ElementsInside(D) /\ LeavesInElements(D) /\ LeavesApart(D)
    BY <1>2 DEF WellNested
  <1>4. n \in DOMAIN doc /\ doc[n].span \cup doc[n].pair \subseteq m.body
    BY DEF ValuesInBody
  <1>5. doc[n].span \in SUBSET Nat /\ doc[n].elems \in Seq(Nodes(m))
    BY <1>2, <1>3 DEF Shaped
  <1>6. Elems(n) \subseteq Nodes(m) /\ Children(D, n) = Elems(n)
    BY <1>2, <1>5 DEF Elems, Children
  <1>7. \A e \in Elems(n) : ElementInside(n, e)
    BY <1>2, <1>3, <1>6 DEF ElementsInside, ElementInside
  <1>8. ASSUME NEW l \in Leaves(m)
        PROVE  /\ doc[l].span \cap (doc[n].pair \ doc[n].span) = {}
               /\ IsContainer(doc, n) => \/ doc[l].span \cap doc[n].span = {}
                                         \/ \E e \in Elems(n) : doc[l].span \subseteq doc[e].span
    <2>1. l \in Nodes(m) /\ ~ IsContainer(D, l) /\ D[l] = doc[l] /\ D[n] = doc[n]
      BY <1>2 DEF Leaves, IsContainer
    <2>2. doc[l].span \cap (doc[n].pair \ doc[n].span) = {}
      BY <1>2, <1>3, <2>1 DEF LeavesApart
    <2>3. IsContainer(doc, n) => \/ doc[l].span \cap doc[n].span = {}
                                 \/ \E e \in Children(D, n) : D[l].span \subseteq D[e].span
      BY <1>2, <1>3, <2>1 DEF LeavesInElements, IsContainer
    <2> QED
      BY <1>2, <1>6, <2>1, <2>2, <2>3
  <1> QED
    BY <1>4, <1>5, <1>6, <1>7, <1>8

(* The parts of a message that commit_structure commits to. *)
LEMMA HeadersApart ==
    ASSUME NEW m, PartsDisjoint(m), NEW k \in DOMAIN m.headers
    PROVE  /\ m.headers[k].span \subseteq m.span
           /\ m.headers[k].value \subseteq m.headers[k].span
           /\ m.headers[k].span \cap (m.target \cup m.body) = {}
           /\ \A j \in DOMAIN m.headers \ {k} : m.headers[j].span \cap m.headers[k].span = {}
  BY DEF PartsDisjoint

LEMMA LeftOutIsInside ==
    ASSUME NEW m, NEW d, PartsDisjoint(m), ValuesInBody(doc, m)
    PROVE  /\ \A i \in LeftOut(m, d) :
                 \/ i \in m.body /\ \E l \in Leaves(m) : i \in doc[l].span
                 \/ \E j \in DOMAIN m.headers : IsLeftOut(m, d, j) /\ i \in m.headers[j].value
           /\ LeftOut(m, d) \subseteq m.span
PROOF
  <1>1. \A l \in Leaves(m) : doc[l].span \subseteq m.body
    BY DEF Leaves, ValuesInBody
  <1>2. ASSUME NEW i \in LeftOut(m, d)
        PROVE  \/ i \in m.body /\ \E l \in Leaves(m) : i \in doc[l].span
               \/ \E j \in DOMAIN m.headers : IsLeftOut(m, d, j) /\ i \in m.headers[j].value
    <2>1. CASE i \in UNION LeafSpans(m)
      BY <1>1, <2>1 DEF LeafSpans
    <2>2. CASE i \notin UNION LeafSpans(m)
      BY <2>2 DEF LeftOut
    <2> QED
      BY <2>1, <2>2
  <1>3. m.body \subseteq m.span
    BY DEF PartsDisjoint
  <1>4. LeftOut(m, d) \subseteq m.span
    BY <1>2, <1>3, HeadersApart
  <1> QED
    BY <1>2, <1>4

LEMMA PartsSpareLeftOut ==
    ASSUME NEW m, NEW d, PartsDisjoint(m), ValuesInBody(doc, m)
    PROVE  /\ WithoutData(m) \subseteq m.span \ LeftOut(m, d)
           /\ m.target \subseteq m.span \ LeftOut(m, d)
           /\ \A k \in DOMAIN m.headers :
                 /\ WithoutHeaderValue(m.headers[k]) \subseteq m.span \ LeftOut(m, d)
                 /\ IsLeftOut(m, d, k) \/ m.headers[k].span \subseteq m.span \ LeftOut(m, d)
           /\ m.json = << >> => m.body \subseteq m.span \ LeftOut(m, d)
           /\ \A b \in DOMAIN m.boundaries : m.boundaries[b] \subseteq m.span \ LeftOut(m, d)
PROOF
  <1>1. m.target \cup m.body \subseteq m.span /\ m.target \cap m.body = {}
    BY DEF PartsDisjoint
  <1>2. WithoutData(m) \subseteq m.span \ LeftOut(m, d)
    BY LeftOutIsInside, HeadersApart DEF WithoutData
  <1>3. m.target \subseteq m.span \ LeftOut(m, d)
    BY <1>1, LeftOutIsInside, HeadersApart
  <1>4. ASSUME NEW k \in DOMAIN m.headers
        PROVE  /\ WithoutHeaderValue(m.headers[k]) \subseteq m.span \ LeftOut(m, d)
               /\ IsLeftOut(m, d, k) \/ m.headers[k].span \subseteq m.span \ LeftOut(m, d)
    <2>1. ASSUME NEW i \in m.headers[k].span, i \in LeftOut(m, d)
          PROVE  i \in m.headers[k].value /\ IsLeftOut(m, d, k)
      <3>1. i \notin m.body
        BY HeadersApart
      <3>2. PICK j \in DOMAIN m.headers : IsLeftOut(m, d, j) /\ i \in m.headers[j].value
        BY <2>1, <3>1, LeftOutIsInside
      <3>3. j = k
        BY <3>2, HeadersApart
      <3> QED
        BY <3>2, <3>3
    <2> QED
      BY <2>1, HeadersApart DEF WithoutHeaderValue
  <1>5. m.json = << >> => m.body \subseteq m.span \ LeftOut(m, d)
    <2>1. m.json = << >> => Leaves(m) = {}
      BY DEF Nodes, Leaves
    <2> QED
      BY <1>1, <2>1, LeftOutIsInside, HeadersApart
  <1>6. ASSUME NEW b \in DOMAIN m.boundaries
        PROVE  m.boundaries[b] \subseteq m.span \ LeftOut(m, d)
    <2>1. /\ m.boundaries[b] \subseteq m.span \ m.body
          /\ \A k \in DOMAIN m.headers : m.headers[k].span \cap m.boundaries[b] = {}
      BY DEF PartsDisjoint
    <2> QED
      BY <2>1, LeftOutIsInside, HeadersApart
  <1> QED
    BY <1>2, <1>3, <1>4, <1>5, <1>6

LEMMA ValuesWithin ==
    ASSUME NEW m, NEW d, PartsDisjoint(m), ValuesInBody(doc, m)
    PROVE  Within(Nodes(m), m.span) /\ StructureWithin(Nodes(m), m.span \ LeftOut(m, d))
PROOF
  <1>1. m.body \subseteq m.span
    BY DEF PartsDisjoint
  <1>2. Within(Nodes(m), m.span)
    BY <1>1, ValueFacts DEF Within
  <1>3. ASSUME NEW n \in Nodes(m)
        PROVE  /\ WithoutValue(n) \subseteq m.span \ LeftOut(m, d)
               /\ doc[n].kind = "Object" => WithoutPairs(n) \subseteq m.span \ LeftOut(m, d)
               /\ doc[n].kind = "Array" => /\ WithoutValues(n) \subseteq m.span \ LeftOut(m, d)
                                           /\ Separators(n) \subseteq m.span \ LeftOut(m, d)
    <2>1. /\ WithoutPairs(n) \subseteq m.body /\ WithoutValue(n) \subseteq m.body
          /\ WithoutValues(n) \subseteq m.body /\ Separators(n) \subseteq m.body
      BY ValueFacts, PartsWithin
    <2>2. ASSUME NEW l \in Leaves(m)
          PROVE  /\ WithoutValue(n) \cap doc[l].span = {}
                 /\ doc[n].kind = "Object" => WithoutPairs(n) \cap doc[l].span = {}
                 /\ doc[n].kind = "Array" => WithoutValues(n) \cap doc[l].span = {}
                 /\ doc[n].kind = "Array" => Separators(n) \cap doc[l].span = {}
      <3>1. l \in DOMAIN doc
        BY DEF Leaves, ValuesInBody
      <3> QED
        BY <3>1, ValueFacts, StructureParts
    <2>3. \A i \in m.body : i \in LeftOut(m, d) => \E l \in Leaves(m) : i \in doc[l].span
      BY LeftOutIsInside, HeadersApart
    <2> QED
      BY <1>1, <2>1, <2>2, <2>3
  <1> QED
    BY <1>2, <1>3, ValueFacts DEF StructureWithin

-------------------------------------------------------------------------------
(* The calls that each routine makes, all of them in a set S that holds the *)
(* calls about the parts of message m.                                      *)
LEMMA ItemsOfFive ==
    ASSUME NEW S, NEW a \in Seq(S), NEW b \in Seq(S), NEW c \in Seq(S), NEW d \in Seq(S), NEW e \in Seq(S)
    PROVE  /\ a \o b \o c \o d \o e \in Seq(S)
           /\ Items(a \o b \o c \o d \o e) =
                 Items(a) \cup Items(b) \cup Items(c) \cup Items(d) \cup Items(e)
PROOF
  <1>1. PICK x : x = a \o b
    OBVIOUS
  <1>2. PICK y : y = x \o c
    OBVIOUS
  <1>3. PICK z : z = y \o d
    OBVIOUS
  <1>4. x \in Seq(S) /\ Items(x) = Items(a) \cup Items(b)
    BY <1>1, ItemsOfConcat
  <1>5. y \in Seq(S) /\ Items(y) = Items(x) \cup Items(c)
    BY <1>2, <1>4, ItemsOfConcat
  <1>6. z \in Seq(S) /\ Items(z) = Items(y) \cup Items(d)
    BY <1>3, <1>5, ItemsOfConcat
  <1>7. z \o e \in Seq(S) /\ Items(z \o e) = Items(z) \cup Items(e)
    BY <1>6, ItemsOfConcat
  <1> QED
    BY <1>1, <1>2, <1>3, <1>4, <1>5, <1>6, <1>7

LEMMA RootIsNode ==
    ASSUME NEW m, ValuesInBody(doc, m), m.json # << >>
    PROVE  m.json[1] \in Nodes(m)
PROOF
  <1>1. PICK json, N : json = m.json /\ N = Nodes(m)
    OBVIOUS
  <1>2. json \in Seq(N) /\ json # << >>
    BY <1>1 DEF ValuesInBody
  <1> QED
    BY <1>1, <1>2

LEMMA MessageCallsIn ==
    ASSUME NEW m, NEW d, NEW S, PartsDisjoint(m), ValuesInBody(doc, m),
           \A T \in SUBSET m.span : Commit(T, d) \in S,
           \A k \in DOMAIN m.headers : HeaderCall(m.headers[k], d) \in S,
           \A n \in Nodes(m) : Call("commit_value", n, d) \in S
    PROVE  /\ MessageCalls(m, d) \in Seq(S)
           /\ m.headers # << >> \/ m.body # {} => Commit(WithoutData(m), d) \in Items(MessageCalls(m, d))
           /\ d = "Sent" => Commit(m.target, d) \in Items(MessageCalls(m, d))
           /\ \A k \in DOMAIN m.headers : HeaderCall(m.headers[k], d) \in Items(MessageCalls(m, d))
           /\ m.json # << >> => Call("commit_value", m.json[1], d) \in Items(MessageCalls(m, d))
           /\ m.json = << >> /\ m.body # {} => Commit(m.body, d) \in Items(MessageCalls(m, d))
PROOF
  <1>1. /\ m.target \subseteq m.span /\ m.body \subseteq m.span /\ WithoutData(m) \subseteq m.span
        /\ m.json # << >> => m.json[1] \in Nodes(m)
    BY RootIsNode DEF PartsDisjoint, WithoutData
  <1>2. /\ Commit(m.span, d) \in S /\ Commit(m.target, d) \in S /\ Commit(m.body, d) \in S
        /\ Commit(WithoutData(m), d) \in S
    BY <1>1
  <1>3. PICK first : first = <<Commit(m.span, d)>>
    OBVIOUS
  <1>4. PICK rest : rest = CommitIf(m.headers # << >> \/ m.body # {}, WithoutData(m), d)
    OBVIOUS
  <1>5. PICK target : target = CommitIf(d = "Sent", m.target, d)
    OBVIOUS
  <1>6. PICK headers : headers = [k \in DOMAIN m.headers |-> HeaderCall(m.headers[k], d)]
    OBVIOUS
  <1>7. PICK body : body = BodyCalls(m, d)
    OBVIOUS
  <1>8. first \in Seq(S)
    BY <1>2, <1>3
  <1>9. /\ rest \in Seq(S)
        /\ m.headers # << >> \/ m.body # {} => Commit(WithoutData(m), d) \in Items(rest)
    BY <1>2, <1>4, ItemsOfOne DEF CommitIf
  <1>10. target \in Seq(S) /\ (d = "Sent" => Commit(m.target, d) \in Items(target))
    BY <1>2, <1>5, ItemsOfOne DEF CommitIf
  <1>11. headers \in Seq(S) /\ \A k \in DOMAIN m.headers : HeaderCall(m.headers[k], d) \in Items(headers)
    <2>1. Len(m.headers) \in Nat /\ DOMAIN m.headers = 1 .. Len(m.headers)
      BY DEF PartsDisjoint, IsSequence
    <2> QED
      BY <1>6, <2>1 DEF Items
  <1>12. /\ body \in Seq(S)
         /\ m.json # << >> => Call("commit_value", m.json[1], d) \in Items(body)
         /\ m.json = << >> /\ m.body # {} => Commit(m.body, d) \in Items(body)
    <2>1. m.json # << >> => Call("commit_value", m.json[1], d) \in S
      BY <1>1
    <2>2. CASE m.json # << >>
      BY <1>7, <2>1, <2>2, ItemsOfOne DEF BodyCalls
    <2>3. CASE m.json = << >>
      BY <1>2, <1>7, <2>3, ItemsOfOne DEF BodyCalls, CommitIf
    <2> QED
      BY <2>2, <2>3
  <1>13. PICK calls : calls = first \o rest \o target \o headers \o body
    OBVIOUS
  <1>14. /\ calls \in Seq(S)
         /\ Items(calls) = Items(first) \cup Items(rest) \cup Items(target)
                              \cup Items(headers) \cup Items(body)
    BY <1>8, <1>9, <1>10, <1>11, <1>12, <1>13, ItemsOfFive
  <1>15. MessageCalls(m, d) = calls
    BY <1>3, <1>4, <1>5, <1>6, <1>7, <1>13 DEF MessageCalls
  <1> QED
    BY <1>9, <1>10, <1>11, <1>12, <1>14, <1>15

LEMMA HeaderCallsIn ==
    ASSUME NEW h, NEW d, NEW S, \A T \in SUBSET h.span : Commit(T, d) \in S
    PROVE  /\ HeaderCalls(h, d) \in Seq(S)
           /\ Commit(h.span, d) \in Items(HeaderCalls(h, d))
           /\ h.value # {} => Commit(WithoutHeaderValue(h), d) \in Items(HeaderCalls(h, d))
PROOF
  <1>1. Commit(h.span, d) \in S /\ Commit(WithoutHeaderValue(h), d) \in S
    BY DEF WithoutHeaderValue
  <1>2. PICK a, b : a = <<Commit(h.span, d)>> /\ b = CommitIf(h.value # {}, WithoutHeaderValue(h), d)
    OBVIOUS
  <1>3. a \in Seq(S) /\ Items(a) = {Commit(h.span, d)}
    BY <1>1, <1>2, ItemsOfOne
  <1>4. b \in Seq(S) /\ (h.value # {} => Commit(WithoutHeaderValue(h), d) \in Items(b))
    BY <1>1, <1>2, ItemsOfOne DEF CommitIf
  <1>5. a \o b \in Seq(S) /\ Items(a \o b) = Items(a) \cup Items(b)
    BY <1>3, <1>4, ItemsOfConcat
  <1> QED
    BY <1>2, <1>3, <1>4, <1>5 DEF HeaderCalls

LEMMA FirstHeaderIn ==
    ASSUME NEW m, NEW S, NEW name, IsSequence(m.headers),
           \A k \in FirstWithName(m.headers, name) : Commit(m.headers[k].span, "Sent") \in S
    PROVE  /\ FirstHeader(m, name) \in Seq(S)
           /\ \A k \in FirstWithName(m.headers, name) :
                 Commit(m.headers[k].span, "Sent") \in Items(FirstHeader(m, name))
PROOF
  <1>1. CASE FirstWithName(m.headers, name) = {}
    BY <1>1 DEF FirstHeader
  <1>2. CASE FirstWithName(m.headers, name) # {}
    <2>1. PICK k : k = CHOOSE j \in FirstWithName(m.headers, name) : TRUE
      OBVIOUS
    <2>2. k \in FirstWithName(m.headers, name)
      BY <1>2, <2>1
    <2>3. FirstHeader(m, name) = <<Commit(m.headers[k].span, "Sent")>>
      BY <1>2, <2>1 DEF FirstHeader
    <2>4. FirstHeader(m, name) \in Seq(S) /\ Items(FirstHeader(m, name)) = {Commit(m.headers[k].span, "Sent")}
      BY <2>2, <2>3, ItemsOfOne DEF FirstWithName
    <2>5. \A j \in FirstWithName(m.headers, name) : j = k
      BY <2>2 DEF FirstWithName, IsSequence
    <2> QED
      BY <2>4, <2>5
  <1> QED
    BY <1>1, <1>2

LEMMA RequestHeadersIn ==
    ASSUME NEW m, NEW S, PartsDisjoint(m),
           \A k \in DOMAIN m.headers :
              /\ Commit(WithoutHeaderValue(m.headers[k]), "Sent") \in S
              /\ IsLeftOut(m, "Sent", k) \/ Commit(m.headers[k].span, "Sent") \in S
    PROVE  /\ RequestHeaderStructure(m) \in Seq(S)
           /\ \A k \in DOMAIN m.headers :
                 /\ Commit(WithoutHeaderValue(m.headers[k]), "Sent") \in Items(RequestHeaderStructure(m))
                 /\ \/ IsLeftOut(m, "Sent", k)
                    \/ Commit(m.headers[k].span, "Sent") \in Items(RequestHeaderStructure(m))
PROOF
  <1>1. PICK all : all = [k \in DOMAIN m.headers |-> Commit(WithoutHeaderValue(m.headers[k]), "Sent")]
    OBVIOUS
  <1>2. PICK a, b, c, d : /\ a = FirstHeader(m, "host") /\ b = FirstHeader(m, "content-length")
                          /\ c = FirstHeader(m, "content-type") /\ d = FirstHeader(m, "transfer-encoding")
    OBVIOUS
  <1>3. IsSequence(m.headers)
    BY DEF PartsDisjoint
  <1>4. /\ all \in Seq(S)
        /\ \A k \in DOMAIN m.headers : Commit(WithoutHeaderValue(m.headers[k]), "Sent") \in Items(all)
    <2>1. Len(m.headers) \in Nat /\ DOMAIN m.headers = 1 .. Len(m.headers)
      BY <1>3 DEF IsSequence
    <2> QED
      BY <1>1, <2>1 DEF Items
  <1>5. /\ a \in Seq(S) /\ \A k \in FirstWithName(m.headers, "host") :
              Commit(m.headers[k].span, "Sent") \in Items(a)
        /\ b \in Seq(S) /\ \A k \in FirstWithName(m.headers, "content-length") :
              Commit(m.headers[k].span, "Sent") \in Items(b)
        /\ c \in Seq(S) /\ \A k \in FirstWithName(m.headers, "content-type") :
              Commit(m.headers[k].span, "Sent") \in Items(c)
        /\ d \in Seq(S) /\ \A k \in FirstWithName(m.headers, "transfer-encoding") :
              Commit(m.headers[k].span, "Sent") \in Items(d)
    <2>1. \A name \in {"host", "content-length", "content-type", "transfer-encoding"} :
             \A k \in FirstWithName(m.headers, name) : Commit(m.headers[k].span, "Sent") \in S
      BY DEF IsFraming, IsLeftOut, FirstWithName
    <2> QED
      BY <1>2, <1>3, <2>1, FirstHeaderIn
  <1>6. PICK calls : calls = all \o a \o b \o c \o d
    OBVIOUS
  <1>7. calls \in Seq(S) /\ Items(calls) = Items(all) \cup Items(a) \cup Items(b) \cup Items(c) \cup Items(d)
    BY <1>4, <1>5, <1>6, ItemsOfFive
  <1>8. RequestHeaderStructure(m) = calls
    BY <1>1, <1>2, <1>6 DEF RequestHeaderStructure
  <1>9. ASSUME NEW k \in DOMAIN m.headers, ~ IsLeftOut(m, "Sent", k)
        PROVE  Commit(m.headers[k].span, "Sent") \in Items(calls)
    BY <1>5, <1>7, <1>9 DEF IsFraming, IsLeftOut
  <1> QED
    BY <1>4, <1>7, <1>8, <1>9

LEMMA MessageStructureIn ==
    ASSUME NEW m, NEW d \in Direction, NEW S, PartsDisjoint(m), ValuesInBody(doc, m),
           \A T \in SUBSET (m.span \ LeftOut(m, d)) : Commit(T, d) \in S,
           \A n \in Nodes(m) : Call("commit_structure", n, d) \in S
    PROVE  /\ MessageStructure(m, d) \in Seq(S)
           /\ Commit(WithoutData(m), d) \in Items(MessageStructure(m, d))
           /\ d = "Sent" => Commit(m.target, d) \in Items(MessageStructure(m, d))
           /\ \A k \in DOMAIN m.headers :
                 IF IsLeftOut(m, d, k)
                 THEN Commit(WithoutHeaderValue(m.headers[k]), d) \in Items(MessageStructure(m, d))
                 ELSE Commit(m.headers[k].span, d) \in Items(MessageStructure(m, d))
           /\ m.json # << >> => Call("commit_structure", m.json[1], d) \in Items(MessageStructure(m, d))
           /\ m.json = << >> /\ m.body # {} => Commit(m.body, d) \in Items(MessageStructure(m, d))
PROOF
  <1>1. /\ Commit(WithoutData(m), d) \in S /\ Commit(m.target, d) \in S
        /\ \A k \in DOMAIN m.headers :
              /\ Commit(WithoutHeaderValue(m.headers[k]), d) \in S
              /\ IsLeftOut(m, d, k) \/ Commit(m.headers[k].span, d) \in S
        /\ m.json = << >> => Commit(m.body, d) \in S
        /\ \A b \in DOMAIN m.boundaries : Commit(m.boundaries[b], d) \in S
    BY PartsSpareLeftOut
  <1>2. /\ Len(m.headers) \in Nat /\ DOMAIN m.headers = 1 .. Len(m.headers)
        /\ Len(m.boundaries) \in Nat /\ DOMAIN m.boundaries = 1 .. Len(m.boundaries)
    BY DEF PartsDisjoint, IsSequence
  <1>3. PICK body : body = BodyStructure(m, d)
    OBVIOUS
  <1>4. /\ body \in Seq(S)
        /\ m.json # << >> => Call("commit_structure", m.json[1], d) \in Items(body)
        /\ m.json = << >> /\ m.body # {} => Commit(m.body, d) \in Items(body)
    <2>1. m.json # << >> => Call("commit_structure", m.json[1], d) \in S
      BY RootIsNode
    <2>2. CASE m.json # << >>
      BY <1>3, <2>1, <2>2, ItemsOfOne DEF BodyStructure
    <2>3. CASE m.json = << >>
      BY <1>1, <1>3, <2>3, ItemsOfOne DEF BodyStructure, CommitIf
    <2> QED
      BY <2>2, <2>3
  <1>5. CASE d = "Sent"
    <2>1. PICK first : first = <<Commit(WithoutData(m), "Sent"), Commit(m.target, "Sent")>>
      OBVIOUS
    <2>2. first \in Seq(S) /\ Items(first) = {Commit(WithoutData(m), "Sent"), Commit(m.target, "Sent")}
      BY <1>1, <1>5, <2>1, ItemsOfTwo
    <2>3. PICK headers : headers = RequestHeaderStructure(m)
      OBVIOUS
    <2>4. /\ headers \in Seq(S)
          /\ \A k \in DOMAIN m.headers :
                /\ Commit(WithoutHeaderValue(m.headers[k]), "Sent") \in Items(headers)
                /\ IsLeftOut(m, "Sent", k) \/ Commit(m.headers[k].span, "Sent") \in Items(headers)
      BY <1>1, <1>5, <2>3, RequestHeadersIn
    <2>5. PICK start : start = first \o headers
      OBVIOUS
    <2>6. start \in Seq(S) /\ Items(start) = Items(first) \cup Items(headers)
      BY <2>2, <2>4, <2>5, ItemsOfConcat
    <2>7. start \o body \in Seq(S) /\ Items(start \o body) = Items(start) \cup Items(body)
      BY <1>4, <2>6, ItemsOfConcat
    <2>8. MessageStructure(m, d) = start \o body
      BY <1>3, <1>5, <2>1, <2>3, <2>5 DEF MessageStructure, RequestStructure
    <2> QED
      BY <1>4, <1>5, <2>2, <2>4, <2>6, <2>7, <2>8
  <1>6. CASE d = "Received"
    <2>1. PICK first : first = <<Commit(WithoutData(m), "Received")>>
      OBVIOUS
    <2>2. first \in Seq(S) /\ Items(first) = {Commit(WithoutData(m), "Received")}
      BY <1>1, <1>6, <2>1, ItemsOfOne
    <2>3. PICK headers : headers = ResponseHeaderStructure(m)
      OBVIOUS
    <2>4. /\ headers \in Seq(S)
          /\ \A k \in DOMAIN m.headers :
                Commit(IF IsFraming(m.headers[k]) THEN m.headers[k].span
                       ELSE WithoutHeaderValue(m.headers[k]), "Received") \in Items(headers)
      <3>1. \A k \in DOMAIN m.headers :
                Commit(IF IsFraming(m.headers[k]) THEN m.headers[k].span
                       ELSE WithoutHeaderValue(m.headers[k]), "Received") \in S
        BY <1>1, <1>6 DEF IsLeftOut
      <3> QED
        BY <1>2, <2>3, <3>1 DEF ResponseHeaderStructure, Items
    <2>5. PICK boundaries : boundaries = CommitAll(m.boundaries, "Received")
      OBVIOUS
    <2>6. boundaries \in Seq(S)
      BY <1>1, <1>2, <1>6, <2>5 DEF CommitAll
    <2>7. PICK start : start = first \o headers
      OBVIOUS
    <2>8. start \in Seq(S) /\ Items(start) = Items(first) \cup Items(headers)
      BY <2>2, <2>4, <2>7, ItemsOfConcat
    <2>9. PICK more : more = start \o body
      OBVIOUS
    <2>10. more \in Seq(S) /\ Items(more) = Items(start) \cup Items(body)
      BY <1>4, <2>8, <2>9, ItemsOfConcat
    <2>11. /\ more \o boundaries \in Seq(S)
           /\ Items(more \o boundaries) = Items(more) \cup Items(boundaries)
      BY <2>6, <2>10, ItemsOfConcat
    <2>12. MessageStructure(m, d) = more \o boundaries
      BY <1>3, <1>6, <2>1, <2>3, <2>5, <2>7, <2>9 DEF MessageStructure, ResponseStructure
    <2> QED
      BY <1>4, <1>6, <2>2, <2>4, <2>8, <2>10, <2>11, <2>12 DEF IsLeftOut
  <1> QED
    BY <1>5, <1>6 DEF Direction

-------------------------------------------------------------------------------
(* The calls about message k of direction d that may be made: any about its *)
(* parts once it is to be committed, and those of commit_structure before.  *)
CommitAsked(d, k) == \E c \in called : CommitsMessage(c, d, k)
StructureAsked == \E c \in called : c.routine = "transcript_structure"

BelongingTo(m, d, k) ==
    CallsWithin(Nodes(m), m.span, d)
        \cup {HeaderCall(m.headers[j], d) : j \in DOMAIN m.headers}
        \cup {Call("commit_message", k, d), Call("message_structure", k, d)}

StructureOf(m, d, k) ==
    StructureCallsWithin(Nodes(m), m.span \ LeftOut(m, d), d) \cup {Call("message_structure", k, d)}

About(d, k) ==
    (IF CommitAsked(d, k) THEN BelongingTo(http[d][k], d, k) ELSE {})
        \cup (IF StructureAsked THEN StructureOf(http[d][k], d, k) ELSE {})

Asked == UNION {UNION {About(d, k) : k \in DOMAIN http[d]} : d \in Direction}
Allowed == (WholeCalls \cap called) \cup Asked

AskedInv ==
    /\ Parsed
    /\ agenda \in Seq(Allowed)
    /\ \A e \in committed : Commit(e[2], e[1]) \in Asked

LEMMA InAsked ==
    ASSUME NEW c
    PROVE  c \in Asked <=> \E d \in Direction : \E k \in DOMAIN http[d] : c \in About(d, k)
  BY DEF Asked

LEMMA ListIn ==
    ASSUME NEW S, NEW T, S \subseteq T, NEW s \in Seq(S)
    PROVE  s \in Seq(T)
  OBVIOUS

(* What was asked for stays asked for. *)
LEMMA AllowedGrows ==
    ASSUME UNCHANGED <<doc, http>>, called \subseteq called'
    PROVE  Asked \subseteq Asked' /\ Allowed \subseteq Allowed'
PROOF
  <1>1. \A d, k : CommitAsked(d, k) => CommitAsked(d, k)'
    BY DEF CommitAsked, CommitsMessage
  <1>2. StructureAsked => StructureAsked'
    BY DEF StructureAsked
  <1>3. \A m, d : LeftOut(m, d)' = LeftOut(m, d)
    BY DEF LeftOut, IsLeftOut, LeafSpans, Leaves, Nodes
  <1>4. \A m, d, k : StructureOf(m, d, k)' = StructureOf(m, d, k)
    BY <1>3 DEF StructureOf
  <1>5. ASSUME NEW d \in Direction, NEW k \in DOMAIN http[d]
        PROVE  About(d, k) \subseteq About(d, k)'
    BY <1>1, <1>2, <1>4 DEF About
  <1>6. Asked \subseteq Asked'
    BY <1>5 DEF Asked
  <1> QED
    BY <1>6 DEF Allowed, WholeCalls

(* The calls about a message, by what they are about. *)
LEMMA AboutCalls ==
    ASSUME NEW d \in Direction, NEW k \in DOMAIN http[d], NEW c \in About(d, k)
    PROVE  LET m == http[d][k]
           IN  \/ CommitAsked(d, k) /\ c \in CallsWithin(Nodes(m), m.span, d)
               \/ CommitAsked(d, k) /\ \E j \in DOMAIN m.headers : c = HeaderCall(m.headers[j], d)
               \/ CommitAsked(d, k) /\ c = Call("commit_message", k, d)
               \/ StructureAsked /\ c \in StructureCallsWithin(Nodes(m), m.span \ LeftOut(m, d), d)
               \/ (CommitAsked(d, k) \/ StructureAsked) /\ c = Call("message_structure", k, d)
  BY DEF About, BelongingTo, StructureOf

LEMMA WhichRoutine ==
    ASSUME NEW c \in Allowed
    PROVE  /\ c.routine \in {"commit_structure", "pair_structure", "commit_value", "commit_key_value",
                             "commit", "commit_each", "commit_header", "commit_message",
                             "message_structure", "commit_transcript", "transcript_structure"}
           /\ c.routine = "commit_transcript" \/ c.routine = "transcript_structure" => c \in called
           /\ c.routine \notin {"commit_transcript", "transcript_structure"} => c \in Asked
           /\ \A d \in Direction : \A k \in DOMAIN http[d] : c \in About(d, k) =>
                 c.routine \notin {"commit_transcript", "transcript_structure"}
PROOF
  <1>1. ASSUME NEW d \in Direction, NEW k \in DOMAIN http[d], c \in About(d, k)
        PROVE  c.routine \in {"commit_structure", "pair_structure", "commit_value",
                              "commit_key_value", "commit", "commit_each", "commit_header",
                              "commit_message", "message_structure"}
    BY <1>1, AboutCalls DEF CallsWithin, StructureCallsWithin, HeaderCall, Call
  <1>2. CASE c \in WholeCalls \cap called
    BY <1>1, <1>2 DEF WholeCalls, Call
  <1>3. CASE c \in Asked
    BY <1>1, <1>3, InAsked
  <1> QED
    BY <1>1, <1>2, <1>3 DEF Allowed

LEMMA AboutAllowed ==
    ASSUME NEW d \in Direction, NEW k \in DOMAIN http[d], NEW s \in Seq(About(d, k))
    PROVE  s \in Seq(Allowed)
PROOF
  <1>1. About(d, k) \subseteq Allowed
    BY DEF Allowed, Asked
  <1> QED
    BY <1>1, ListIn

-------------------------------------------------------------------------------
(* Every call makes calls that are allowed. *)
LEMMA JsonCallsAllowed ==
    ASSUME Parsed, NEW c \in Allowed, NEW calls, Expands(c, calls)
    PROVE  calls \in Seq(Allowed)
PROOF
  <1>1. c.routine \in {"commit_structure", "pair_structure", "commit_value", "commit_key_value",
                       "commit_each"}
    BY DEF Expands
  <1>0. PICK d \in Direction : \E k \in DOMAIN http[d] : c \in About(d, k)
    BY <1>1, WhichRoutine, InAsked
  <1>2. PICK k \in DOMAIN http[d] : c \in About(d, k)
    BY <1>0
  <1>3. PICK m : m = http[d][k]
    OBVIOUS
  <1>4. PartsDisjoint(m) /\ ValuesInBody(doc, m)
    BY <1>3, MessageFacts
  <1>5. \/ CommitAsked(d, k) /\ c \in CallsWithin(Nodes(m), m.span, d)
        \/ StructureAsked /\ c \in StructureCallsWithin(Nodes(m), m.span \ LeftOut(m, d), d)
    <2>1. \A e, j : /\ HeaderCall(e, d).routine = "commit_header"
                    /\ Call("commit_message", j, d).routine = "commit_message"
                    /\ Call("message_structure", j, d).routine = "message_structure"
      BY DEF HeaderCall, Call
    <2> QED
      BY <1>1, <1>2, <1>3, <2>1, AboutCalls
  <1>6. CASE CommitAsked(d, k) /\ c \in CallsWithin(Nodes(m), m.span, d)
    <2>1. calls \in Seq(CallsWithin(Nodes(m), m.span, d))
      BY <1>4, <1>6, ValuesWithin, ExpandsWithin
    <2>2. CallsWithin(Nodes(m), m.span, d) \subseteq About(d, k)
      BY <1>3, <1>6 DEF About, BelongingTo
    <2> QED
      BY <2>1, <2>2, ListIn, AboutAllowed
  <1>7. CASE StructureAsked /\ c \in StructureCallsWithin(Nodes(m), m.span \ LeftOut(m, d), d)
    <2>1. calls \in Seq(StructureCallsWithin(Nodes(m), m.span \ LeftOut(m, d), d))
      BY <1>4, <1>7, ValuesWithin, StructureExpandsWithin
    <2>2. StructureCallsWithin(Nodes(m), m.span \ LeftOut(m, d), d) \subseteq About(d, k)
      BY <1>3, <1>7 DEF About, StructureOf
    <2> QED
      BY <2>1, <2>2, ListIn, AboutAllowed
  <1> QED
    BY <1>5, <1>6, <1>7

LEMMA TranscriptCallsAllowed ==
    ASSUME Parsed, NEW c \in called, c.routine = "commit_transcript"
    PROVE  TranscriptCalls \in Seq(Allowed)
PROOF
  <1>1. ASSUME NEW d \in Direction
        PROVE  [k \in DOMAIN http[d] |-> Call("commit_message", k, d)] \in Seq(Allowed)
    <2>1. Len(http[d]) \in Nat /\ DOMAIN http[d] = 1 .. Len(http[d])
      BY MessageFacts DEF IsSequence
    <2>2. ASSUME NEW k \in DOMAIN http[d]
          PROVE  Call("commit_message", k, d) \in Allowed
      <3>1. CommitAsked(d, k)
        BY DEF CommitAsked, CommitsMessage
      <3>2. Call("commit_message", k, d) \in About(d, k)
        BY <3>1 DEF About, BelongingTo
      <3> QED
        BY <3>2, InAsked DEF Allowed
    <2> QED
      BY <2>1, <2>2
  <1>2. /\ [k \in DOMAIN http["Sent"] |-> Call("commit_message", k, "Sent")] \in Seq(Allowed)
        /\ [k \in DOMAIN http["Received"] |-> Call("commit_message", k, "Received")] \in Seq(Allowed)
    BY <1>1 DEF Direction
  <1> QED
    BY <1>2, ListsTogether DEF TranscriptCalls

LEMMA TranscriptStructureAllowed ==
    ASSUME Parsed, NEW c \in called, c.routine = "transcript_structure"
    PROVE  TranscriptStructureCalls \in Seq(Allowed)
PROOF
  <1>1. ASSUME NEW d \in Direction
        PROVE  [k \in DOMAIN http[d] |-> Call("message_structure", k, d)] \in Seq(Allowed)
    <2>1. Len(http[d]) \in Nat /\ DOMAIN http[d] = 1 .. Len(http[d])
      BY MessageFacts DEF IsSequence
    <2>2. ASSUME NEW k \in DOMAIN http[d]
          PROVE  Call("message_structure", k, d) \in Allowed
      <3>1. StructureAsked
        BY DEF StructureAsked
      <3>2. Call("message_structure", k, d) \in About(d, k)
        BY <3>1 DEF About, StructureOf
      <3> QED
        BY <3>2, InAsked DEF Allowed
    <2> QED
      BY <2>1, <2>2
  <1>2. /\ [k \in DOMAIN http["Sent"] |-> Call("message_structure", k, "Sent")] \in Seq(Allowed)
        /\ [k \in DOMAIN http["Received"] |-> Call("message_structure", k, "Received")] \in Seq(Allowed)
    BY <1>1 DEF Direction
  <1> QED
    BY <1>2, ListsTogether DEF TranscriptStructureCalls

LEMMA MessageCallsAllowed ==
    ASSUME Parsed, NEW c \in Allowed, c.routine = "commit_message"
    PROVE  MessageCalls(http[c.direction][c.node], c.direction) \in Seq(Allowed)
PROOF
  <1>0. PICK d \in Direction : \E k \in DOMAIN http[d] : c \in About(d, k)
    BY WhichRoutine, InAsked
  <1>1. PICK k \in DOMAIN http[d] : c \in About(d, k)
    BY <1>0
  <1>2. CommitAsked(d, k) /\ c = Call("commit_message", k, d)
    BY <1>1, AboutCalls DEF CallsWithin, StructureCallsWithin, HeaderCall, Call
  <1>3. PICK m : m = http[d][k]
    OBVIOUS
  <1>4. PartsDisjoint(m) /\ ValuesInBody(doc, m) /\ BelongingTo(m, d, k) \subseteq About(d, k)
    BY <1>2, <1>3, MessageFacts DEF About
  <1>5. /\ \A T \in SUBSET m.span : Commit(T, d) \in About(d, k)
        /\ \A j \in DOMAIN m.headers : HeaderCall(m.headers[j], d) \in About(d, k)
        /\ \A n \in Nodes(m) : Call("commit_value", n, d) \in About(d, k)
    BY <1>4 DEF BelongingTo, CallsWithin, Commit, Call
  <1>6. MessageCalls(m, d) \in Seq(About(d, k))
    BY <1>4, <1>5, MessageCallsIn
  <1>7. c.direction = d /\ c.node = k
    BY <1>2 DEF Call
  <1> QED
    BY <1>3, <1>6, <1>7, AboutAllowed

LEMMA HeaderCallsAllowed ==
    ASSUME Parsed, NEW c \in Allowed, c.routine = "commit_header"
    PROVE  HeaderCalls(c.header, c.direction) \in Seq(Allowed)
PROOF
  <1>0. PICK d \in Direction : \E k \in DOMAIN http[d] : c \in About(d, k)
    BY WhichRoutine, InAsked
  <1>1. PICK k \in DOMAIN http[d] : c \in About(d, k)
    BY <1>0
  <1>2. PICK m : m = http[d][k]
    OBVIOUS
  <1>3. CommitAsked(d, k) /\ \E j \in DOMAIN m.headers : c = HeaderCall(m.headers[j], d)
    BY <1>1, <1>2, AboutCalls DEF CallsWithin, StructureCallsWithin, Call
  <1>4. PICK j \in DOMAIN m.headers : c = HeaderCall(m.headers[j], d)
    BY <1>3
  <1>5. PartsDisjoint(m) /\ BelongingTo(m, d, k) \subseteq About(d, k)
    BY <1>2, <1>3, MessageFacts DEF About
  <1>6. \A T \in SUBSET m.span : Commit(T, d) \in About(d, k)
    BY <1>5 DEF BelongingTo, CallsWithin, Commit
  <1>7. m.headers[j].span \subseteq m.span
    BY <1>5, HeadersApart
  <1>8. HeaderCalls(m.headers[j], d) \in Seq(About(d, k))
    BY <1>6, <1>7, HeaderCallsIn
  <1>9. c.header = m.headers[j] /\ c.direction = d
    BY <1>4 DEF HeaderCall
  <1> QED
    BY <1>8, <1>9, AboutAllowed

LEMMA MessageStructureAllowed ==
    ASSUME Parsed, NEW c \in Allowed, c.routine = "message_structure"
    PROVE  MessageStructure(http[c.direction][c.node], c.direction) \in Seq(Allowed)
PROOF
  <1>0. PICK d \in Direction : \E k \in DOMAIN http[d] : c \in About(d, k)
    BY WhichRoutine, InAsked
  <1>1. PICK k \in DOMAIN http[d] : c \in About(d, k)
    BY <1>0
  <1>2. (CommitAsked(d, k) \/ StructureAsked) /\ c = Call("message_structure", k, d)
    BY <1>1, AboutCalls DEF CallsWithin, StructureCallsWithin, HeaderCall, Call
  <1>3. PICK m : m = http[d][k]
    OBVIOUS
  <1>4. PartsDisjoint(m) /\ ValuesInBody(doc, m)
    BY <1>3, MessageFacts
  <1>5. \/ CallsWithin(Nodes(m), m.span, d) \subseteq About(d, k)
        \/ StructureCallsWithin(Nodes(m), m.span \ LeftOut(m, d), d) \subseteq About(d, k)
    BY <1>2, <1>3 DEF About, BelongingTo, StructureOf
  <1>6. /\ \A T \in SUBSET (m.span \ LeftOut(m, d)) : Commit(T, d) \in About(d, k)
        /\ \A n \in Nodes(m) : Call("commit_structure", n, d) \in About(d, k)
    BY <1>5 DEF CallsWithin, StructureCallsWithin, Commit, Call
  <1>7. MessageStructure(m, d) \in Seq(About(d, k))
    BY <1>4, <1>6, MessageStructureIn
  <1>8. c.direction = d /\ c.node = k
    BY <1>2 DEF Call
  <1> QED
    BY <1>3, <1>7, <1>8, AboutAllowed

LEMMA CallsAllowed ==
    ASSUME Parsed, NEW c \in Allowed, NEW calls, Makes(c, calls)
    PROVE  calls \in Seq(Allowed)
  BY JsonCallsAllowed, TranscriptCallsAllowed, TranscriptStructureAllowed, MessageCallsAllowed,
     HeaderCallsAllowed, MessageStructureAllowed, WhichRoutine DEF Makes

(* The builder takes what a call on the agenda says. *)
LEMMA AcceptedIsAsked ==
    ASSUME NEW c \in Allowed, c.routine = "commit"
    PROVE  Commit(c.ranges, c.direction) \in Asked
PROOF
  <1>1. PICK d \in Direction : \E k \in DOMAIN http[d] : c \in About(d, k)
    BY WhichRoutine, InAsked
  <1>2. PICK k \in DOMAIN http[d] : c \in About(d, k)
    BY <1>1
  <1>3. \A e, j : /\ HeaderCall(e, d).routine = "commit_header"
                  /\ Call("commit_message", j, d).routine = "commit_message"
                  /\ Call("message_structure", j, d).routine = "message_structure"
    BY DEF HeaderCall, Call
  <1>4. PICK m : m = http[d][k]
    OBVIOUS
  <1>5. \/ c \in CallsWithin(Nodes(m), m.span, d)
        \/ c \in StructureCallsWithin(Nodes(m), m.span \ LeftOut(m, d), d)
    BY <1>2, <1>3, <1>4, AboutCalls
  <1>6. c = Commit(c.ranges, c.direction)
    BY <1>5 DEF CallsWithin, StructureCallsWithin, Commit
  <1> QED
    BY <1>2, <1>6, InAsked

-------------------------------------------------------------------------------
LEMMA Keeps ==
    ASSUME AskedInv, UNCHANGED <<doc, http>>, called \subseteq called',
           agenda' \in Seq(Allowed) \/ agenda' \in Seq(Allowed'),
           \A e \in committed' : e \in committed \/ Commit(e[2], e[1]) \in Asked
    PROVE  AskedInv'
PROOF
  <1>1. Asked \subseteq Asked' /\ Allowed \subseteq Allowed'
    BY AllowedGrows
  <1>2. agenda' \in Seq(Allowed')
    BY <1>1, ListIn
  <1>3. Parsed'
    BY DEF AskedInv, Parsed, WellParsed, ValuesInBody
  <1>4. \A e : Commit(e[2], e[1])' = Commit(e[2], e[1])
    BY DEF Commit
  <1>5. \A e \in committed' : Commit(e[2], e[1]) \in Asked'
    BY <1>1 DEF AskedInv
  <1> QED
    BY <1>2, <1>3, <1>5 DEF AskedInv

(* The transcripts of HttpCommit are as the parser yields them. *)
LEMMA CommitInitParsed == CommitInit => Parsed /\ NothingCalled
  BY ParsesAssumption DEF CommitInit, Parsed

LEMMA AskedInit == Parsed /\ NothingCalled => AskedInv
  BY DEF NothingCalled, AskedInv

LEMMA AskedCall ==
    ASSUME AskedInv, NEW call \in AllCalls, CallCommitter(call)
    PROVE  AskedInv'
PROOF
  <1>1. /\ UNCHANGED <<doc, http, committed>> /\ called' = called \cup {call}
        /\ agenda' = <<call>>
    BY DEF CallCommitter
  <1>2. call \in Allowed'
    <2>1. CASE call \in WholeCalls
      BY <1>1, <2>1 DEF Allowed, WholeCalls
    <2>2. CASE \E d \in Direction : call \in MessageCallsOf(d)
      <3>1. PICK d \in Direction : \E k \in DOMAIN http[d] : call = Call("commit_message", k, d)
        BY <2>2 DEF MessageCallsOf
      <3>2. PICK k \in DOMAIN http[d] : call = Call("commit_message", k, d)
        BY <3>1
      <3>3. CommitsMessage(call, d, k)
        BY <3>2 DEF CommitsMessage, Call
      <3>4. CommitAsked(d, k)'
        BY <1>1, <3>3 DEF CommitAsked, CommitsMessage
      <3>5. call \in About(d, k)'
        BY <1>1, <3>2, <3>4 DEF About, BelongingTo
      <3> QED
        BY <1>1, <3>5 DEF Allowed, Asked
    <2> QED
      BY <2>1, <2>2 DEF AllCalls
  <1>3. agenda' \in Seq(Allowed')
    BY <1>1, <1>2
  <1> QED
    BY <1>1, <1>3, Keeps

LEMMA AskedStep ==
    ASSUME AskedInv, HttpStep, UNCHANGED <<calling, called, completed>>
    PROVE  AskedInv'
PROOF
  <1> USE DEF AskedInv
  <1>1. agenda # << >> /\ UNCHANGED <<doc, http>>
    BY HttpStepCases DEF HttpStep, Becomes, Fails, Accepts
  <1>2. PICK c \in Allowed : c = Head(agenda)
    BY <1>1
  <1>3. Tail(agenda) \in Seq(Allowed)
    BY <1>1
  <1>4. CASE \E calls : Makes(c, calls) /\ Becomes(calls)
    <2>1. PICK calls : Makes(c, calls) /\ Becomes(calls)
      BY <1>4
    <2>2. calls \in Seq(Allowed)
      BY <2>1, CallsAllowed
    <2>3. agenda' \in Seq(Allowed) /\ UNCHANGED committed
      BY <1>3, <2>1, <2>2, ListsTogether DEF Becomes
    <2> QED
      BY <1>1, <2>3, Keeps
  <1>5. CASE Fails
    <2>1. agenda' \in Seq(Allowed) /\ UNCHANGED committed
      BY <1>5 DEF Fails
    <2> QED
      BY <1>1, <2>1, Keeps
  <1>6. CASE Accepts(c)
    <2>1. /\ c.routine = "commit" /\ committed' = committed \cup {<<c.direction, c.ranges>>}
          /\ agenda' \in Seq(Allowed)
      BY <1>3, <1>6 DEF Accepts
    <2>2. Commit(c.ranges, c.direction) \in Asked
      BY <2>1, AcceptedIsAsked
    <2>3. \A e \in committed' : e \in committed \/ Commit(e[2], e[1]) \in Asked
      BY <2>1, <2>2
    <2> QED
      BY <1>1, <2>1, <2>3, Keeps
  <1> QED
    BY <1>2, <1>4, <1>5, <1>6, HttpStepCases

LEMMA AskedReturn ==
    ASSUME AskedInv, Return \/ UNCHANGED callVars
    PROVE  AskedInv'
PROOF
  <1>1. UNCHANGED <<doc, http, agenda, committed, called>>
    BY DEF Return, callVars
  <1>2. agenda' \in Seq(Allowed)
    BY <1>1 DEF AskedInv
  <1> QED
    BY <1>1, <1>2, Keeps

LEMMA AskedNext == AskedInv /\ [CommitNext]_callVars => AskedInv'
  BY AskedCall, AskedStep, AskedReturn DEF CommitNext, MakeCall, Step

-------------------------------------------------------------------------------
LEMMA CommitmentFacts ==
    ASSUME AskedInv, NEW e \in committed
    PROVE  /\ e[1] \in Direction
           /\ \E k \in DOMAIN http[e[1]] :
                 \/ CommitAsked(e[1], k) /\ e[2] \subseteq http[e[1]][k].span
                 \/ StructureAsked /\ e[2] \subseteq http[e[1]][k].span \ LeftOut(http[e[1]][k], e[1])
PROOF
  <1>1. PICK c : c = Commit(e[2], e[1])
    OBVIOUS
  <1>2. c.routine = "commit" /\ c.ranges = e[2] /\ c.direction = e[1]
    BY <1>1 DEF Commit
  <1>3. PICK d \in Direction : \E k \in DOMAIN http[d] : c \in About(d, k)
    BY <1>1, InAsked DEF AskedInv
  <1>4. PICK k \in DOMAIN http[d] : c \in About(d, k)
    BY <1>3
  <1>5. PICK m : m = http[d][k]
    OBVIOUS
  <1>6. \A h, j : /\ HeaderCall(h, d).routine = "commit_header"
                  /\ Call("commit_message", j, d).routine = "commit_message"
                  /\ Call("message_structure", j, d).routine = "message_structure"
    BY DEF HeaderCall, Call
  <1>7. \/ CommitAsked(d, k) /\ c \in CallsWithin(Nodes(m), m.span, d)
        \/ StructureAsked /\ c \in StructureCallsWithin(Nodes(m), m.span \ LeftOut(m, d), d)
    BY <1>2, <1>4, <1>5, <1>6, AboutCalls
  <1>8. /\ c.direction = d
        /\ \/ CommitAsked(d, k) /\ c.ranges \subseteq m.span
           \/ StructureAsked /\ c.ranges \subseteq m.span \ LeftOut(m, d)
    BY <1>2, <1>7 DEF CallsWithin, StructureCallsWithin
  <1> QED
    BY <1>2, <1>5, <1>8

(* No commitment joins bytes of two messages, or of none, and it is about a *)
(* message that a call asked for, wherever calls failed before.             *)
THEOREM CommitmentsKeepApart == CommitSpec => []OneMessage
PROOF
  <1>1. AskedInv => OneMessage
    BY CommitmentFacts DEF OneMessage, CommitAsked, StructureAsked
  <1> QED
    BY CommitInitParsed, AskedInit, AskedNext, <1>1, PTL DEF CommitSpec

(* Unless a message was committed itself, no commitment holds a byte of its *)
(* JSON values or of a header value that does not frame it.                 *)
THEOREM StructureSaysNothing == CommitSpec => []StructureHides
PROOF
  <1>1. ASSUME AskedInv, NEW d \in Direction, NEW k \in DOMAIN http[d], ~ CommitAsked(d, k)
        PROVE  LeftOut(http[d][k], d) \cap Committed(d) = {}
    <2>1. ASSUME NEW i \in LeftOut(http[d][k], d), i \in Committed(d)
          PROVE  FALSE
      <3>1. PICK e \in committed : e[1] = d /\ i \in e[2]
        BY <2>1 DEF Committed
      <3>2. PICK j \in DOMAIN http[d] :
                \/ CommitAsked(d, j) /\ e[2] \subseteq http[d][j].span
                \/ StructureAsked /\ e[2] \subseteq http[d][j].span \ LeftOut(http[d][j], d)
        BY <1>1, <3>1, CommitmentFacts
      <3>3. j # k
        BY <1>1, <2>1, <3>1, <3>2
      <3>4. i \in http[d][k].span /\ i \in http[d][j].span
        BY <1>1, <2>1, <3>1, <3>2, MessageFacts, LeftOutIsInside DEF AskedInv
      <3> QED
        BY <1>1, <3>3, <3>4, MessageFacts DEF AskedInv
    <2> QED
      BY <2>1
  <1>2. AskedInv => StructureHides
    BY <1>1 DEF StructureHides, CommitAsked
  <1> QED
    BY CommitInitParsed, AskedInit, AskedNext, <1>2, PTL DEF CommitSpec

-------------------------------------------------------------------------------
(* What can be opened.  While a call is under way, every byte that it owes  *)
(* is openable already or will be by one of the calls on the agenda, which  *)
(* promises it.                                                             *)

(* The sets of bytes of a message that may be hidden, and what is left.     *)
HiddenSets(m) == {UNION kept : kept \in SUBSET Parts(m)}
Rest(m, H) == m.span \ (H \cup Loose(m))

LEMMA LeavesOfMessage ==
    ASSUME NEW m, ValuesInBody(doc, m)
    PROVE  /\ \A l \in Leaves(m) : l \in Nodes(m) /\ doc[l].span \subseteq m.body
           /\ \A l, n \in Leaves(m) : l # n => doc[l].span \cap doc[n].span = {}
PROOF
  <1>1. PICK D : D = [v \in Nodes(m) |-> doc[v]]
    OBVIOUS
  <1>2. WellNested(D) /\ DOMAIN D = Nodes(m) /\ \A v \in Nodes(m) : D[v] = doc[v]
    BY <1>1 DEF ValuesInBody
  <1>3. \A l \in Leaves(m) : l \in Nodes(m) /\ doc[l].span \subseteq m.body
    BY DEF Leaves, ValuesInBody
  <1>4. \A l, n \in Leaves(m) : l # n => doc[l].span \cap doc[n].span = {}
    BY <1>2, <1>3 DEF WellNested, LeavesApart, Leaves, IsContainer
  <1> QED
    BY <1>3, <1>4

(* A hidden set holds each of these parts or nothing of it, and nothing     *)
(* else.                                                                    *)
LEMMA HiddenParts ==
    ASSUME NEW m, PartsDisjoint(m), ValuesInBody(doc, m), NEW H \in HiddenSets(m)
    PROVE  /\ WithoutData(m) \cap H = {}
           /\ m.target \subseteq H \/ m.target \cap H = {}
           /\ \A k \in DOMAIN m.headers :
                 \/ m.headers[k].span \cap H = {}
                 \/ m.headers[k].span \cap H = m.headers[k].value
           /\ \A l \in Leaves(m) : doc[l].span \subseteq H \/ doc[l].span \cap H = {}
           /\ \A i \in m.body \cap H : \E l \in Leaves(m) : i \in doc[l].span
PROOF
  <1>1. PICK kept \in SUBSET Parts(m) : H = UNION kept
    BY DEF HiddenSets
  <1>2. /\ \A p \in kept : \/ p = m.target
                           \/ \E k \in DOMAIN m.headers : p = m.headers[k].value
                           \/ \E l \in Leaves(m) : p = doc[l].span
        /\ \A i : i \in H <=> \E p \in kept : i \in p
    BY <1>1 DEF Parts, HeaderValues, LeafSpans
  <1>3. /\ m.target \cap m.body = {} /\ m.target \subseteq m.span /\ m.body \subseteq m.span
    BY DEF PartsDisjoint
  <1>4. WithoutData(m) \cap H = {}
    <2>1. \A p \in kept : WithoutData(m) \cap p = {}
      BY <1>2, HeadersApart, LeavesOfMessage DEF WithoutData
    <2> QED
      BY <1>2, <2>1
  <1>5. m.target \subseteq H \/ m.target \cap H = {}
    <2>1. CASE m.target \in kept
      BY <1>2, <2>1
    <2>2. CASE m.target \notin kept
      <3>1. \A p \in kept : m.target \cap p = {}
        BY <1>2, <1>3, <2>2, HeadersApart, LeavesOfMessage
      <3> QED
        BY <1>2, <3>1
    <2> QED
      BY <2>1, <2>2
  <1>6. ASSUME NEW k \in DOMAIN m.headers
        PROVE  \/ m.headers[k].span \cap H = {}
               \/ m.headers[k].span \cap H = m.headers[k].value
    <2>1. \A p \in kept : p = m.headers[k].value \/ m.headers[k].span \cap p = {}
      <3>1. \A l \in Leaves(m) : m.headers[k].span \cap doc[l].span = {}
        BY HeadersApart, LeavesOfMessage
      <3>2. \A j \in DOMAIN m.headers \ {k} : m.headers[k].span \cap m.headers[j].value = {}
        BY HeadersApart
      <3> QED
        BY <1>2, <3>1, <3>2, HeadersApart
    <2>2. m.headers[k].value \subseteq m.headers[k].span
      BY HeadersApart
    <2>3. CASE m.headers[k].value \in kept
      BY <1>2, <2>1, <2>2, <2>3
    <2>4. CASE m.headers[k].value \notin kept
      BY <1>2, <2>1, <2>4
    <2> QED
      BY <2>3, <2>4
  <1>7. ASSUME NEW l \in Leaves(m)
        PROVE  doc[l].span \subseteq H \/ doc[l].span \cap H = {}
    <2>1. \A p \in kept : p = doc[l].span \/ doc[l].span \cap p = {}
      <3>1. doc[l].span \subseteq m.body
        BY LeavesOfMessage
      <3>2. \A k \in DOMAIN m.headers : m.headers[k].value \cap doc[l].span = {}
        BY <3>1, HeadersApart
      <3> QED
        BY <1>2, <1>3, <3>1, <3>2, LeavesOfMessage
    <2> QED
      BY <1>2, <2>1
  <1>8. ASSUME NEW i \in m.body \cap H
        PROVE  \E l \in Leaves(m) : i \in doc[l].span
    <2>1. PICK p \in kept : i \in p
      BY <1>2
    <2> QED
      BY <1>2, <1>3, <2>1, HeadersApart
  <1> QED
    BY <1>4, <1>5, <1>6, <1>7, <1>8

LEMMA HiddenValues ==
    ASSUME NEW m, PartsDisjoint(m), ValuesInBody(doc, m), NEW H \in HiddenSets(m)
    PROVE  Selective(Nodes(m), H)
PROOF
  <1>1. ASSUME NEW n \in Nodes(m)
        PROVE  /\ doc[n].elems \in Seq(Nodes(m))
               /\ WithoutValue(n) \cap H = {}
               /\ doc[n].kind = "Object" => WithoutPairs(n) \cap H = {}
               /\ doc[n].kind = "Array" => WithoutValues(n) \cap H = {} /\ Separators(n) \cap H = {}
               /\ doc[n].kind = "Array" /\ doc[n].elems = << >> => doc[n].span \cap H = {}
               /\ doc[n].kind = "Primitive" => doc[n].span \subseteq H \/ doc[n].span \cap H = {}
    <2>1. /\ doc[n].elems \in Seq(Nodes(m)) /\ n \in DOMAIN doc /\ doc[n].span \in SUBSET Nat
          /\ doc[n].span \subseteq m.body /\ doc[n].pair \subseteq m.body
      BY ValueFacts
    <2>2. /\ WithoutPairs(n) \subseteq m.body /\ WithoutValue(n) \subseteq m.body
          /\ WithoutValues(n) \subseteq m.body /\ Separators(n) \subseteq m.body
      BY <2>1, PartsWithin
    <2>3. ASSUME NEW l \in Leaves(m)
          PROVE  /\ WithoutValue(n) \cap doc[l].span = {}
                 /\ doc[n].kind = "Object" => WithoutPairs(n) \cap doc[l].span = {}
                 /\ doc[n].kind = "Array" => WithoutValues(n) \cap doc[l].span = {}
                 /\ doc[n].kind = "Array" => Separators(n) \cap doc[l].span = {}
                 /\ doc[n].kind = "Array" /\ doc[n].elems = << >> => doc[n].span \cap doc[l].span = {}
      <3>1. l \in DOMAIN doc
        BY DEF Leaves, ValuesInBody
      <3>2. doc[n].elems = << >> => Elems(n) = {}
        BY DEF Elems
      <3>3. doc[n].kind = "Array" /\ doc[n].elems = << >> => doc[n].span \cap doc[l].span = {}
        BY <3>2, ValueFacts DEF IsContainer
      <3> QED
        BY <3>1, <3>3, ValueFacts, StructureParts
    <2>4. \A i \in m.body \cap H : \E l \in Leaves(m) : i \in doc[l].span
      BY HiddenParts
    <2>5. doc[n].kind = "Primitive" => doc[n].span \subseteq H \/ doc[n].span \cap H = {}
      <3>1. doc[n].kind = "Primitive" => n \in Leaves(m)
        BY DEF Leaves
      <3> QED
        BY <3>1, HiddenParts
    <2> QED
      BY <2>1, <2>2, <2>3, <2>4, <2>5
  <1>2. ASSUME NEW n \in Nodes(m)
        PROVE  doc[n].kind \in {"Object", "Array", "Primitive", "Redacted"}
    <2>1. PICK D : D = [v \in Nodes(m) |-> doc[v]]
      OBVIOUS
    <2>2. WellNested(D) /\ DOMAIN D = Nodes(m) /\ \A v \in Nodes(m) : D[v] = doc[v]
      BY <2>1 DEF ValuesInBody
    <2> QED
      BY <2>2 DEF WellNested, Shaped
  <1> QED
    BY <1>1, <1>2 DEF Selective

(* What commit_structure leaves out is such a set, with all primitive       *)
(* values and the value of every header that it does not commit in full.    *)
LEMMA LeftOutHidden ==
    ASSUME NEW m, NEW d, PartsDisjoint(m), ValuesInBody(doc, m)
    PROVE  /\ LeftOut(m, d) \in HiddenSets(m)
           /\ LeavesHidden(Nodes(m), LeftOut(m, d))
           /\ m.target \cap LeftOut(m, d) = {}
           /\ \A k \in DOMAIN m.headers :
                 IF IsLeftOut(m, d, k)
                 THEN m.headers[k].span \cap LeftOut(m, d) = m.headers[k].value
                 ELSE m.headers[k].span \cap LeftOut(m, d) = {}
PROOF
  <1>1. PICK J : J = {j \in DOMAIN m.headers : IsLeftOut(m, d, j)}
    OBVIOUS
  <1>2. PICK V : V = {m.headers[j].value : j \in J}
    OBVIOUS
  <1>3. PICK H : H = LeftOut(m, d)
    OBVIOUS
  <1>4. H = (UNION LeafSpans(m)) \cup UNION V
    BY <1>1, <1>2, <1>3 DEF LeftOut
  <1>5. H \in HiddenSets(m)
    <2>1. H = UNION (LeafSpans(m) \cup V)
      BY <1>4
    <2>2. LeafSpans(m) \cup V \subseteq Parts(m)
      BY <1>1, <1>2 DEF Parts, HeaderValues
    <2> QED
      BY <2>1, <2>2 DEF HiddenSets
  <1>6. \A i : i \in H <=> \/ \E l \in Leaves(m) : i \in doc[l].span
                           \/ \E j \in J : i \in m.headers[j].value
    BY <1>2, <1>4 DEF LeafSpans
  <1>7. LeavesHidden(Nodes(m), H)
    BY <1>6 DEF LeavesHidden, Leaves, IsContainer
  <1>8. m.target \cap m.body = {}
    BY DEF PartsDisjoint
  <1>9. m.target \cap H = {}
    BY <1>1, <1>6, <1>8, HeadersApart, LeavesOfMessage
  <1>10. ASSUME NEW k \in DOMAIN m.headers
         PROVE  IF k \in J THEN m.headers[k].span \cap H = m.headers[k].value
                ELSE m.headers[k].span \cap H = {}
    <2>1. \A l \in Leaves(m) : m.headers[k].span \cap doc[l].span = {}
      BY HeadersApart, LeavesOfMessage
    <2>2. \A j \in J \ {k} : m.headers[k].span \cap m.headers[j].value = {}
      BY <1>1, HeadersApart
    <2>3. m.headers[k].value \subseteq m.headers[k].span
      BY HeadersApart
    <2> QED
      BY <1>6, <2>1, <2>2, <2>3
  <1> QED
    BY <1>1, <1>3, <1>5, <1>7, <1>9, <1>10

-------------------------------------------------------------------------------
(* A call promises to make position i of message k openable without H: as a *)
(* call of the JSON committer or of the builder, or as a call about a part  *)
(* of the message that holds i.                                             *)
Promises(x, d, k, i, H) ==
    LET m == http[d][k]
    IN  \/ x.routine = "commit_transcript" /\ m.headers # << >>
        \/ x.routine = "transcript_structure" /\ H = LeftOut(m, d)
        \/ x = Call("commit_message", k, d) /\ m.headers # << >>
        \/ x = Call("message_structure", k, d) /\ H = LeftOut(m, d)
        \/ \E j \in DOMAIN m.headers : x = HeaderCall(m.headers[j], d) /\ i \in m.headers[j].span
        \/ x.direction = d /\ Carries(Nodes(m), x, i, H)

LEMMA PromisesOfCall ==
    ASSUME NEW d, NEW k, NEW i, NEW H, NEW n, NEW S
    PROVE  /\ i \in S /\ S \cap H = {} => Promises(Commit(S, d), d, k, i, H)
           /\ n \in Nodes(http[d][k]) /\ i \in doc[n].span => Promises(Call("commit_value", n, d), d, k, i, H)
           /\ n \in Nodes(http[d][k]) /\ i \in doc[n].span /\ LeavesHidden(Nodes(http[d][k]), H) =>
                 Promises(Call("commit_structure", n, d), d, k, i, H)
PROOF
  <1>1. Commit(S, d).direction = d /\ \A r : Call(r, n, d).direction = d
    BY DEF Commit, Call
  <1>2. PICK N : N = Nodes(http[d][k])
    OBVIOUS
  <1>3. /\ i \in S /\ S \cap H = {} => Carries(N, Commit(S, d), i, H)
        /\ n \in N /\ i \in doc[n].span => Carries(N, Call("commit_value", n, d), i, H)
        /\ n \in N /\ i \in doc[n].span /\ LeavesHidden(N, H) => Carries(N, Call("commit_structure", n, d), i, H)
    BY CarriesOfCall
  <1> QED
    BY <1>1, <1>2, <1>3 DEF Promises

(* The parts of a message: a byte that is owed lies in one of them.         *)
LEMMA WhichPart ==
    ASSUME NEW m, ValuesInBody(doc, m), NEW H, NEW i \in Rest(m, H)
    PROVE  /\ i \notin H
           /\ \/ i \in WithoutData(m)
              \/ i \in m.target
              \/ \E j \in DOMAIN m.headers : i \in m.headers[j].span
              \/ m.json # << >> /\ m.json[1] \in Nodes(m) /\ i \in doc[m.json[1]].span
              \/ m.json = << >> /\ i \in m.body
PROOF
  <1>1. i \in m.span /\ i \notin H /\ (m.json # << >> => i \notin m.body \/ i \in doc[m.json[1]].span)
    BY DEF Rest, Loose
  <1>2. m.json # << >> => m.json[1] \in Nodes(m)
    BY DEF ValuesInBody
  <1>3. i \notin m.target /\ i \notin m.body /\ (\A j \in DOMAIN m.headers : i \notin m.headers[j].span)
            => i \in WithoutData(m)
    BY <1>1 DEF WithoutData
  <1> QED
    BY <1>1, <1>2, <1>3

(* Calls about the parts of a message. *)
PartCalls(m, d) ==
    {Commit(T, d) : T \in SUBSET m.span}
        \cup {HeaderCall(m.headers[j], d) : j \in DOMAIN m.headers}
        \cup {Call("commit_value", n, d) : n \in Nodes(m)}
        \cup {Call("commit_structure", n, d) : n \in Nodes(m)}

LEMMA MessageKeepsPromise ==
    ASSUME NEW d \in Direction, NEW k, NEW m, m = http[d][k],
           PartsDisjoint(m), ValuesInBody(doc, m), d = "Received" => m.target = {},
           m.headers # << >>, NEW H \in HiddenSets(m), NEW i \in Rest(m, H)
    PROVE  \E y \in Items(MessageCalls(m, d)) : Promises(y, d, k, i, H)
PROOF
  <1>1. PICK S : S = PartCalls(m, d)
    OBVIOUS
  <1>2. /\ \A T \in SUBSET m.span : Commit(T, d) \in S
        /\ \A j \in DOMAIN m.headers : HeaderCall(m.headers[j], d) \in S
        /\ \A n \in Nodes(m) : Call("commit_value", n, d) \in S
    BY <1>1 DEF PartCalls
  <1>3. PICK A : A = Items(MessageCalls(m, d))
    OBVIOUS
  <1>4. /\ Commit(WithoutData(m), d) \in A
        /\ d = "Sent" => Commit(m.target, d) \in A
        /\ \A j \in DOMAIN m.headers : HeaderCall(m.headers[j], d) \in A
        /\ m.json # << >> => Call("commit_value", m.json[1], d) \in A
        /\ m.json = << >> /\ m.body # {} => Commit(m.body, d) \in A
    BY <1>2, <1>3, MessageCallsIn
  <1>5. i \notin H
    BY WhichPart
  <1>6. CASE i \in WithoutData(m)
    <2>1. WithoutData(m) \cap H = {}
      BY HiddenParts
    <2>2. Promises(Commit(WithoutData(m), d), d, k, i, H)
      BY <1>6, <2>1, PromisesOfCall
    <2> QED
      BY <1>3, <1>4, <2>2
  <1>7. CASE i \in m.target
    <2>1. m.target \cap H = {} /\ d = "Sent"
      BY <1>5, <1>7, HiddenParts DEF Direction
    <2> QED
      BY <1>3, <1>4, <1>7, <2>1, PromisesOfCall
  <1>8. CASE \E j \in DOMAIN m.headers : i \in m.headers[j].span
    <2>1. PICK j \in DOMAIN m.headers : i \in m.headers[j].span
      BY <1>8
    <2>2. PICK y : y = HeaderCall(m.headers[j], d)
      OBVIOUS
    <2>3. Promises(y, d, k, i, H)
      BY <2>1, <2>2 DEF Promises
    <2> QED
      BY <1>3, <1>4, <2>2, <2>3
  <1>9. CASE m.json # << >> /\ m.json[1] \in Nodes(m) /\ i \in doc[m.json[1]].span
    BY <1>3, <1>4, <1>9, PromisesOfCall
  <1>10. CASE m.json = << >> /\ i \in m.body
    <2>1. Leaves(m) = {}
      BY <1>10 DEF Nodes, Leaves
    <2>2. m.body \cap H = {}
      BY <2>1, HiddenParts
    <2> QED
      BY <1>3, <1>4, <1>10, <2>2, PromisesOfCall
  <1> QED
    BY <1>6, <1>7, <1>8, <1>9, <1>10, WhichPart

LEMMA StructureKeepsPromise ==
    ASSUME NEW d \in Direction, NEW k, NEW m, m = http[d][k],
           PartsDisjoint(m), ValuesInBody(doc, m), d = "Received" => m.target = {},
           NEW H, H = LeftOut(m, d), NEW i \in Rest(m, H)
    PROVE  \E y \in Items(MessageStructure(m, d)) : Promises(y, d, k, i, H)
PROOF
  <1>1. PICK S : S = PartCalls(m, d)
    OBVIOUS
  <1>2. /\ \A T \in SUBSET (m.span \ LeftOut(m, d)) : Commit(T, d) \in S
        /\ \A n \in Nodes(m) : Call("commit_structure", n, d) \in S
    BY <1>1 DEF PartCalls
  <1>3. PICK A : A = Items(MessageStructure(m, d))
    OBVIOUS
  <1>4. /\ Commit(WithoutData(m), d) \in A
        /\ d = "Sent" => Commit(m.target, d) \in A
        /\ \A j \in DOMAIN m.headers :
              IF IsLeftOut(m, d, j) THEN Commit(WithoutHeaderValue(m.headers[j]), d) \in A
              ELSE Commit(m.headers[j].span, d) \in A
        /\ m.json # << >> => Call("commit_structure", m.json[1], d) \in A
        /\ m.json = << >> /\ m.body # {} => Commit(m.body, d) \in A
    BY <1>2, <1>3, MessageStructureIn
  <1>5. i \notin H /\ H \in HiddenSets(m) /\ LeavesHidden(Nodes(m), H) /\ m.target \cap H = {}
    BY WhichPart, LeftOutHidden
  <1>6. CASE i \in WithoutData(m)
    <2>1. WithoutData(m) \cap H = {}
      BY <1>5, HiddenParts
    <2>2. Promises(Commit(WithoutData(m), d), d, k, i, H)
      BY <1>6, <2>1, PromisesOfCall
    <2> QED
      BY <1>3, <1>4, <2>2
  <1>7. CASE i \in m.target
    <2>1. d = "Sent"
      BY <1>7 DEF Direction
    <2> QED
      BY <1>3, <1>4, <1>5, <1>7, <2>1, PromisesOfCall
  <1>8. CASE \E j \in DOMAIN m.headers : i \in m.headers[j].span
    <2>1. PICK j \in DOMAIN m.headers : i \in m.headers[j].span
      BY <1>8
    <2>2. PICK h : h = m.headers[j]
      OBVIOUS
    <2>3. CASE ~ IsLeftOut(m, d, j)
      <3>1. h.span \cap H = {} /\ Commit(h.span, d) \in A
        BY <1>4, <2>2, <2>3, LeftOutHidden
      <3> QED
        BY <1>3, <2>1, <2>2, <3>1, PromisesOfCall
    <2>4. CASE IsLeftOut(m, d, j)
      <3>1. h.span \cap H = h.value /\ Commit(WithoutHeaderValue(h), d) \in A
        BY <1>4, <2>2, <2>4, LeftOutHidden
      <3>2. i \in WithoutHeaderValue(h) /\ WithoutHeaderValue(h) \cap H = {}
        BY <1>5, <2>1, <2>2, <3>1 DEF WithoutHeaderValue
      <3> QED
        BY <1>3, <3>1, <3>2, PromisesOfCall
    <2> QED
      BY <2>3, <2>4
  <1>9. CASE m.json # << >> /\ m.json[1] \in Nodes(m) /\ i \in doc[m.json[1]].span
    BY <1>3, <1>4, <1>5, <1>9, PromisesOfCall
  <1>10. CASE m.json = << >> /\ i \in m.body
    <2>1. Leaves(m) = {}
      BY <1>10 DEF Nodes, Leaves
    <2>2. m.body \cap H = {}
      BY <1>5, <2>1, HiddenParts
    <2> QED
      BY <1>3, <1>4, <1>10, <2>2, PromisesOfCall
  <1> QED
    BY <1>6, <1>7, <1>8, <1>9, <1>10, WhichPart

LEMMA HeaderKeepsPromise ==
    ASSUME NEW d, NEW k, NEW h, NEW H, NEW i \in h.span \ H,
           h.span \cap H = {} \/ h.span \cap H = h.value
    PROVE  \E y \in Items(HeaderCalls(h, d)) : Promises(y, d, k, i, H)
PROOF
  <1>1. PICK S : S = {Commit(T, d) : T \in SUBSET h.span}
    OBVIOUS
  <1>2. \A T \in SUBSET h.span : Commit(T, d) \in S
    BY <1>1
  <1>3. /\ Commit(h.span, d) \in Items(HeaderCalls(h, d))
        /\ h.value # {} => Commit(WithoutHeaderValue(h), d) \in Items(HeaderCalls(h, d))
    BY <1>2, HeaderCallsIn
  <1>4. CASE h.span \cap H = {}
    BY <1>3, <1>4, PromisesOfCall
  <1>5. CASE h.span \cap H = h.value /\ h.value # {}
    <2>1. i \in WithoutHeaderValue(h) /\ WithoutHeaderValue(h) \cap H = {}
      BY <1>5 DEF WithoutHeaderValue
    <2> QED
      BY <1>3, <1>5, <2>1, PromisesOfCall
  <1> QED
    BY <1>4, <1>5

LEMMA TranscriptItems ==
    ASSUME Parsed, NEW d \in Direction, NEW k \in DOMAIN http[d]
    PROVE  /\ Call("commit_message", k, d) \in Items(TranscriptCalls)
           /\ Call("message_structure", k, d) \in Items(TranscriptStructureCalls)
PROOF
  <1>1. ASSUME NEW routine
        PROVE  Call(routine, k, d) \in Items([j \in DOMAIN http["Sent"] |-> Call(routine, j, "Sent")]
                                               \o [j \in DOMAIN http["Received"] |-> Call(routine, j, "Received")])
    <2>1. PICK S : S = {Call(routine, j, "Sent") : j \in DOMAIN http["Sent"]}
                          \cup {Call(routine, j, "Received") : j \in DOMAIN http["Received"]}
      OBVIOUS
    <2>2. PICK s, r : /\ s = [j \in DOMAIN http["Sent"] |-> Call(routine, j, "Sent")]
                      /\ r = [j \in DOMAIN http["Received"] |-> Call(routine, j, "Received")]
      OBVIOUS
    <2>3. /\ Len(http["Sent"]) \in Nat /\ DOMAIN http["Sent"] = 1 .. Len(http["Sent"])
          /\ Len(http["Received"]) \in Nat /\ DOMAIN http["Received"] = 1 .. Len(http["Received"])
      BY MessageFacts DEF IsSequence, Direction
    <2>4. s \in Seq(S) /\ r \in Seq(S)
      BY <2>1, <2>2, <2>3
    <2>5. Items(s \o r) = Items(s) \cup Items(r)
      BY <2>4, ItemsOfConcat
    <2>6. Call(routine, k, d) \in Items(s) \cup Items(r)
      <3>1. CASE d = "Sent"
        <4>1. k \in DOMAIN s /\ s[k] = Call(routine, k, d)
          BY <2>2, <3>1
        <4> QED
          BY <4>1 DEF Items
      <3>2. CASE d = "Received"
        <4>1. k \in DOMAIN r /\ r[k] = Call(routine, k, d)
          BY <2>2, <3>2
        <4> QED
          BY <4>1 DEF Items
      <3> QED
        BY <3>1, <3>2 DEF Direction
    <2> QED
      BY <2>2, <2>5, <2>6
  <1> QED
    BY <1>1 DEF TranscriptCalls, TranscriptStructureCalls

(* What a call promises, one of the calls that it makes promises.           *)
LEMMA PromiseKept ==
    ASSUME Parsed, NEW d \in Direction, NEW k \in DOMAIN http[d],
           NEW H \in HiddenSets(http[d][k]), NEW i \in Rest(http[d][k], H),
           NEW x, NEW calls, Makes(x, calls), Promises(x, d, k, i, H)
    PROVE  \E y \in Items(calls) : Promises(y, d, k, i, H)
PROOF
  <1>1. PICK m : m = http[d][k]
    OBVIOUS
  <1>2. /\ PartsDisjoint(m) /\ ValuesInBody(doc, m) /\ (d = "Received" => m.target = {})
        /\ H \in HiddenSets(m) /\ i \in Rest(m, H)
    BY <1>1, MessageFacts
  <1>3. i \notin H
    BY <1>2, WhichPart
  <1>4. \A r : Call(r, k, d).routine = r /\ Call(r, k, d).node = k /\ Call(r, k, d).direction = d
    BY DEF Call
  <1>5. CASE x.routine = "commit_transcript" /\ m.headers # << >>
    <2>1. calls = TranscriptCalls
      BY <1>5 DEF Makes, Expands
    <2>2. Promises(Call("commit_message", k, d), d, k, i, H)
      BY <1>1, <1>5 DEF Promises
    <2> QED
      BY <2>1, <2>2, TranscriptItems
  <1>6. CASE x.routine = "transcript_structure" /\ H = LeftOut(m, d)
    <2>1. calls = TranscriptStructureCalls
      BY <1>6 DEF Makes, Expands
    <2>2. Promises(Call("message_structure", k, d), d, k, i, H)
      BY <1>1, <1>6 DEF Promises
    <2> QED
      BY <2>1, <2>2, TranscriptItems
  <1>7. CASE x = Call("commit_message", k, d) /\ m.headers # << >>
    <2>1. calls = MessageCalls(m, d)
      BY <1>1, <1>4, <1>7 DEF Makes, Expands
    <2> QED
      BY <1>1, <1>2, <1>7, <2>1, MessageKeepsPromise
  <1>8. CASE x = Call("message_structure", k, d) /\ H = LeftOut(m, d)
    <2>1. calls = MessageStructure(m, d)
      BY <1>1, <1>4, <1>8 DEF Makes, Expands
    <2> QED
      BY <1>1, <1>2, <1>8, <2>1, StructureKeepsPromise
  <1>9. CASE \E j \in DOMAIN m.headers : x = HeaderCall(m.headers[j], d) /\ i \in m.headers[j].span
    <2>1. PICK j \in DOMAIN m.headers : x = HeaderCall(m.headers[j], d) /\ i \in m.headers[j].span
      BY <1>9
    <2>2. PICK h : h = m.headers[j]
      OBVIOUS
    <2>3. x.routine = "commit_header" /\ x.header = h /\ x.direction = d
      BY <2>1, <2>2 DEF HeaderCall
    <2>4. calls = HeaderCalls(h, d)
      BY <2>3 DEF Makes, Expands
    <2>5. h.span \cap H = {} \/ h.span \cap H = h.value
      BY <1>2, <2>2, HiddenParts
    <2> QED
      BY <1>3, <2>1, <2>2, <2>4, <2>5, HeaderKeepsPromise
  <1>10. CASE x.direction = d /\ Carries(Nodes(m), x, i, H)
    <2>1. Expands(x, calls)
      BY <1>10 DEF Makes, Carries, Routines
    <2>2. Selective(Nodes(m), H)
      BY <1>2, HiddenValues
    <2>3. PICK N : N = Nodes(m)
      OBVIOUS
    <2>4. PICK y \in Items(calls) : y.direction = x.direction /\ Carries(N, y, i, H)
      BY <1>3, <1>10, <2>1, <2>2, <2>3, ExpandsCarries
    <2> QED
      BY <1>1, <1>10, <2>3, <2>4 DEF Promises
  <1> QED
    BY <1>1, <1>5, <1>6, <1>7, <1>8, <1>9, <1>10 DEF Promises

-------------------------------------------------------------------------------
(* What may be hidden of message k of direction d once call c returned.     *)
Hides(c, d, k) ==
    IF c.routine = "transcript_structure" THEN {LeftOut(http[d][k], d)}
    ELSE IF CommitsMessage(c, d, k) /\ http[d][k].headers # << >> THEN HiddenSets(http[d][k])
         ELSE {}

Provided(d, k, i, H) ==
    \/ i \in Openable(d, H)
    \/ \E x \in Items(agenda) : Promises(x, d, k, i, H)

Underway ==
    calling # None /\ ~ failed =>
        \A d \in Direction : \A k \in DOMAIN http[d] : \A H \in Hides(calling, d, k) :
            \A i \in Rest(http[d][k], H) : Provided(d, k, i, H)

Finished ==
    \A c \in completed : \A d \in Direction : \A k \in DOMAIN http[d] : \A H \in Hides(c, d, k) :
        Rest(http[d][k], H) \subseteq Openable(d, H)

OpensInv == AskedInv /\ Underway /\ Finished

LEMMA HidesHidden ==
    ASSUME Parsed, NEW d \in Direction, NEW k \in DOMAIN http[d], NEW c, NEW H \in Hides(c, d, k)
    PROVE  H \in HiddenSets(http[d][k])
PROOF
  <1>1. PICK m : m = http[d][k]
    OBVIOUS
  <1>2. PartsDisjoint(m) /\ ValuesInBody(doc, m)
    BY <1>1, MessageFacts
  <1>3. LeftOut(m, d) \in HiddenSets(m)
    BY <1>2, LeftOutHidden
  <1> QED
    BY <1>1, <1>3 DEF Hides

(* The caller's calls promise what they owe.                                *)
LEMMA CallPromises ==
    ASSUME NEW c \in AllCalls, NEW d \in Direction, NEW k \in DOMAIN http[d], NEW H \in Hides(c, d, k), NEW i
    PROVE  Promises(c, d, k, i, H)
PROOF
  <1>1. CASE c.routine = "transcript_structure"
    BY <1>1 DEF Hides, Promises
  <1>2. CASE c.routine = "commit_transcript"
    BY <1>2 DEF Hides, Promises
  <1>3. CASE c.routine = "commit_message"
    <2>1. c.direction = d /\ c.node = k /\ http[d][k].headers # << >>
      BY <1>3 DEF Hides, CommitsMessage
    <2>2. c \notin WholeCalls
      BY <1>3 DEF WholeCalls, Call
    <2>3. PICK e \in Direction : c \in MessageCallsOf(e)
      BY <2>2 DEF AllCalls
    <2>4. PICK j \in DOMAIN http[e] : c = Call("commit_message", j, e)
      BY <2>3 DEF MessageCallsOf
    <2>5. c = Call("commit_message", k, d)
      BY <2>1, <2>4 DEF Call
    <2> QED
      BY <2>1, <2>5 DEF Promises
  <1> QED
    BY <1>1, <1>2, <1>3 DEF Hides, CommitsMessage

LEMMA SameAnswers ==
    ASSUME UNCHANGED <<doc, http>>
    PROVE  /\ \A m : /\ LeafSpans(m)' = LeafSpans(m) /\ \A d : LeftOut(m, d)' = LeftOut(m, d)
                    /\ Loose(m)' = Loose(m) /\ \A H : Rest(m, H)' = Rest(m, H)
           /\ \A c, d, k : Hides(c, d, k)' = Hides(c, d, k)
           /\ \A x, d, k, i, H : Promises(x, d, k, i, H)' = Promises(x, d, k, i, H)
PROOF
  <1>1. \A m : /\ Leaves(m)' = Leaves(m) /\ LeafSpans(m)' = LeafSpans(m)
               /\ Loose(m)' = Loose(m) /\ \A H : Rest(m, H)' = Rest(m, H)
    BY DEF Leaves, LeafSpans, Loose, Rest
  <1>2. \A m : HiddenSets(m)' = HiddenSets(m) /\ \A d : LeftOut(m, d)' = LeftOut(m, d)
    <2>1. \A m : HiddenSets(m)' = HiddenSets(m)
      BY <1>1 DEF HiddenSets, Parts, HeaderValues
    <2>2. \A m, d : LeftOut(m, d)' = LeftOut(m, d)
      BY <1>1 DEF LeftOut
    <2> QED
      BY <2>1, <2>2
  <1>3. ASSUME NEW c, NEW d, NEW k PROVE Hides(c, d, k)' = Hides(c, d, k)
    <2>1. CommitsMessage(c, d, k)' <=> CommitsMessage(c, d, k)
      BY DEF CommitsMessage
    <2>2. /\ LeftOut(http[d][k], d)' = LeftOut(http[d][k], d)
          /\ HiddenSets(http[d][k])' = HiddenSets(http[d][k])
          /\ http[d][k].headers' = http[d][k].headers
      BY <1>2
    <2> QED
      BY <2>1, <2>2 DEF Hides
  <1>4. \A N, x, i, H : Carries(N, x, i, H)' = Carries(N, x, i, H)
    BY DEF Carries, Reaches, LeavesHidden, IsContainer, Routines
  <1>5. \A x, d, k, i, H : Promises(x, d, k, i, H)' = Promises(x, d, k, i, H)
    BY <1>2, <1>4 DEF Promises
  <1> QED
    BY <1>1, <1>2, <1>3, <1>5

LEMMA AcceptsOpens ==
    ASSUME NEW c, Accepts(c)
    PROVE  /\ \A d, H : Openable(d, H) \subseteq Openable(d, H)'
           /\ \A H : c.ranges \cap H = {} => c.ranges \subseteq Openable(c.direction, H)'
PROOF
  <1>1. PICK e : e = <<c.direction, c.ranges>>
    OBVIOUS
  <1>2. committed' = committed \cup {e} /\ e[1] = c.direction /\ e[2] = c.ranges
    BY <1>1 DEF Accepts
  <1>3. \A d, H : Openable(d, H) \subseteq Openable(d, H)'
    BY <1>2 DEF Openable
  <1>4. \A H : c.ranges \cap H = {} => c.ranges \subseteq Openable(c.direction, H)'
    BY <1>2 DEF Openable
  <1> QED
    BY <1>3, <1>4

LEMMA FinishedAfter ==
    ASSUME UNCHANGED <<doc, http>>, \A d, H : Openable(d, H) \subseteq Openable(d, H)',
           NEW done, completed' = done,
           \A c \in done : \A d \in Direction : \A k \in DOMAIN http[d] : \A H \in Hides(c, d, k) :
               Rest(http[d][k], H) \subseteq Openable(d, H)
    PROVE  Finished'
PROOF
  <1>1. ASSUME NEW c \in done, NEW d \in Direction, NEW k \in DOMAIN http[d], NEW H \in Hides(c, d, k)
        PROVE  Rest(http[d][k], H)' \subseteq Openable(d, H)'
    <2>1. PICK m : m = http[d][k]
      OBVIOUS
    <2>2. Rest(m, H) \subseteq Openable(d, H)'
      BY <2>1
    <2>3. Rest(m, H)' = Rest(m, H)
      BY SameAnswers
    <2> QED
      BY <2>1, <2>2, <2>3
  <1> QED
    BY <1>1, SameAnswers DEF Finished

LEMMA OpensInit == Parsed /\ NothingCalled => OpensInv
  BY AskedInit DEF NothingCalled, OpensInv, Underway, Finished

LEMMA OpensCall ==
    ASSUME OpensInv, NEW call \in AllCalls, CallCommitter(call)
    PROVE  OpensInv'
PROOF
  <1>1. AskedInv'
    BY AskedCall DEF OpensInv
  <1>2. /\ UNCHANGED <<doc, http, committed, completed>>
        /\ calling' = call /\ agenda' = <<call>>
    BY DEF CallCommitter
  <1>3. Items(agenda)' = {call}
    BY <1>2, ItemsOfOne
  <1>4. \A d, H : Openable(d, H)' = Openable(d, H)
    BY <1>2 DEF Openable
  <1>5. Finished'
    BY <1>2, <1>4, FinishedAfter DEF OpensInv, Finished
  <1>6. ASSUME NEW d \in Direction, NEW k \in DOMAIN http[d], NEW H \in Hides(call, d, k), NEW i
        PROVE  Provided(d, k, i, H)'
    <2>1. Promises(call, d, k, i, H)'
      BY <1>2, CallPromises, SameAnswers
    <2> QED
      BY <1>3, <2>1 DEF Provided
  <1>7. Underway'
    BY <1>2, <1>6, SameAnswers DEF Underway
  <1> QED
    BY <1>1, <1>5, <1>7 DEF OpensInv

LEMMA OpensStep ==
    ASSUME OpensInv, HttpStep, UNCHANGED <<calling, called, completed>>
    PROVE  OpensInv'
PROOF
  <1>1. AskedInv' /\ AskedInv /\ Parsed /\ agenda \in Seq(Allowed)
    BY AskedStep DEF OpensInv, AskedInv
  <1>2. agenda # << >> /\ UNCHANGED <<doc, http>>
    BY HttpStepCases DEF HttpStep, Becomes, Fails, Accepts
  <1>3. PICK c : c = Head(agenda)
    OBVIOUS
  <1>4. /\ c \in Allowed /\ Tail(agenda) \in Seq(Allowed)
        /\ Items(agenda) = {c} \cup Items(Tail(agenda))
    BY <1>1, <1>2, <1>3, ItemsOfHead
  <1>5. \A d, H : Openable(d, H) \subseteq Openable(d, H)'
    <2>1. CASE UNCHANGED committed
      BY <2>1 DEF Openable
    <2>2. CASE Accepts(c)
      BY <2>2, AcceptsOpens
    <2> QED
      BY <1>3, <2>1, <2>2, HttpStepCases DEF Becomes, Fails
  <1>6. Finished'
    BY <1>2, <1>5, FinishedAfter DEF OpensInv, Finished
  <1>7. ASSUME ~ failed', calling # None, NEW d \in Direction, NEW k \in DOMAIN http[d],
               NEW H \in Hides(calling, d, k), NEW i \in Rest(http[d][k], H)
        PROVE  Provided(d, k, i, H)'
    <2>1. ~ failed
      BY <1>7, HttpStepCases DEF Becomes, Fails, Accepts
    <2>2. Provided(d, k, i, H)
      BY <1>7, <2>1 DEF OpensInv, Underway
    <2>3. H \in HiddenSets(http[d][k])
      BY <1>1, HidesHidden
    <2>4. CASE i \in Openable(d, H)
      BY <1>5, <2>4 DEF Provided
    <2>5. ASSUME NEW y \in Items(agenda)', Promises(y, d, k, i, H)
          PROVE  Provided(d, k, i, H)'
      BY <1>2, <2>5, SameAnswers DEF Provided
    <2>6. ASSUME NEW x \in Items(agenda), Promises(x, d, k, i, H)
          PROVE  Provided(d, k, i, H)'
      <3>1. CASE \E calls : Makes(c, calls) /\ Becomes(calls)
        <4>1. PICK calls : Makes(c, calls) /\ Becomes(calls)
          BY <3>1
        <4>2. calls \in Seq(Allowed)
          BY <1>1, <1>4, <4>1, CallsAllowed
        <4>3. PICK S, tail : S = Allowed /\ tail = Tail(agenda)
          OBVIOUS
        <4>4. Items(calls \o tail) = Items(calls) \cup Items(tail)
          <5>1. calls \in Seq(S) /\ tail \in Seq(S)
            BY <1>4, <4>2, <4>3
          <5> QED
            BY <5>1, ItemsOfConcat
        <4>5. Items(agenda)' = Items(calls) \cup Items(Tail(agenda))
          <5>1. agenda' = calls \o tail
            BY <4>1, <4>3 DEF Becomes
          <5>2. Items(agenda)' = Items(calls \o tail)
            BY <5>1 DEF Items
          <5> QED
            BY <4>3, <4>4, <5>2
        <4>6. CASE x = c
          <5>1. PICK y \in Items(calls) : Promises(y, d, k, i, H)
            BY <1>1, <2>3, <2>6, <4>1, <4>6, PromiseKept
          <5> QED
            BY <2>5, <4>5, <5>1
        <4>7. CASE x \in Items(Tail(agenda))
          BY <2>5, <2>6, <4>5, <4>7
        <4> QED
          BY <1>4, <4>6, <4>7
      <3>2. CASE Accepts(c)
        <4>1. Items(agenda)' = Items(Tail(agenda)) /\ c.routine = "commit"
          BY <3>2 DEF Accepts, Items
        <4>2. CASE x = c
          <5>1. c.direction = d /\ i \in c.ranges /\ c.ranges \cap H = {}
            BY <2>6, <4>1, <4>2 DEF Promises, HeaderCall, Call, Carries, Reaches
          <5>2. i \in Openable(d, H)'
            BY <3>2, <5>1, AcceptsOpens
          <5> QED
            BY <5>2 DEF Provided
        <4>3. CASE x \in Items(Tail(agenda))
          BY <2>5, <2>6, <4>1, <4>3
        <4> QED
          BY <1>4, <4>2, <4>3
      <3>3. CASE Fails
        BY <1>7, <3>3 DEF Fails
      <3> QED
        BY <1>3, <3>1, <3>2, <3>3, HttpStepCases
    <2> QED
      BY <2>2, <2>4, <2>6 DEF Provided
  <1>8. Underway'
    BY <1>2, <1>7, SameAnswers DEF Underway
  <1> QED
    BY <1>1, <1>6, <1>8 DEF OpensInv

LEMMA OpensReturn ==
    ASSUME OpensInv, Return
    PROVE  OpensInv'
PROOF
  <1>1. UNCHANGED <<doc, http, agenda, committed, failed, called>> /\ calling # None /\ agenda = << >>
        /\ calling' = None
    BY DEF Return
  <1>2. AskedInv'
    BY AskedReturn DEF OpensInv
  <1>3. \A d, H : Openable(d, H)' = Openable(d, H)
    BY <1>1 DEF Openable
  <1>4. Items(agenda) = {}
    BY <1>1 DEF Items
  <1>5. ASSUME NEW c \in completed', NEW d \in Direction, NEW k \in DOMAIN http[d], NEW H \in Hides(c, d, k)
        PROVE  Rest(http[d][k], H) \subseteq Openable(d, H)
    <2>1. CASE c \in completed
      BY <2>1 DEF OpensInv, Finished
    <2>2. CASE c = calling /\ ~ failed
      BY <1>1, <1>4, <2>2 DEF OpensInv, Underway, Provided
    <2> QED
      BY <2>1, <2>2 DEF Return
  <1>6. Finished'
    BY <1>1, <1>3, <1>5, FinishedAfter
  <1>7. Underway'
    BY <1>1 DEF Underway
  <1> QED
    BY <1>2, <1>6, <1>7 DEF OpensInv

LEMMA OpensUnchanged ==
    ASSUME OpensInv, UNCHANGED callVars
    PROVE  OpensInv'
PROOF
  <1>1. AskedInv'
    BY AskedReturn DEF OpensInv
  <1>2. UNCHANGED <<doc, http, agenda, committed, failed, calling, completed>>
    BY DEF callVars
  <1>3. Items(agenda)' = Items(agenda) /\ \A d, H : Openable(d, H)' = Openable(d, H)
    BY <1>2 DEF Items, Openable
  <1>4. \A d, k, i, H : Provided(d, k, i, H)' <=> Provided(d, k, i, H)
    BY <1>2, <1>3, SameAnswers DEF Provided
  <1>5. Underway'
    BY <1>2, <1>4, SameAnswers DEF OpensInv, Underway
  <1>6. Finished'
    BY <1>2, <1>3, SameAnswers DEF OpensInv, Finished
  <1> QED
    BY <1>1, <1>5, <1>6 DEF OpensInv

LEMMA OpensNext == OpensInv /\ [CommitNext]_callVars => OpensInv'
  BY OpensCall, OpensStep, OpensReturn, OpensUnchanged DEF CommitNext, MakeCall, Step

-------------------------------------------------------------------------------
(* After commit_structure returned, every byte of every message but those   *)
(* of the values it is to leave out can be opened without them.             *)
THEOREM StructureCanBeOpened == CommitSpec => []StructureOpens
PROOF
  <1>1. OpensInv => StructureOpens
    BY DEF OpensInv, Finished, StructureOpens, Hides, Rest
  <1> QED
    BY CommitInitParsed, OpensInit, OpensNext, <1>1, PTL DEF CommitSpec

(* After a message with headers was committed, whatever of its target, its  *)
(* header values and its JSON values is to stay hidden, every other byte of *)
(* it can be opened.                                                        *)
THEOREM SelectionCanBeOpened == CommitSpec => []SelectionOpens
PROOF
  <1>1. ASSUME OpensInv, NEW c \in completed, NEW d \in Direction, NEW k \in DOMAIN http[d],
               CommitsMessage(c, d, k), http[d][k].headers # << >>, NEW kept \in SUBSET Parts(http[d][k])
        PROVE  Rest(http[d][k], UNION kept) \subseteq Openable(d, UNION kept)
    <2>1. UNION kept \in Hides(c, d, k)
      BY <1>1 DEF Hides, HiddenSets, CommitsMessage
    <2> QED
      BY <1>1, <2>1 DEF OpensInv, Finished
  <1>2. OpensInv => SelectionOpens
    BY <1>1 DEF SelectionOpens, Rest
  <1> QED
    BY CommitInitParsed, OpensInit, OpensNext, <1>2, PTL DEF CommitSpec


-------------------------------------------------------------------------------
(* SelectiveDisclosure: what the parser yields is what the committers take. *)

(* Shifting positions changes nothing between sets of them. *)
LEMMA ShiftedSets ==
    ASSUME NEW by \in Nat, NEW A \in SUBSET Nat, NEW B \in SUBSET Nat
    PROVE  /\ Shifted(A, by) \in SUBSET Nat
           /\ A # {} => Shifted(A, by) # {}
           /\ \A a \in Nat : a + by \in Shifted(A, by) <=> a \in A
           /\ A \subseteq B => Shifted(A, by) \subseteq Shifted(B, by)
           /\ A \cap B = {} => Shifted(A, by) \cap Shifted(B, by) = {}
           /\ Shifted(A \ B, by) = Shifted(A, by) \ Shifted(B, by)
PROOF
  <1>1. \A a \in Nat : a + by \in Shifted(A, by) <=> a \in A
    BY DEF Shifted
  <1>2. \A a \in Nat : a + by \in Shifted(B, by) <=> a \in B
    BY DEF Shifted
  <1>3. \A i \in Shifted(A, by) \cup Shifted(B, by) : \E a \in Nat : i = a + by
    BY DEF Shifted
  <1>4. Shifted(A, by) \in SUBSET Nat /\ (A # {} => Shifted(A, by) # {})
    <2>1. \A i \in Shifted(A, by) : i \in Nat
      BY DEF Shifted
    <2>2. A # {} => \E a \in Nat : a + by \in Shifted(A, by)
      BY <1>1
    <2> QED
      BY <2>1, <2>2
  <1>5. Shifted(A \ B, by) = Shifted(A, by) \ Shifted(B, by)
    <2>1. ASSUME NEW i \in Shifted(A \ B, by)
          PROVE  i \in Shifted(A, by) \ Shifted(B, by)
      <3>1. PICK a \in A \ B : i = a + by
        BY DEF Shifted
      <3> QED
        BY <1>1, <1>2, <3>1
    <2>2. ASSUME NEW i \in Shifted(A, by) \ Shifted(B, by)
          PROVE  i \in Shifted(A \ B, by)
      <3>1. PICK a \in A : i = a + by
        BY DEF Shifted
      <3>2. a \in A \ B
        BY <1>2, <3>1
      <3> QED
        BY <3>1, <3>2 DEF Shifted
    <2> QED
      BY <2>1, <2>2
  <1> QED
    BY <1>1, <1>2, <1>3, <1>4, <1>5

(* Values that are renamed by f and shifted. *)
Renamed(f, by, V, D) ==
    \A n \in DOMAIN V :
        /\ D[f[n]].kind = V[n].kind
        /\ D[f[n]].span = Shifted(V[n].span, by) /\ D[f[n]].pair = Shifted(V[n].pair, by)
        /\ D[f[n]].elems = [e \in DOMAIN V[n].elems |-> f[V[n].elems[e]]]

LEMMA RenamedNested ==
    ASSUME NEW V, WellNested(V), NEW by \in Nat, NEW f, NEW D,
           \A n, l \in DOMAIN V : n # l => f[n] # f[l],
           DOMAIN D = {f[n] : n \in DOMAIN V}, Renamed(f, by, V, D)
    PROVE  WellNested(D)
PROOF
  <1> DEFINE S(n) == V[n].span
             P(n) == V[n].pair
  <1>1. \A n \in DOMAIN V : S(n) \in SUBSET Nat /\ P(n) \in SUBSET Nat /\ V[n].elems \in Seq(DOMAIN V)
    BY DEF WellNested, Shaped
  <1>2. \A n \in DOMAIN V : /\ f[n] \in DOMAIN D /\ D[f[n]].kind = V[n].kind
                            /\ D[f[n]].span = Shifted(S(n), by) /\ D[f[n]].pair = Shifted(P(n), by)
                            /\ IsContainer(D, f[n]) <=> IsContainer(V, n)
    BY DEF Renamed, IsContainer
  <1>3. \A x \in DOMAIN D : \E n \in DOMAIN V : x = f[n]
    OBVIOUS
  <1>4. ASSUME NEW n \in DOMAIN V
        PROVE  /\ D[f[n]].elems \in Seq(DOMAIN D)
               /\ \A x \in Children(D, f[n]) : \E c \in Children(V, n) : x = f[c]
               /\ \A c \in Children(V, n) : c \in DOMAIN V /\ f[c] \in Children(D, f[n])
    <2>1. PICK q : q = V[n].elems
      OBVIOUS
    <2>2. q \in Seq(DOMAIN V)
      BY <1>1, <2>1
    <2>3. PICK r : r = D[f[n]].elems
      OBVIOUS
    <2>4. r = [e \in DOMAIN q |-> f[q[e]]]
      BY <2>1, <2>3 DEF Renamed
    <2>5. \A e \in DOMAIN q : q[e] \in DOMAIN V /\ f[q[e]] \in DOMAIN D
      BY <1>2, <2>2
    <2>6. r \in Seq(DOMAIN D)
      <3>1. PICK k \in Nat : DOMAIN q = 1 .. k
        BY <2>2
      <3> QED
        BY <2>4, <2>5, <3>1
    <2>7. /\ Children(V, n) = {q[e] : e \in DOMAIN q}
          /\ Children(D, f[n]) = {r[e] : e \in DOMAIN r}
      BY <2>1, <2>3 DEF Children
    <2> QED
      BY <2>3, <2>4, <2>5, <2>6, <2>7
  <1>5. \A n, l \in DOMAIN V :
          /\ Shifted(S(n), by) \in SUBSET Nat /\ Shifted(P(n), by) \in SUBSET Nat
          /\ S(n) # {} => Shifted(S(n), by) # {}
          /\ S(n) \subseteq S(l) => Shifted(S(n), by) \subseteq Shifted(S(l), by)
          /\ S(n) \subseteq P(l) => Shifted(S(n), by) \subseteq Shifted(P(l), by)
          /\ P(n) \subseteq S(l) => Shifted(P(n), by) \subseteq Shifted(S(l), by)
          /\ S(n) \cap S(l) = {} => Shifted(S(n), by) \cap Shifted(S(l), by) = {}
    <2> HIDE DEF S, P
    <2> SUFFICES ASSUME NEW n \in DOMAIN V, NEW l \in DOMAIN V
                 PROVE  /\ Shifted(S(n), by) \in SUBSET Nat /\ Shifted(P(n), by) \in SUBSET Nat
                        /\ S(n) # {} => Shifted(S(n), by) # {}
                        /\ S(n) \subseteq S(l) => Shifted(S(n), by) \subseteq Shifted(S(l), by)
                        /\ S(n) \subseteq P(l) => Shifted(S(n), by) \subseteq Shifted(P(l), by)
                        /\ P(n) \subseteq S(l) => Shifted(P(n), by) \subseteq Shifted(S(l), by)
                        /\ S(n) \cap S(l) = {} => Shifted(S(n), by) \cap Shifted(S(l), by) = {}
      OBVIOUS
    <2>1. S(n) \in SUBSET Nat /\ P(n) \in SUBSET Nat /\ S(l) \in SUBSET Nat /\ P(l) \in SUBSET Nat
      BY <1>1
    <2>2. /\ Shifted(S(n), by) \in SUBSET Nat
          /\ S(n) # {} => Shifted(S(n), by) # {}
          /\ S(n) \subseteq S(l) => Shifted(S(n), by) \subseteq Shifted(S(l), by)
          /\ S(n) \cap S(l) = {} => Shifted(S(n), by) \cap Shifted(S(l), by) = {}
      <3>1. PICK A, B : A = S(n) /\ B = S(l)
        OBVIOUS
      <3>2. A \in SUBSET Nat /\ B \in SUBSET Nat
        BY <2>1, <3>1
      <3>3. /\ Shifted(A, by) \in SUBSET Nat
            /\ A # {} => Shifted(A, by) # {}
            /\ A \subseteq B => Shifted(A, by) \subseteq Shifted(B, by)
            /\ A \cap B = {} => Shifted(A, by) \cap Shifted(B, by) = {}
        BY ONLY <3>2, ShiftedSets, by \in Nat
      <3> QED
        BY <3>1, <3>3
    <2>3. S(n) \subseteq P(l) => Shifted(S(n), by) \subseteq Shifted(P(l), by)
      BY <2>1, ShiftedSets
    <2>4. /\ Shifted(P(n), by) \in SUBSET Nat
          /\ P(n) \subseteq S(l) => Shifted(P(n), by) \subseteq Shifted(S(l), by)
      BY <2>1, ShiftedSets
    <2> QED
      BY <2>2, <2>3, <2>4
  <1>6. ASSUME NEW n \in DOMAIN V, NEW l \in DOMAIN V, S(l) \cap (P(n) \ S(n)) = {}
        PROVE  Shifted(S(l), by) \cap (Shifted(P(n), by) \ Shifted(S(n), by)) = {}
    <2> HIDE DEF S, P
    <2>1. P(n) \ S(n) \in SUBSET Nat /\ S(l) \in SUBSET Nat /\ P(n) \in SUBSET Nat /\ S(n) \in SUBSET Nat
      BY <1>1
    <2>2. Shifted(P(n) \ S(n), by) = Shifted(P(n), by) \ Shifted(S(n), by)
      BY <2>1, ShiftedSets
    <2>3. Shifted(S(l), by) \cap Shifted(P(n) \ S(n), by) = {}
      BY <1>6, <2>1, ShiftedSets
    <2> QED
      BY <2>2, <2>3
  <1>7. ASSUME NEW n \in DOMAIN V, NEW l \in DOMAIN V,
               \A i \in S(l) : i \in S(n) /\ \E a, b \in S(n) : a < i /\ i < b
        PROVE  \A i \in Shifted(S(l), by) :
                  i \in Shifted(S(n), by) /\ \E a, b \in Shifted(S(n), by) : a < i /\ i < b
    <2>1. PICK A, B : A = S(l) /\ B = S(n)
      OBVIOUS
    <2>2. A \in SUBSET Nat /\ B \in SUBSET Nat
      BY <1>1, <2>1
    <2> HIDE DEF S, P
    <2>3. ASSUME NEW i \in Shifted(A, by)
          PROVE  i \in Shifted(B, by) /\ \E a, b \in Shifted(B, by) : a < i /\ i < b
      <3>1. PICK j \in A : i = j + by
        BY DEF Shifted
      <3>2. PICK a \in B, b \in B : a < j /\ j < b
        BY <1>7, <2>1
      <3>3. a + by \in Shifted(B, by) /\ b + by \in Shifted(B, by) /\ j + by \in Shifted(B, by)
        BY <1>7, <2>1 DEF Shifted
      <3>4. a + by < i /\ i < b + by
        BY <2>2, <3>1, <3>2
      <3> QED
        BY <3>1, <3>3, <3>4
    <2> QED
      BY <2>1, <2>3
  <1> HIDE DEF S, P
  <1>8. Shaped(D)
    <2>1. \A n \in DOMAIN V : /\ V[n].kind \in {"Object", "Array", "Primitive", "Redacted"}
                              /\ V[n].kind = "Redacted" => S(n) # {}
      BY DEF WellNested, Shaped, S
    <2> QED
      BY <1>2, <1>3, <1>4, <1>5, <2>1 DEF Shaped
  <1>9. ElementsInside(D)
    <2>1. ASSUME NEW n \in DOMAIN V, NEW c \in Children(V, n)
          PROVE  /\ V[n].kind = "Object" => S(c) \subseteq P(c) /\ P(c) \subseteq S(n)
                 /\ V[n].kind = "Array" => \A i \in S(c) : i \in S(n) /\ \E a, b \in S(n) : a < i /\ i < b
      BY DEF WellNested, ElementsInside, S, P
    <2>2. ASSUME NEW n \in DOMAIN V, NEW c \in Children(V, n)
          PROVE  /\ D[f[n]].kind = "Object" => D[f[c]].span \subseteq D[f[c]].pair /\ D[f[c]].pair \subseteq D[f[n]].span
                 /\ D[f[n]].kind = "Array" =>
                       \A i \in D[f[c]].span : i \in D[f[n]].span /\ \E a, b \in D[f[n]].span : a < i /\ i < b
      <3>1. c \in DOMAIN V
        BY <1>4
      <3> QED
        BY <1>2, <1>5, <1>7, <2>1, <3>1
    <2>3. ASSUME NEW x \in DOMAIN D, NEW y \in Children(D, x)
          PROVE  \E n \in DOMAIN V : \E c \in Children(V, n) : x = f[n] /\ y = f[c]
      <3>1. PICK n \in DOMAIN V : x = f[n]
        BY <1>3
      <3>2. PICK c \in Children(V, n) : y = f[c]
        BY <1>4, <3>1
      <3> QED
        BY <3>1, <3>2
    <2> QED
      BY <2>2, <2>3 DEF ElementsInside
  <1>10. LeavesInElements(D)
    <2>1. ASSUME NEW n \in DOMAIN V, NEW l \in DOMAIN V, IsContainer(V, n), ~ IsContainer(V, l)
          PROVE  \/ D[f[l]].span \cap D[f[n]].span = {}
                 \/ \E y \in Children(D, f[n]) : D[f[l]].span \subseteq D[y].span
      <3>1. S(l) \cap S(n) = {} \/ \E c \in Children(V, n) : S(l) \subseteq S(c)
        BY <2>1 DEF WellNested, LeavesInElements, S
      <3>2. CASE S(l) \cap S(n) = {}
        BY <1>2, <1>5, <3>2
      <3>3. CASE \E c \in Children(V, n) : S(l) \subseteq S(c)
        <4>1. PICK c \in Children(V, n) : S(l) \subseteq S(c)
          BY <3>3
        <4>2. c \in DOMAIN V /\ f[c] \in Children(D, f[n])
          BY <1>4
        <4>3. D[f[l]].span \subseteq D[f[c]].span
          BY <1>2, <1>5, <4>1, <4>2
        <4> QED
          BY <4>2, <4>3
      <3> QED
        BY <3>1, <3>2, <3>3
    <2> QED
      BY <1>2, <1>3, <2>1 DEF LeavesInElements
  <1>11. LeavesApart(D)
    <2>1. ASSUME NEW n \in DOMAIN V, NEW l \in DOMAIN V, ~ IsContainer(V, l)
          PROVE  /\ D[f[l]].span \cap (D[f[n]].pair \ D[f[n]].span) = {}
                 /\ ~ IsContainer(V, n) /\ f[n] # f[l] => D[f[n]].span \cap D[f[l]].span = {}
      <3>1. /\ S(l) \cap (P(n) \ S(n)) = {}
            /\ ~ IsContainer(V, n) /\ n # l => S(n) \cap S(l) = {}
        BY <2>1 DEF WellNested, LeavesApart, S, P
      <3> QED
        BY <1>2, <1>5, <1>6, <3>1
    <2> QED
      BY <1>2, <1>3, <2>1 DEF LeavesApart
  <1> QED
    BY <1>8, <1>9, <1>10, <1>11 DEF WellNested

(* A boundary for each range. *)
LEMMA BoundariesList ==
    ASSUME NEW S, IsFiniteSet(S)
    PROVE  IsSequence(Boundaries(S)) /\ \A b \in DOMAIN Boundaries(S) : Boundaries(S)[b] \subseteq S
PROOF
  <1> DEFINE starts == {i \in S : \A j \in S : j + 1 # i}
             start(b) == CHOOSE i \in starts : Rank(starts, i) = b
             range(b) == {i \in S : start(b) <= i /\ start(b) .. i \subseteq S}
  <1>1. PICK n : n = Cardinality(starts)
    OBVIOUS
  <1>2. n \in Nat
    BY <1>1, FS_Subset, FS_CardinalityType
  <1>3. Boundaries(S) = [b \in 1 .. n |-> range(b)]
    BY <1>1 DEF Boundaries
  <1>4. \A b : range(b) \subseteq S
    OBVIOUS
  <1> HIDE DEF starts, start, range
  <1>5. PICK q : q = Boundaries(S)
    OBVIOUS
  <1>6. q \in Seq({range(b) : b \in 1 .. n}) /\ DOMAIN q = 1 .. n
    BY <1>2, <1>3, <1>5
  <1>7. Len(q) = n
    BY <1>2, <1>6
  <1> QED
    BY <1>2, <1>3, <1>4, <1>5, <1>6, <1>7 DEF IsSequence

(* The values of a body that is in one piece lie in it. *)
LEMMA ValuesInPiece ==
    ASSUME NEW body \in SUBSET Nat, IsFiniteSet(body), body # {},
           \A i, j \in body : i .. j \subseteq body,
           NEW S, S \subseteq 0 .. Cardinality(body) - 1
    PROVE  SetMin(body) \in Nat /\ Shifted(S, SetMin(body)) \subseteq body
PROOF
  <1>1. PICK by \in body : \A k \in body : by <= k
    BY LeastElement
  <1>2. SetMin(body) = by
    <2>1. PICK x : x = SetMin(body)
      OBVIOUS
    <2>2. x \in body /\ \A k \in body : x <= k
      BY <1>1, <2>1 DEF SetMin
    <2> QED
      BY <1>1, <2>1, <2>2
  <1>3. PICK n : n = Cardinality(body)
    OBVIOUS
  <1>4. n \in Nat
    BY <1>3, FS_CardinalityType
  <1>5. ASSUME NEW j \in S PROVE j + by \in body
    <2>1. j \in Nat /\ j < n
      BY <1>3, <1>4
    <2>2. SUFFICES ASSUME j + by \notin body PROVE FALSE
      OBVIOUS
    <2>3. ASSUME NEW i \in body PROVE i \in by .. (j + by) - 1
      <3>1. i \in Nat /\ by <= i
        BY <1>1
      <3>2. ~ (j + by <= i)
        BY <2>1, <2>2, <3>1
      <3> QED
        BY <2>1, <3>1, <3>2
    <2>4. Cardinality(by .. (j + by) - 1) = j
      <3>1. PICK e \in Nat : e = j + by /\ by <= e
        BY <2>1
      <3>2. Cardinality(by .. e - 1) = e - by
        BY <3>1, SizeOfSpan
      <3> QED
        BY <2>1, <3>1, <3>2
    <2>5. IsFiniteSet(by .. (j + by) - 1)
      BY <2>1, FS_Interval
    <2>6. Cardinality(body) <= Cardinality(by .. (j + by) - 1)
      BY <2>3, <2>5, FS_Subset
    <2> QED
      BY <1>3, <1>4, <2>1, <2>4, <2>6
  <1> QED
    BY <1>1, <1>2, <1>5 DEF Shifted

(* What is taken of a message.                                              *)
LEMMA ParsedFields ==
    ASSUME NEW d \in Direction, NEW k \in DOMAIN parsed[d]
    PROVE  LET m == parsed[d][k]
               t == ParsedHttp[d][k]
           IN  /\ DOMAIN ParsedHttp = Direction /\ DOMAIN ParsedHttp[d] = DOMAIN parsed[d]
               /\ t.span = m.span /\ t.target = m.target /\ t.headers = m.headers /\ t.body = m.body
               /\ t.boundaries = Boundaries(m.boundaries)
               /\ t.json = [n \in DOMAIN m.json |-> <<d, k, n>>]
  BY DEF ParsedHttp, ParsedMessage

LEMMA PartsTaken ==
    ASSUME NEW s, NEW m, MessageApart(m), BuiltMessage(s, m), IsFiniteSet(m.boundaries),
           NEW t, t.span = m.span, t.target = m.target, t.headers = m.headers, t.body = m.body,
           t.boundaries = Boundaries(m.boundaries)
    PROVE  PartsDisjoint(t)
PROOF
  <1>1. IsSequence(t.headers)
    BY DEF BuiltMessage, IsSequence
  <1>2. IsSequence(t.boundaries) /\ \A b \in DOMAIN t.boundaries : t.boundaries[b] \subseteq m.boundaries
    BY BoundariesList
  <1>3. /\ m.target \cup m.body \cup m.boundaries \subseteq m.span
        /\ m.target \cap m.body = {} /\ m.body \cap m.boundaries = {}
        /\ \A j \in DOMAIN m.headers :
              /\ m.headers[j].span \subseteq m.span
              /\ m.headers[j].value \subseteq m.headers[j].span
              /\ m.headers[j].span \cap (m.target \cup m.body \cup m.boundaries) = {}
              /\ \A i \in DOMAIN m.headers \ {j} : m.headers[i].span \cap m.headers[j].span = {}
    BY DEF MessageApart
  <1>4. \A j \in DOMAIN t.headers :
              /\ t.headers[j].value \subseteq t.headers[j].span
              /\ t.headers[j].span \subseteq t.span \ (t.target \cup t.body)
              /\ \A i \in DOMAIN t.headers \ {j} : t.headers[i].span \cap t.headers[j].span = {}
    BY <1>3
  <1>5. \A b \in DOMAIN t.boundaries :
              /\ t.boundaries[b] \subseteq t.span \ t.body
              /\ \A j \in DOMAIN t.headers : t.headers[j].span \cap t.boundaries[b] = {}
    BY <1>2, <1>3
  <1> QED
    BY <1>1, <1>2, <1>3, <1>4, <1>5 DEF PartsDisjoint

(* The value with name <<d, k, n>>. *)
LEMMA ParsedValues ==
    ASSUME NEW d \in Direction, NEW k \in DOMAIN parsed[d], NEW n \in DOMAIN parsed[d][k].json
    PROVE  LET value == parsed[d][k].json[n]
           IN  /\ <<d, k, n>> \in DOMAIN ParsedDoc
               /\ ParsedDoc[<<d, k, n>>] =
                     [kind |-> value.kind, span |-> value.span, pair |-> value.pair,
                      elems |-> [e \in DOMAIN value.elems |-> <<d, k, value.elems[e]>>]]
PROOF
  <1>1. <<d, k, n>> \in NamesOf(d, k)
    BY DEF NamesOf
  <1>2. <<d, k, n>> \in UNION {UNION {NamesOf(e, l) : l \in DOMAIN parsed[e]} : e \in Direction}
    BY <1>1
  <1>3. ParsedDoc[<<d, k, n>>] = ParsedValue(<<d, k, n>>) /\ <<d, k, n>> \in DOMAIN ParsedDoc
    BY <1>2 DEF ParsedDoc
  <1> QED
    BY <1>3 DEF ParsedValue

(* The same of a value that has been given a name. *)
LEMMA ParsedValueNamed ==
    ASSUME NEW d \in Direction, NEW k \in DOMAIN parsed[d], NEW n \in DOMAIN parsed[d][k].json,
           NEW value, value = parsed[d][k].json[n]
    PROVE  ParsedDoc[<<d, k, n>>] =
              [kind |-> value.kind, span |-> value.span, pair |-> value.pair,
               elems |-> [e \in DOMAIN value.elems |-> <<d, k, value.elems[e]>>]]
PROOF
  <1>1. ParsedDoc[<<d, k, n>>] =
              [kind |-> parsed[d][k].json[n].kind, span |-> parsed[d][k].json[n].span,
               pair |-> parsed[d][k].json[n].pair,
               elems |-> [e \in DOMAIN parsed[d][k].json[n].elems |-> <<d, k, parsed[d][k].json[n].elems[e]>>]]
    BY ParsedValues, Zenon
  <1>2. value = parsed[d][k].json[n]
    OBVIOUS
  <1> QED
    BY ONLY <1>1, <1>2, Zenon

(* What JsonAssumption says of one text. *)
LEMMA ValuesOfText ==
    ASSUME NEW text \in DOMAIN JsonOf, NEW V, V = JsonOf[text]
    PROVE  /\ V \in Seq({V[n] : n \in DOMAIN V}) /\ WellNested(V)
           /\ \A n \in DOMAIN V :
                 /\ {"kind", "span", "pair", "elems"} \subseteq DOMAIN V[n]
                 /\ V[n].span \cup V[n].pair \subseteq 0 .. Len(text) - 1
PROOF
  <1>1. /\ JsonOf[text] \in Seq({JsonOf[text][n] : n \in DOMAIN JsonOf[text]})
        /\ WellNested(JsonOf[text])
        /\ \A n \in DOMAIN JsonOf[text] :
              /\ {"kind", "span", "pair", "elems"} \subseteq DOMAIN JsonOf[text][n]
              /\ JsonOf[text][n].span \cup JsonOf[text][n].pair \subseteq 0 .. Len(text) - 1
    BY ONLY JsonAssumption, text \in DOMAIN JsonOf, Zenon
  <1>2. V = JsonOf[text]
    OBVIOUS
  <1> QED
    BY ONLY <1>1, <1>2, Zenon

LEMMA ValuesTaken ==
    ASSUME NEW d \in Direction, NEW k \in DOMAIN parsed[d], NEW m, m = parsed[d][k],
           ValuesParsed(m), m.body \in SUBSET Nat, IsFiniteSet(m.body),
           m.json # << >> => \A i, j \in m.body : i .. j \subseteq m.body,
           NEW t, t.body = m.body, t.json = [n \in DOMAIN m.json |-> <<d, k, n>>]
    PROVE  ValuesInBody(ParsedDoc, t)
PROOF
  <1>1. Nodes(t) = {<<d, k, n>> : n \in DOMAIN m.json}
    BY DEF Nodes
  <1>2. Nodes(t) \subseteq DOMAIN ParsedDoc
    <2>1. ASSUME NEW n \in DOMAIN m.json PROVE <<d, k, n>> \in DOMAIN ParsedDoc
      <3>1. n \in DOMAIN parsed[d][k].json
        OBVIOUS
      <3> QED
        BY <3>1, ParsedValues
    <2> QED
      BY <1>1, <2>1
  <1>3. CASE m.json = << >>
    <2>1. DOMAIN m.json = {} /\ Nodes(t) = {}
      BY <1>1, <1>3
    <2>2. t.json \in Seq(Nodes(t))
      <3>1. PICK q, T : q = t.json /\ T = Nodes(t)
        OBVIOUS
      <3>2. q = [n \in 1 .. 0 |-> <<d, k, n>>] /\ \A n \in 1 .. 0 : <<d, k, n>> \in T
        BY <2>1, <3>1
      <3>3. q \in Seq(T)
        BY <3>2
      <3> QED
        BY <3>1, <3>3
    <2>3. WellNested([n \in Nodes(t) |-> ParsedDoc[n]])
      BY <2>1 DEF WellNested, Shaped, ElementsInside, LeavesInElements, LeavesApart
    <2> QED
      BY <1>2, <2>1, <2>2, <2>3 DEF ValuesInBody
  <1>4. CASE m.json # << >>
    <2>1. PICK text \in DOMAIN JsonOf :
            m.body # {} /\ Len(text) = Cardinality(m.body) /\ m.json = OffsetValues(JsonOf[text], SetMin(m.body))
      BY <1>4 DEF ValuesParsed
    <2>2. PICK V, by, f, D : /\ V = JsonOf[text] /\ by = SetMin(m.body)
                             /\ f = [n \in DOMAIN V |-> <<d, k, n>>]
                             /\ D = [x \in Nodes(t) |-> ParsedDoc[x]]
      OBVIOUS
    <2>3. /\ V \in Seq({V[n] : n \in DOMAIN V}) /\ WellNested(V)
          /\ \A n \in DOMAIN V :
                /\ {"kind", "span", "pair", "elems"} \subseteq DOMAIN V[n]
                /\ V[n].span \cup V[n].pair \subseteq 0 .. Len(text) - 1
      <3>1. V = JsonOf[text] /\ text \in DOMAIN JsonOf
        BY <2>1, <2>2
      <3> QED
        BY <3>1, ValuesOfText
    <2>4. /\ DOMAIN m.json = DOMAIN V
          /\ \A n \in DOMAIN V :
                /\ m.json[n].kind = V[n].kind /\ m.json[n].elems = V[n].elems
                /\ m.json[n].span = Shifted(V[n].span, by) /\ m.json[n].pair = Shifted(V[n].pair, by)
      <3>1. PICK w : w = m.json
        OBVIOUS
      <3>2. w = [n \in DOMAIN V |-> [V[n] EXCEPT !.span = Shifted(@, by), !.pair = Shifted(@, by)]]
        BY <2>1, <2>2, <3>1 DEF OffsetValues
      <3>3. ASSUME NEW n \in DOMAIN V
            PROVE  /\ w[n].kind = V[n].kind /\ w[n].elems = V[n].elems
                   /\ w[n].span = Shifted(V[n].span, by) /\ w[n].pair = Shifted(V[n].pair, by)
        <4>1. PICK v, x : v = V[n] /\ x = w[n]
          OBVIOUS
        <4>2. x = [v EXCEPT !.span = Shifted(@, by), !.pair = Shifted(@, by)]
          BY <3>2, <4>1
        <4>3. {"kind", "span", "pair", "elems"} \subseteq DOMAIN v
          BY <2>3, <4>1
        <4>4. /\ x.kind = v.kind /\ x.elems = v.elems
              /\ x.span = Shifted(v.span, by) /\ x.pair = Shifted(v.pair, by)
          BY <4>2, <4>3
        <4> QED
          BY <4>1, <4>4
      <3>4. DOMAIN w = DOMAIN V
        BY <3>2
      <3> QED
        BY <3>1, <3>3, <3>4
    <2>5. by \in Nat /\ \A n \in DOMAIN V : /\ Shifted(V[n].span, by) \subseteq m.body
                                            /\ Shifted(V[n].pair, by) \subseteq m.body
      <3>1. PICK S, P : S = [n \in DOMAIN V |-> V[n].span] /\ P = [n \in DOMAIN V |-> V[n].pair]
        OBVIOUS
      <3>2. \A n \in DOMAIN V : S[n] \subseteq 0 .. Cardinality(m.body) - 1 /\ P[n] \subseteq 0 .. Cardinality(m.body) - 1
        BY <2>1, <2>3, <3>1
      <3>3. by \in Nat /\ \A T : T \subseteq 0 .. Cardinality(m.body) - 1 => Shifted(T, by) \subseteq m.body
        BY <1>4, <2>1, <2>2, ValuesInPiece
      <3> QED
        BY <3>1, <3>2, <3>3
    <2>6. /\ DOMAIN D = {f[n] : n \in DOMAIN V}
          /\ \A n, l \in DOMAIN V : n # l => f[n] # f[l]
      BY <1>1, <2>2, <2>4
    <2>7. ASSUME NEW n \in DOMAIN V
          PROVE  /\ D[f[n]].kind = V[n].kind
                 /\ D[f[n]].span = Shifted(V[n].span, by) /\ D[f[n]].pair = Shifted(V[n].pair, by)
                 /\ D[f[n]].elems = [e \in DOMAIN V[n].elems |-> f[V[n].elems[e]]]
                 /\ ParsedDoc[<<d, k, n>>].span = Shifted(V[n].span, by)
                 /\ ParsedDoc[<<d, k, n>>].pair = Shifted(V[n].pair, by)
      <3>1. n \in DOMAIN m.json /\ <<d, k, n>> \in Nodes(t) /\ f[n] = <<d, k, n>>
        BY <1>1, <2>2, <2>4
      <3>2. D[f[n]] = ParsedDoc[<<d, k, n>>]
        BY <2>2, <3>1
      <3>3. PICK value : value = m.json[n] /\ value = parsed[d][k].json[n] /\ n \in DOMAIN parsed[d][k].json
        BY <3>1
      <3>4. ParsedDoc[<<d, k, n>>] =
              [kind |-> value.kind, span |-> value.span, pair |-> value.pair,
               elems |-> [e \in DOMAIN value.elems |-> <<d, k, value.elems[e]>>]]
        <4>1. n \in DOMAIN parsed[d][k].json /\ value = parsed[d][k].json[n]
          BY <3>3
        <4>2. d \in Direction /\ k \in DOMAIN parsed[d]
          OBVIOUS
        <4> QED
          BY ONLY <4>1, <4>2, ParsedValueNamed
      <3>5. /\ value.kind = V[n].kind /\ value.elems = V[n].elems
            /\ value.span = Shifted(V[n].span, by) /\ value.pair = Shifted(V[n].pair, by)
        BY <2>4, <3>3
      <3>6. /\ ParsedDoc[<<d, k, n>>].kind = V[n].kind
            /\ ParsedDoc[<<d, k, n>>].span = Shifted(V[n].span, by)
            /\ ParsedDoc[<<d, k, n>>].pair = Shifted(V[n].pair, by)
            /\ ParsedDoc[<<d, k, n>>].elems = [e \in DOMAIN value.elems |-> <<d, k, value.elems[e]>>]
        BY <3>4, <3>5
      <3>7. [e \in DOMAIN value.elems |-> <<d, k, value.elems[e]>>] = [e \in DOMAIN V[n].elems |-> f[V[n].elems[e]]]
        <4>1. PICK q : q = V[n].elems
          OBVIOUS
        <4>2. q \in Seq(DOMAIN V)
          BY <2>3, <4>1 DEF WellNested, Shaped
        <4>3. \A e \in DOMAIN q : f[q[e]] = <<d, k, q[e]>>
          BY <2>2, <4>2
        <4> QED
          BY <3>5, <4>1, <4>3
      <3> QED
        BY <3>1, <3>2, <3>6, <3>7
    <2>8. WellNested(D)
      <3>1. Renamed(f, by, V, D)
        BY <2>7 DEF Renamed
      <3> QED
        BY <2>3, <2>5, <2>6, <3>1, RenamedNested
    <2>9. \A x \in Nodes(t) : ParsedDoc[x].span \cup ParsedDoc[x].pair \subseteq t.body
      <3>1. ASSUME NEW n \in DOMAIN V
            PROVE  ParsedDoc[<<d, k, n>>].span \cup ParsedDoc[<<d, k, n>>].pair \subseteq t.body
        <4>1. /\ ParsedDoc[<<d, k, n>>].span = Shifted(V[n].span, by)
              /\ ParsedDoc[<<d, k, n>>].pair = Shifted(V[n].pair, by)
          BY <2>7
        <4>2. Shifted(V[n].span, by) \subseteq t.body /\ Shifted(V[n].pair, by) \subseteq t.body
          BY <2>5
        <4> QED
          BY <4>1, <4>2
      <3> QED
        BY <1>1, <2>4, <3>1
    <2>10. t.json \in Seq(Nodes(t))
      <3>1. PICK n \in Nat : DOMAIN V = 1 .. n
        BY <2>3
      <3>2. PICK q, T : q = t.json /\ T = Nodes(t)
        OBVIOUS
      <3>3. q = [i \in 1 .. n |-> <<d, k, i>>] /\ \A i \in 1 .. n : <<d, k, i>> \in T
        BY <1>1, <2>4, <3>1, <3>2
      <3> QED
        BY <3>2, <3>3
    <2> QED
      BY <1>2, <2>2, <2>8, <2>9, <2>10 DEF ValuesInBody
  <1> QED
    BY <1>3, <1>4

(* What is parsed of streams that are regular. *)
RegularParsed ==
    sums # "Wrapped" /\ \A d \in Direction :
        /\ CrLfLines(transcript[d])
        /\ \A k \in DOMAIN parsed[d] :
              parsed[d][k].json # << >> => \A i, j \in parsed[d][k].body : i .. j \subseteq parsed[d][k].body

LEMMA TakenIsWellParsed ==
    ASSUME IInv, Built, RegularParsed
    PROVE  WellParsed(ParsedDoc, ParsedHttp)
PROOF
  <1>1. Direction = {"Sent", "Received"} /\ DOMAIN parsed = Direction /\ DOMAIN ParsedHttp = Direction
    BY DEF Direction, IInv, ParsedLists, ParsedHttp
  <1>2. ASSUME NEW d \in Direction
        PROVE  /\ DOMAIN ParsedHttp[d] = DOMAIN parsed[d]
               /\ IsSequence(ParsedHttp[d])
    <2>1. PICK q, r : q = parsed[d] /\ r = ParsedHttp[d]
      OBVIOUS
    <2>2. r = [k \in DOMAIN q |-> ParsedMessage(d, k)]
      BY <2>1 DEF ParsedHttp
    <2>3. IsList(q)
      BY <1>1, <2>1 DEF IInv, ParsedLists
    <2>4. PICK n \in Nat : DOMAIN q = 1 .. n
      BY <2>3 DEF IsList
    <2>5. r \in Seq({ParsedMessage(d, k) : k \in 1 .. n}) /\ DOMAIN r = 1 .. n
      BY <2>2, <2>4
    <2>6. Len(r) = n
      BY <2>5
    <2> QED
      BY <2>1, <2>4, <2>5, <2>6 DEF IsSequence
  <1>3. ASSUME NEW d \in Direction, NEW k \in DOMAIN parsed[d]
        PROVE  /\ PartsDisjoint(ParsedHttp[d][k]) /\ ValuesInBody(ParsedDoc, ParsedHttp[d][k])
               /\ d = "Received" => ParsedHttp[d][k].target = {}
               /\ \A l \in DOMAIN parsed[d] \ {k} :
                     ParsedHttp[d][k].span \cap ParsedHttp[d][l].span = {}
    <2>1. PICK m, t : m = parsed[d][k] /\ t = ParsedHttp[d][k]
      OBVIOUS
    <2>2. /\ t.span = m.span /\ t.target = m.target /\ t.headers = m.headers /\ t.body = m.body
          /\ t.boundaries = Boundaries(m.boundaries)
          /\ t.json = [n \in DOMAIN m.json |-> <<d, k, n>>]
      BY <2>1, ParsedFields
    <2>3. MessageApart(m)
      BY <1>1, <2>1 DEF IInv, PartsApart, RegularParsed
    <2>4. BuiltMessage(d, m) /\ ValuesParsed(m)
      BY <1>1, <2>1 DEF Built, BuiltMessage
    <2>5. IsFiniteSet(m.body) /\ IsFiniteSet(m.boundaries) /\ m.body \in SUBSET Nat
      <3>1. PICK n \in 0 .. MaxUsize : DOMAIN transcript[d].cells = 0 .. n - 1
        BY <1>1, TranscriptsAssumption DEF IInv
      <3>2. m.span \subseteq 0 .. n - 1
        BY <1>1, <2>1, <3>1 DEF IInv, TypeOK
      <3>3. m.body \subseteq 0 .. n - 1 /\ m.boundaries \subseteq 0 .. n - 1
        BY <2>3, <3>2 DEF MessageApart
      <3>4. IsFiniteSet(0 .. n - 1) /\ n \in Nat
        BY UsizeAssumption, FS_Interval
      <3> QED
        BY <3>3, <3>4, FS_Subset
    <2>6. m.json # << >> => \A i, j \in m.body : i .. j \subseteq m.body
      BY <2>1 DEF RegularParsed
    <2>7. PartsDisjoint(t)
      BY <2>2, <2>3, <2>4, <2>5, PartsTaken
    <2>8. ValuesInBody(ParsedDoc, t)
      BY <2>1, <2>2, <2>4, <2>5, <2>6, ValuesTaken
    <2>9. ASSUME NEW l \in DOMAIN parsed[d] \ {k}
          PROVE  ParsedHttp[d][k].span \cap ParsedHttp[d][l].span = {}
      <3>1. ParsedHttp[d][l].span = parsed[d][l].span
        BY ParsedFields
      <3> QED
        BY <1>1, <2>1, <2>2, <3>1 DEF IInv, SpansTile
    <2>10. d = "Received" => t.target = {}
      BY <2>2, <2>4 DEF BuiltMessage
    <2> QED
      BY <2>1, <2>7, <2>8, <2>9, <2>10
  <1> QED
    BY <1>1, <1>2, <1>3 DEF WellParsed

-------------------------------------------------------------------------------
(* What is opened for a choice of hidden parts.                             *)

(* The parser takes no message for one with a body that has no headers. *)
HeadersWithBody ==
    \A d \in Direction : \A k \in DOMAIN http[d] : http[d][k].body # {} => http[d][k].headers # << >>

(* S holds the commitments to the structure: none of them reaches a byte of *)
(* the values that are left out, and together they reach all others.        *)
StructureIn(S) ==
    /\ S \subseteq committed
    /\ \A e \in S :
          /\ e[1] \in Direction
          /\ \E k \in DOMAIN http[e[1]] :
                e[2] \subseteq http[e[1]][k].span \ LeftOut(http[e[1]][k], e[1])
    /\ \A d \in Direction : \A k \in DOMAIN http[d] :
          \A i \in Rest(http[d][k], LeftOut(http[d][k], d)) : \E e \in S : e[1] = d /\ i \in e[2]

(* A part of a message that may be hidden, and a byte of it. *)
LEMMA HideableParts ==
    ASSUME Parsed, NEW d \in Direction, NEW choice \in SUBSET Hideable(d),
           NEW p \in choice, NEW i \in p, NEW k \in DOMAIN http[d], i \in http[d][k].span
    PROVE  /\ p \in Parts(http[d][k])
           /\ \/ \E j \in DOMAIN http[d][k].headers : p = http[d][k].headers[j].value
              \/ p \in LeafSpans(http[d][k])
PROOF
  <1>1. PICK l \in DOMAIN http[d] : p \in HeaderValues(http[d][l]) \cup LeafSpans(http[d][l])
    BY DEF Hideable, Messages
  <1>2. PICK m : m = http[d][l]
    OBVIOUS
  <1>3. PartsDisjoint(m) /\ ValuesInBody(doc, m)
    BY <1>2, MessageFacts
  <1>4. p \subseteq m.span
    <2>1. CASE p \in HeaderValues(m)
      BY <1>3, <2>1, HeadersApart DEF HeaderValues
    <2>2. CASE p \in LeafSpans(m)
      <3>1. m.body \subseteq m.span
        BY <1>3 DEF PartsDisjoint
      <3> QED
        BY <1>3, <2>2, <3>1, LeavesOfMessage DEF LeafSpans
    <2> QED
      BY <1>1, <1>2, <2>1, <2>2
  <1>5. l = k
    BY <1>2, <1>4, MessageFacts
  <1> QED
    BY <1>1, <1>5 DEF Parts, HeaderValues

(* A byte that is needed to parse a message is not left out, and one that   *)
(* is hidden is needed or left out.                                         *)
LEMMA NeededOrLeftOut ==
    ASSUME Parsed, NEW d \in Direction, NEW k \in DOMAIN http[d], NEW i \in http[d][k].span
    PROVE  /\ i \in LeftOut(http[d][k], d) => i \notin NeededToParse(d)
           /\ \A choice \in SUBSET Hideable(d) :
                 i \in UNION choice => i \in NeededToParse(d) \/ i \in LeftOut(http[d][k], d)
PROOF
  <1>1. PICK m : m = http[d][k]
    OBVIOUS
  <1>2. PartsDisjoint(m) /\ ValuesInBody(doc, m)
    BY <1>1, MessageFacts
  <1>3. ASSUME i \in LeftOut(m, d), i \in NeededToParse(d)
        PROVE  FALSE
    <2>1. PICK l \in DOMAIN http[d] : \E j \in DOMAIN http[d][l].headers :
             ~ IsLeftOut(http[d][l], d, j) /\ i \in http[d][l].headers[j].value
      BY <1>3 DEF NeededToParse, Messages
    <2>2. PICK w : w = http[d][l]
      OBVIOUS
    <2>3. PICK j \in DOMAIN w.headers : ~ IsLeftOut(w, d, j) /\ i \in w.headers[j].value
      BY <2>1, <2>2
    <2>4. PartsDisjoint(w)
      BY <2>2, MessageFacts
    <2>5. i \in w.headers[j].span /\ i \in w.span
      BY <2>3, <2>4, HeadersApart
    <2>6. l = k
      BY <2>2, <2>5, MessageFacts
    <2>7. w = m
      BY <1>1, <2>2, <2>6
    <2>8. m.headers[j].span \cap LeftOut(m, d) = {}
      BY <1>2, <2>3, <2>7, LeftOutHidden
    <2> QED
      BY <1>3, <2>5, <2>7, <2>8
  <1>4. ASSUME NEW choice \in SUBSET Hideable(d), i \in UNION choice
        PROVE  i \in NeededToParse(d) \/ i \in LeftOut(m, d)
    <2>1. PICK p \in choice : i \in p
      BY <1>4
    <2>2. \/ \E j \in DOMAIN m.headers : p = m.headers[j].value
          \/ p \in LeafSpans(m)
      BY <1>1, <2>1, HideableParts
    <2>3. CASE p \in LeafSpans(m)
      BY <2>1, <2>3 DEF LeftOut
    <2>4. ASSUME NEW j \in DOMAIN m.headers, p = m.headers[j].value
          PROVE  i \in NeededToParse(d) \/ i \in LeftOut(m, d)
      <3>1. CASE IsLeftOut(m, d, j)
        BY <2>1, <2>4, <3>1 DEF LeftOut
      <3>2. CASE ~ IsLeftOut(m, d, j)
        BY <1>1, <2>1, <2>4, <3>2 DEF NeededToParse, Messages
      <3> QED
        BY <3>1, <3>2
    <2> QED
      BY <2>2, <2>3, <2>4
  <1> QED
    BY <1>1, <1>3, <1>4

(* Every choice of hidden parts is hidden, and all else is opened. *)
LEMMA ChoiceDiscloses ==
    ASSUME OpensInv, HeadersWithBody, StructureIn(required), TranscriptCall \in completed,
           NEW d \in Direction, NEW choice \in SUBSET Hideable(d)
    PROVE  LET loose == UNION {Loose(m) : m \in Messages(d)}
               spans == UNION {m.span : m \in Messages(d)}
           IN  OpenedBy(d, choice) \cup loose =
                   (spans \ ((UNION choice) \ NeededToParse(d))) \cup loose
PROOF
  <1>1. Parsed /\ AskedInv
    BY DEF OpensInv, AskedInv
  <1>2. ASSUME NEW i \in OpenedBy(d, choice)
        PROVE  /\ \E m \in Messages(d) : i \in m.span
               /\ i \notin UNION choice \/ i \in NeededToParse(d)
    <2>1. PICK e \in committed : /\ e[1] = d /\ i \in e[2]
                                 /\ e \in required \/ e[2] \cap UNION choice = {}
      BY DEF OpenedBy
    <2>2. PICK k \in DOMAIN http[d] :
             /\ i \in http[d][k].span
             /\ e \in required => i \notin LeftOut(http[d][k], d)
      <3>1. CASE e \in required
        BY <2>1, <3>1 DEF StructureIn
      <3>2. CASE e \notin required
        BY <1>1, <2>1, <3>2, CommitmentFacts
      <3> QED
        BY <3>1, <3>2
    <2>3. CASE e \in required
      BY <1>1, <2>2, <2>3, NeededOrLeftOut DEF Messages
    <2>4. CASE e[2] \cap UNION choice = {}
      BY <2>1, <2>2, <2>4 DEF Messages
    <2> QED
      BY <2>1, <2>3, <2>4
  <1>3. ASSUME NEW k \in DOMAIN http[d], NEW i \in http[d][k].span, i \notin Loose(http[d][k]),
               i \notin UNION choice \/ i \in NeededToParse(d)
        PROVE  i \in OpenedBy(d, choice)
    <2>1. PICK m : m = http[d][k]
      OBVIOUS
    <2>2. PartsDisjoint(m) /\ ValuesInBody(doc, m)
      BY <1>1, <2>1, MessageFacts
    <2>3. CASE i \notin LeftOut(m, d)
      <3>1. i \in Rest(m, LeftOut(m, d))
        BY <1>3, <2>1, <2>3 DEF Rest
      <3>2. PICK e \in required : e[1] = d /\ i \in e[2] /\ e \in committed
        BY <2>1, <3>1 DEF StructureIn
      <3> QED
        BY <3>2 DEF OpenedBy
    <2>4. CASE i \in LeftOut(m, d)
      <3>1. i \notin UNION choice
        BY <1>1, <1>3, <2>1, <2>4, NeededOrLeftOut
      <3>2. m.headers # << >>
        <4>1. i \in m.body \/ DOMAIN m.headers # {}
          BY <2>2, <2>4, LeftOutIsInside
        <4> QED
          BY <2>1, <4>1 DEF HeadersWithBody
      <3>3. PICK H : H = UNION (choice \cap Parts(m))
        OBVIOUS
      <3>4. H \in Hides(TranscriptCall, d, k)
        BY <2>1, <3>2, <3>3 DEF Hides, HiddenSets, TranscriptCall, Call, CommitsMessage
      <3>5. i \in Rest(m, H)
        BY <1>3, <2>1, <3>1, <3>3 DEF Rest
      <3>6. i \in Openable(d, H)
        BY <2>1, <3>4, <3>5 DEF OpensInv, Finished
      <3>7. PICK e \in committed : e[1] = d /\ e[2] \cap H = {} /\ i \in e[2]
        BY <3>6 DEF Openable
      <3>8. PICK l \in DOMAIN http[d] : e[2] \subseteq http[d][l].span
        BY <1>1, <3>7, CommitmentFacts
      <3>9. l = k
        BY <1>1, <1>3, <3>7, <3>8, MessageFacts
      <3>10. ASSUME NEW x \in e[2], NEW p \in choice, x \in p
             PROVE  FALSE
        <4>1. p \in Parts(m)
          BY <1>1, <2>1, <3>8, <3>9, <3>10, HideableParts
        <4> QED
          BY <3>3, <3>7, <3>10, <4>1
      <3> QED
        BY <3>7, <3>10 DEF OpenedBy
    <2> QED
      BY <2>3, <2>4
  <1>4. PICK loose, spans : /\ loose = UNION {Loose(m) : m \in Messages(d)}
                            /\ spans = UNION {m.span : m \in Messages(d)}
    OBVIOUS
  <1>5. /\ \A i : i \in spans <=> \E k \in DOMAIN http[d] : i \in http[d][k].span
        /\ \A k \in DOMAIN http[d] : Loose(http[d][k]) \subseteq loose
    BY <1>4 DEF Messages
  <1>6. \A i \in OpenedBy(d, choice) : i \in spans /\ (i \notin UNION choice \/ i \in NeededToParse(d))
    BY <1>2, <1>4
  <1>7. \A i \in spans : i \in loose \/ i \in OpenedBy(d, choice) \/ i \in (UNION choice) \ NeededToParse(d)
    BY <1>3, <1>5
  <1> QED
    BY <1>4, <1>6, <1>7

-------------------------------------------------------------------------------
(* The invariant: while the transcript is parsed the committer is idle, and *)
(* from then on it opens what its calls promise, if the streams are         *)
(* regular.  The first call is that of commit_structure, so what is         *)
(* committed when it returned is what its commitments are to be.            *)
CallsMade ==
    /\ stage = "Parsed" => called = {}
    /\ stage = "Structure" => called \subseteq {StructureCall}
    /\ stage \notin {"Parsing", "Parsed", "Structure"} => StructureIn(required)

DisclosureInv ==
    /\ stage = "Parsing" => IInv /\ Built /\ NothingCalled
    /\ stage # "Parsing" /\ Regular => OpensInv /\ HeadersWithBody /\ CallsMade
    /\ DisclosedExactly

LEMMA OpensInitAfter == Parsed' /\ NothingCalled' => OpensInv'
  BY OpensInit, PTL

(* What depends on the messages alone stays as it is. *)
LEMMA SameMessages ==
    ASSUME UNCHANGED <<doc, http>>
    PROVE  /\ HeadersWithBody' = HeadersWithBody
           /\ \A d : Messages(d)' = Messages(d) /\ NeededToParse(d)' = NeededToParse(d)
           /\ \A S : StructureIn(S) /\ committed \subseteq committed' => StructureIn(S)'
PROOF
  <1>1. /\ \A m, d : LeftOut(m, d)' = LeftOut(m, d)
        /\ \A m, H : Rest(m, H)' = Rest(m, H)
    BY SameAnswers
  <1>2. ASSUME NEW S, StructureIn(S), committed \subseteq committed'
        PROVE  StructureIn(S)'
    BY <1>1, <1>2 DEF StructureIn
  <1> QED
    BY <1>2 DEF HeadersWithBody, Messages, NeededToParse, IsLeftOut

LEMMA SameDisclosure ==
    ASSUME DisclosedExactly, UNCHANGED <<doc, http, original, hidden, opened>>, SumsGoOn,
           Chosen' => Chosen
    PROVE  DisclosedExactly'
PROOF
  <1>1. \A m : Loose(m)' = Loose(m)
    BY SameAnswers
  <1>2. \A d : Messages(d)' = Messages(d) /\ NeededToParse(d)' = NeededToParse(d)
    BY SameMessages
  <1>3. Regular' => Regular
    BY DEF Regular, SumsGoOn
  <1> QED
    BY <1>1, <1>2, <1>3 DEF DisclosedExactly

LEMMA DisclosureInitially == DisclosureInit => DisclosureInv
  BY InitInvariant, BuiltInit DEF DisclosureInit, DisclosureInv, DisclosedExactly, Chosen

(* The committer goes on, and nothing of the prover's choice changes. *)
LEMMA CommitterKeeps ==
    ASSUME DisclosureInv, CommitterStep
    PROVE  DisclosureInv'
PROOF
  <1>1. /\ UNCHANGED <<stage, required, original, hidden, opened>>
        /\ stage \in {"Structure", "Values"} /\ Step /\ sums' = sums
    BY DEF CommitterStep, vars, loopVars
  <1>2. UNCHANGED <<doc, http, called>> /\ committed \subseteq committed'
    BY <1>1, HttpStepCases DEF Step, Return, HttpStep, Becomes, Fails, Accepts
  <1>3. Regular' = Regular /\ Chosen' = Chosen
    BY <1>1 DEF Regular, Chosen
  <1>4. ASSUME Regular
        PROVE  OpensInv' /\ HeadersWithBody' /\ CallsMade'
    <2>1. OpensInv /\ HeadersWithBody /\ CallsMade
      BY <1>1, <1>4 DEF DisclosureInv
    <2>2. OpensInv'
      BY <1>1, <2>1, OpensStep, OpensReturn DEF Step
    <2>3. HeadersWithBody'
      BY <1>2, <2>1, SameMessages
    <2>4. CallsMade'
      <3>1. StructureIn(required) => StructureIn(required)'
        BY <1>1, <1>2, SameMessages
      <3> QED
        BY <1>1, <1>2, <2>1, <3>1 DEF CallsMade, StructureCall
    <2> QED
      BY <2>2, <2>3, <2>4
  <1>5. DisclosedExactly'
    BY <1>1, <1>2, <1>3, SameDisclosure DEF DisclosureInv, SumsGoOn
  <1> QED
    BY <1>1, <1>3, <1>4, <1>5 DEF DisclosureInv

(* The verifier's part, and what changes nothing: the committers and the    *)
(* prover's choice stay as they are.                                        *)
LEMMA VerifierKeeps ==
    ASSUME DisclosureInv, stage # "Parsing", UNCHANGED <<callVars, required, original, hidden, opened>>,
           SumsGoOn,
           \/ stage' = stage
           \/ stage \in {"Presented", "ParsingPartial"} /\ stage' \in {"ParsingPartial", "Reported"}
    PROVE  DisclosureInv'
PROOF
  <1>1. UNCHANGED <<doc, http, committed, called>> /\ UNCHANGED callVars /\ UNCHANGED <<required, original, hidden, opened>>
    BY DEF callVars
  <1>2. (Regular' => Regular) /\ (Chosen' => Chosen) /\ stage' # "Parsing"
    BY <1>1 DEF Regular, Chosen, SumsGoOn
  <1>3. ASSUME Regular
        PROVE  OpensInv' /\ HeadersWithBody' /\ CallsMade'
    <2>1. OpensInv /\ HeadersWithBody /\ CallsMade
      BY <1>3 DEF DisclosureInv
    <2>2. OpensInv'
      BY <1>1, <2>1, OpensUnchanged
    <2>3. HeadersWithBody'
      BY <1>1, <2>1, SameMessages
    <2>4. CallsMade'
      <3>1. StructureIn(required) => StructureIn(required)'
        BY <1>1, SameMessages
      <3> QED
        BY <1>1, <2>1, <3>1 DEF CallsMade, StructureCall
    <2> QED
      BY <2>2, <2>3, <2>4
  <1>4. DisclosedExactly'
    BY <1>1, <1>2, SameDisclosure DEF DisclosureInv
  <1> QED
    BY <1>2, <1>3, <1>4 DEF DisclosureInv

LEMMA TakeParsedKeeps ==
    ASSUME DisclosureInv, TakeParsed
    PROVE  DisclosureInv'
PROOF
  <1>1. /\ IInv /\ Built /\ NothingCalled
        /\ stage' = "Parsed" /\ doc' = ParsedDoc /\ http' = ParsedHttp
        /\ original' = [d \in Direction |-> [stream |-> transcript[d], messages |-> parsed[d]]]
        /\ UNCHANGED <<agenda, committed, failed, calling, called, completed>>
        /\ sums' = sums
    BY DEF TakeParsed, DisclosureInv, vars, loopVars
  <1>2. NothingCalled' /\ called' = {}
    BY <1>1 DEF NothingCalled
  <1>3. ASSUME Regular'
        PROVE  OpensInv' /\ HeadersWithBody' /\ CallsMade'
    <2>1. RegularParsed
      <3>1. \A d \in Direction : /\ original'[d].stream = transcript[d]
                                 /\ original'[d].messages = parsed[d]
        BY <1>1
      <3> QED
        BY <1>1, <1>3, <3>1 DEF Regular, RegularParsed
    <2>2. WellParsed(ParsedDoc, ParsedHttp)
      BY <1>1, <2>1, TakenIsWellParsed
    <2>3. Parsed'
      BY <1>1, <2>2 DEF Parsed
    <2>4. OpensInv'
      BY <1>2, <2>3, OpensInitAfter
    <2>5. ASSUME NEW d \in Direction, NEW k \in DOMAIN http'[d], http'[d][k].body # {}
          PROVE  http'[d][k].headers # << >>
      <3>1. Direction = {"Sent", "Received"} /\ DOMAIN ParsedHttp[d] = DOMAIN parsed[d]
        BY DEF ParsedHttp, Direction
      <3>2. k \in DOMAIN parsed[d]
        BY <1>1, <2>5, <3>1
      <3>3. http'[d][k].body = parsed[d][k].body /\ http'[d][k].headers = parsed[d][k].headers
        BY <1>1, <3>2, ParsedFields
      <3> QED
        BY <1>1, <2>5, <3>1, <3>2, <3>3 DEF Built, BuiltMessage
    <2>6. HeadersWithBody'
      BY <2>5 DEF HeadersWithBody
    <2>7. CallsMade'
      BY <1>1, <1>2 DEF CallsMade
    <2> QED
      BY <2>4, <2>6, <2>7
  <1>4. DisclosedExactly'
    BY <1>1 DEF DisclosedExactly, Chosen
  <1> QED
    BY <1>1, <1>3, <1>4 DEF DisclosureInv

LEMMA CommitToStructureKeeps ==
    ASSUME DisclosureInv, CommitToStructure
    PROVE  DisclosureInv'
PROOF
  <1>1. /\ stage = "Parsed" /\ stage' = "Structure" /\ CallCommitter(StructureCall)
        /\ UNCHANGED <<original, required>> /\ sums' = sums
    BY DEF CommitToStructure, vars, loopVars
  <1>2. UNCHANGED <<doc, http, committed>> /\ called' = called \cup {StructureCall}
    BY <1>1 DEF CallCommitter
  <1>3. Regular' = Regular
    BY <1>1 DEF Regular
  <1>4. ASSUME Regular
        PROVE  OpensInv' /\ HeadersWithBody' /\ CallsMade'
    <2>1. OpensInv /\ HeadersWithBody /\ called = {}
      BY <1>1, <1>4 DEF DisclosureInv, CallsMade
    <2>2. OpensInv'
      <3>1. StructureCall \in AllCalls
        BY DEF StructureCall, AllCalls, WholeCalls
      <3> QED
        BY <1>1, <2>1, <3>1, OpensCall
    <2>3. HeadersWithBody'
      BY <1>2, <2>1, SameMessages
    <2>4. CallsMade'
      BY <1>1, <1>2, <2>1 DEF CallsMade, StructureCall
    <2> QED
      BY <2>2, <2>3, <2>4
  <1>5. DisclosedExactly'
    BY <1>1 DEF DisclosedExactly, Chosen
  <1> QED
    BY <1>1, <1>3, <1>4, <1>5 DEF DisclosureInv

(* What is committed when commit_structure returned. *)
LEMMA StructureCommitted ==
    ASSUME OpensInv, called \subseteq {StructureCall}, StructureCall \in completed
    PROVE  StructureIn(committed)
PROOF
  <1>1. StructureCall.routine = "transcript_structure"
    BY DEF StructureCall, Call
  <1>2. \A d, k : ~ CommitAsked(d, k)
    BY <1>1 DEF CommitAsked, CommitsMessage
  <1>3. ASSUME NEW e \in committed
        PROVE  /\ e[1] \in Direction
               /\ \E k \in DOMAIN http[e[1]] :
                     e[2] \subseteq http[e[1]][k].span \ LeftOut(http[e[1]][k], e[1])
    BY <1>2, CommitmentFacts DEF OpensInv
  <1>4. ASSUME NEW d \in Direction, NEW k \in DOMAIN http[d], NEW i \in Rest(http[d][k], LeftOut(http[d][k], d))
        PROVE  \E e \in committed : e[1] = d /\ i \in e[2]
    <2>1. PICK H : H = LeftOut(http[d][k], d)
      OBVIOUS
    <2>2. H \in Hides(StructureCall, d, k)
      BY <1>1, <2>1 DEF Hides
    <2>3. i \in Openable(d, H)
      BY <2>1, <2>2 DEF OpensInv, Finished
    <2> QED
      BY <2>3 DEF Openable
  <1> QED
    BY <1>3, <1>4 DEF StructureIn

LEMMA CommitToValuesKeeps ==
    ASSUME DisclosureInv, CommitToValues
    PROVE  DisclosureInv'
PROOF
  <1>1. /\ stage = "Structure" /\ stage' = "Values" /\ CallCommitter(TranscriptCall)
        /\ StructureCall \in completed /\ required' = committed /\ UNCHANGED original
    BY DEF CommitToValues
  <1>2. UNCHANGED <<doc, http, committed>>
    BY <1>1 DEF CallCommitter
  <1>3. Regular' = Regular
    <2>1. sums' = sums
      BY DEF CommitToValues, vars, loopVars
    <2> QED
      BY <1>1, <2>1 DEF Regular
  <1>4. ASSUME Regular
        PROVE  OpensInv' /\ HeadersWithBody' /\ CallsMade'
    <2>1. OpensInv /\ HeadersWithBody /\ called \subseteq {StructureCall}
      BY <1>1, <1>4 DEF DisclosureInv, CallsMade
    <2>2. OpensInv'
      <3>1. TranscriptCall \in AllCalls
        BY DEF TranscriptCall, AllCalls, WholeCalls
      <3> QED
        BY <1>1, <2>1, <3>1, OpensCall
    <2>3. HeadersWithBody'
      BY <1>2, <2>1, SameMessages
    <2>4. CallsMade'
      <3>1. StructureIn(committed)
        BY <1>1, <2>1, StructureCommitted
      <3>2. StructureIn(required)'
        BY <1>1, <1>2, <3>1, SameAnswers DEF StructureIn
      <3> QED
        BY <1>1, <3>2 DEF CallsMade
    <2> QED
      BY <2>2, <2>3, <2>4
  <1>5. DisclosedExactly'
    BY <1>1 DEF DisclosedExactly, Chosen
  <1> QED
    BY <1>1, <1>3, <1>4, <1>5 DEF DisclosureInv

LEMMA ChooseKeeps ==
    ASSUME DisclosureInv, Choose
    PROVE  DisclosureInv'
PROOF
  <1>1. /\ stage = "Values" /\ stage' = "Presented" /\ TranscriptCall \in completed
        /\ UNCHANGED callVars /\ UNCHANGED <<original, required>>
        /\ opened' = [d \in Direction |-> OpenedBy(d, hidden'[d])] /\ sums' = sums
    BY DEF Choose, vars, loopVars
  <1>2. PICK s \in SUBSET Hideable("Sent"), r \in SUBSET Hideable("Received") :
          hidden' = [d \in Direction |-> IF d = "Sent" THEN s ELSE r]
    BY DEF Choose
  <1>3. \A d \in Direction : hidden'[d] \in SUBSET Hideable(d) /\ opened'[d] = OpenedBy(d, hidden'[d])
    BY <1>1, <1>2 DEF Direction
  <1>4. UNCHANGED <<doc, http, committed>>
    BY <1>1 DEF callVars
  <1>5. Regular' = Regular
    BY <1>1 DEF Regular
  <1>6. ASSUME Regular
        PROVE  /\ OpensInv /\ HeadersWithBody /\ StructureIn(required)
               /\ OpensInv' /\ HeadersWithBody' /\ CallsMade'
    <2>1. OpensInv /\ HeadersWithBody /\ StructureIn(required)
      BY <1>1, <1>6 DEF DisclosureInv, CallsMade
    <2>2. OpensInv' /\ HeadersWithBody'
      BY <1>1, <1>4, <2>1, OpensUnchanged, SameMessages
    <2>3. StructureIn(required)'
      BY <1>1, <1>4, <2>1, SameMessages
    <2> QED
      BY <1>1, <2>1, <2>2, <2>3 DEF CallsMade
  <1>7. DisclosedExactly'
    <2>1. /\ \A m : Loose(m)' = Loose(m)
          /\ \A d : Messages(d)' = Messages(d) /\ NeededToParse(d)' = NeededToParse(d)
      BY <1>4, SameAnswers, SameMessages
    <2>2. ASSUME Regular, NEW d \in Direction
          PROVE  LET loose == UNION {Loose(m) : m \in Messages(d)}
                     spans == UNION {m.span : m \in Messages(d)}
                 IN  opened'[d] \cup loose =
                         (spans \ ((UNION hidden'[d]) \ NeededToParse(d))) \cup loose
      <3>1. PICK choice : choice = hidden'[d]
        OBVIOUS
      <3> QED
        BY <1>1, <1>3, <1>6, <2>2, <3>1, ChoiceDiscloses
    <2> QED
      BY <1>5, <2>1, <2>2 DEF DisclosedExactly
  <1> QED
    BY <1>1, <1>5, <1>6, <1>7 DEF DisclosureInv

(* Parsing itself. *)
LEMMA ParseKeeps ==
    ASSUME DisclosureInv, Parse, stage = "Parsing"
    PROVE  DisclosureInv'
PROOF
  <1>1. Next /\ stage' = stage /\ UNCHANGED callVars /\ IInv /\ Built /\ NothingCalled
    BY DEF Parse, DisclosureInv
  <1>2. IInv' /\ Built'
    BY <1>1, StepInvariant, BuiltStep
  <1>3. NothingCalled'
    BY <1>1 DEF NothingCalled, callVars
  <1> QED
    BY <1>1, <1>2, <1>3 DEF DisclosureInv, DisclosedExactly, Chosen

LEMMA DisclosureStep == DisclosureInv /\ [DisclosureNext]_disclosureVars => DisclosureInv'
PROOF
  <1> SUFFICES ASSUME DisclosureInv, [DisclosureNext]_disclosureVars PROVE DisclosureInv'
    OBVIOUS
  <1>1. CASE Parse
    BY <1>1, ParseKeeps, VerifierKeeps, SumsStep DEF Parse
  <1>2. CASE ParsePartial
    BY <1>2, VerifierKeeps DEF ParsePartial, SumsGoOn
  <1>3. CASE BuildContext
    BY <1>3, VerifierKeeps DEF BuildContext, vars, loopVars, SumsGoOn
  <1>4. CASE UNCHANGED disclosureVars
    <2>1. /\ UNCHANGED vars /\ UNCHANGED callVars /\ UNCHANGED <<callVars, required, original, hidden, opened>>
          /\ stage' = stage
      BY <1>4 DEF disclosureVars
    <2>2. CASE stage = "Parsing"
      <3>1. IInv' /\ Built' /\ NothingCalled'
        <4>1. IInv /\ Built /\ NothingCalled
          BY <2>2 DEF DisclosureInv
        <4>2. IInv' /\ Built'
          BY <2>1, <4>1, StepInvariant, BuiltStep
        <4> QED
          BY <2>1, <4>1, <4>2 DEF NothingCalled, callVars
      <3> QED
        BY <2>1, <2>2, <3>1 DEF DisclosureInv, DisclosedExactly, Chosen
    <2>3. CASE stage # "Parsing"
      <3>1. SumsGoOn
        BY <2>1 DEF vars, loopVars, SumsGoOn
      <3> QED
        BY <2>1, <2>3, <3>1, VerifierKeeps
    <2> QED
      BY <2>2, <2>3
  <1> QED
    BY <1>1, <1>2, <1>3, <1>4, TakeParsedKeeps, CommitToStructureKeeps, CommitterKeeps,
       CommitToValuesKeeps, ChooseKeeps DEF DisclosureNext

(* However a prover's transcript is parsed, whatever of its header values   *)
(* and JSON values is chosen to be hidden: what is opened of both kinds of  *)
(* commitments is every byte of every message but the hidden ones.          *)
THEOREM OnlyChosenHidden == DisclosureSpec => []DisclosedExactly
PROOF
  <1>1. DisclosureInv => DisclosedExactly
    BY DEF DisclosureInv
  <1> QED
    BY DisclosureInitially, DisclosureStep, <1>1, PTL DEF DisclosureSpec
===============================================================================
