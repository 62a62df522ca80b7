------------------------------- MODULE HttpCaller -------------------------------
(***************************************************************************)
(* Whoever calls the HTTP committer: one call after the other with one      *)
(* builder, whether or not earlier calls failed, on messages as the parser  *)
(* yields them.  HttpCommit makes any calls, SelectiveDisclosure the two of *)
(* a prover.                                                                *)
(***************************************************************************)
EXTENDS HttpCommitter, FiniteSets

CONSTANT None

VARIABLES
    calling,       \* the call being made, or None
    called,        \* auxiliary: every call ever made
    completed      \* auxiliary: every call that returned Ok

callVars == <<doc, http, agenda, committed, failed, calling, called, completed>>

(* What the parser yields: the parts of a message are apart, as are the     *)
(* messages of a direction, and the values of a JSON body are nested in it. *)
IsSequence(s) == Len(s) \in Nat /\ DOMAIN s = 1 .. Len(s)

PartsDisjoint(m) ==
    LET header(k) == m.headers[k].span
    IN  /\ m.target \cup m.body \subseteq m.span
        /\ m.target \cap m.body = {}
        /\ IsSequence(m.headers)
        /\ \A k \in DOMAIN m.headers :
              /\ m.headers[k].value \subseteq header(k)
              /\ header(k) \subseteq m.span \ (m.target \cup m.body)
              /\ \A j \in DOMAIN m.headers \ {k} : header(j) \cap header(k) = {}
        /\ IsSequence(m.boundaries)
        /\ \A b \in DOMAIN m.boundaries :
              /\ m.boundaries[b] \subseteq m.span \ m.body
              /\ \A k \in DOMAIN m.headers : header(k) \cap m.boundaries[b] = {}

Nodes(m) == {m.json[n] : n \in DOMAIN m.json}

ValuesInBody(d, m) ==
    /\ m.json \in Seq(Nodes(m)) /\ Nodes(m) \subseteq DOMAIN d
    /\ \A n \in Nodes(m) : d[n].span \cup d[n].pair \subseteq m.body
    /\ WellNested([n \in Nodes(m) |-> d[n]])

WellParsed(values, messages) ==
    /\ DOMAIN messages = Direction
    /\ \A d \in Direction :
          /\ IsSequence(messages[d])
          /\ \A k \in DOMAIN messages[d] :
                /\ PartsDisjoint(messages[d][k]) /\ ValuesInBody(values, messages[d][k])
                /\ d = "Received" => messages[d][k].target = {}
                /\ \A l \in DOMAIN messages[d] \ {k} :
                      messages[d][k].span \cap messages[d][l].span = {}

NothingCalled ==
    /\ agenda = << >> /\ committed = {} /\ failed = FALSE
    /\ calling = None /\ called = {} /\ completed = {}

WholeCalls == {Call("commit_transcript", 0, "Sent"), Call("transcript_structure", 0, "Sent")}
MessageCallsOf(d) == {Call("commit_message", k, d) : k \in DOMAIN http[d]}
AllCalls == WholeCalls \cup UNION {MessageCallsOf(d) : d \in Direction}

CallCommitter(call) ==
    /\ calling = None
    /\ calling' = call
    /\ called' = called \cup {call}
    /\ agenda' = <<call>>
    /\ failed' = FALSE
    /\ UNCHANGED <<doc, http, committed, completed>>

Return ==
    /\ calling # None /\ agenda = << >>
    /\ completed' = IF failed THEN completed ELSE completed \cup {calling}
    /\ calling' = None
    /\ UNCHANGED <<doc, http, agenda, committed, failed, called>>

Step ==
    \/ HttpStep /\ UNCHANGED <<calling, called, completed>>
    \/ Return

-------------------------------------------------------------------------------
(* The primitive values in the body of a message. *)
Leaves(m) == {n \in Nodes(m) : doc[n].kind \notin {"Object", "Array"}}

(* What may be left out of message m: its target, the values of its headers *)
(* and the primitive values in its body.                                    *)
HeaderValues(m) == {m.headers[k].value : k \in DOMAIN m.headers}
LeafSpans(m) == {doc[l].span : l \in Leaves(m)}
Parts(m) == {m.target} \cup HeaderValues(m) \cup LeafSpans(m)

(* The bytes of a JSON body that are in no JSON value: those behind the     *)
(* value, and the quotes of a string that is the body.                      *)
Loose(m) == IF m.json # << >> THEN m.body \ doc[m.json[1]].span ELSE {}

(* commit_structure leaves out the value of header k: parse does not need   *)
(* it.  Of a name that frames a request only the first header counts, as it *)
(* does for the parser.                                                     *)
IsLeftOut(m, d, k) ==
    \/ ~ IsFraming(m.headers[k])
    \/ d = "Sent" /\ k \notin FirstWithName(m.headers, m.headers[k].name)

LeftOut(m, d) ==
    (UNION LeafSpans(m))
        \cup UNION {m.headers[k].value : k \in {j \in DOMAIN m.headers : IsLeftOut(m, d, j)}}

Committed(d) == UNION {c[2] : c \in {e \in committed : e[1] = d}}
Openable(d, hidden) ==
    UNION {c[2] : c \in {e \in committed : e[1] = d /\ e[2] \cap hidden = {}}}

(* A call commits message k of direction d with its values. *)
CommitsMessage(c, d, k) ==
    \/ c.routine = "commit_transcript"
    \/ c.routine = "commit_message" /\ c.direction = d /\ c.node = k
===============================================================================
