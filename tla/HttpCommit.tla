------------------------------- MODULE HttpCommit -------------------------------
(***************************************************************************)
(* A caller of the HTTP committer that commits the transcript, its          *)
(* structure or single messages, in any order, with one builder, whether or *)
(* not earlier calls failed.                                                *)
(***************************************************************************)
EXTENDS HttpCaller

CONSTANTS
    Parses,        \* [doc, http]: parsed transcripts and the values in them
    MaxCalls       \* how many different calls the caller makes

ASSUME ParsesAssumption == \A t \in Parses : WellParsed(t.doc, t.http)

CommitInit ==
    /\ \E t \in Parses : doc = t.doc /\ http = t.http
    /\ NothingCalled

MakeCall ==
    \E call \in AllCalls :
        /\ Cardinality(called \cup {call}) <= MaxCalls
        /\ CallCommitter(call)

CommitNext == MakeCall \/ Step

CommitSpec == CommitInit /\ [][CommitNext]_callVars

-------------------------------------------------------------------------------
(* Unless a message was committed itself, no byte of the values that        *)
(* commit_structure leaves out is in any commitment, wherever it stops.     *)
StructureHides ==
    \A d \in Direction : \A k \in DOMAIN http[d] :
        \/ LeftOut(http[d][k], d) \cap Committed(d) = {}
        \/ \E c \in called : CommitsMessage(c, d, k)

(* No commitment joins bytes of two messages, or of no message, and only    *)
(* messages that were asked for take part in one.                           *)
OneMessage ==
    \A e \in committed : e[2] # {} =>
        \E k \in DOMAIN http[e[1]] :
            /\ e[2] \subseteq http[e[1]][k].span
            /\ \E c \in called : CommitsMessage(c, e[1], k) \/ c.routine = "transcript_structure"

(* After commit_structure, all of a message but the values that it leaves   *)
(* out can be opened without them.                                          *)
StructureOpens ==
    (\E c \in completed : c.routine = "transcript_structure") =>
        \A d \in Direction : \A k \in DOMAIN http[d] :
            LET m == http[d][k]
                hidden == LeftOut(m, d)
            IN  m.span \ (hidden \cup Loose(m)) \subseteq Openable(d, hidden)

(* After a message was committed, whatever parts of it are to stay hidden,  *)
(* the rest can be opened without them.  A message without headers and body *)
(* has only its target, which cannot be left out (see TargetApart).         *)
SelectionOpens ==
    \A c \in completed : \A d \in Direction : \A k \in DOMAIN http[d] :
        LET m == http[d][k]
        IN  CommitsMessage(c, d, k) /\ m.headers # << >> =>
                \A kept \in SUBSET Parts(m) :
                    m.span \ ((UNION kept) \cup Loose(m)) \subseteq Openable(d, UNION kept)

(* "commits to the request excluding the target" (http/commit.rs:112) *)
TargetApart ==
    \A c \in completed : \A k \in DOMAIN http["Sent"] :
        LET m == http["Sent"][k]
        IN  CommitsMessage(c, "Sent", k) /\ m.headers = << >> /\ m.body = {} =>
                m.span \ m.target \subseteq Openable("Sent", m.target)
===============================================================================
