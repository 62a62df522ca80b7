------------------------------- MODULE JsonCommit -------------------------------
(***************************************************************************)
(* A caller of the JSON committer: commit_structure and commit_value on any *)
(* values of a document, in any order, with one builder, whether or not     *)
(* earlier calls failed.                                                    *)
(***************************************************************************)
EXTENDS JsonCommitter, FiniteSets

CONSTANTS
    Documents,     \* documents a parser produced
    MaxCalls,      \* how many different calls the caller makes
    None

ASSUME DocumentsAssumption == \A d \in Documents : WellNested(d)

ASSUME NoneAssumption ==
    \A d \in Documents : None \notin [routine : {"commit_structure", "commit_value"},
                                    node : DOMAIN d, direction : Direction]

VARIABLES
    calling,       \* the call being made, or None
    called,        \* auxiliary: every call ever made
    completed      \* auxiliary: every call that returned Ok

vars == <<doc, agenda, committed, failed, calling, called, completed>>

Init ==
    /\ doc \in Documents
    /\ agenda = << >> /\ committed = {} /\ failed = FALSE
    /\ calling = None /\ called = {} /\ completed = {}

(* The caller calls commit_structure or commit_value on any value. *)
CallCommitter(routine, n, d) ==
    LET call == Call(routine, n, d)
    IN  /\ calling = None
        /\ Cardinality(called \cup {call}) <= MaxCalls
        /\ calling' = call
        /\ called' = called \cup {call}
        /\ agenda' = <<call>>
        /\ failed' = FALSE
        /\ UNCHANGED <<doc, committed, completed>>

Return ==
    /\ calling # None /\ agenda = << >>
    /\ completed' = IF failed THEN completed ELSE completed \cup {calling}
    /\ calling' = None
    /\ UNCHANGED <<doc, agenda, committed, failed, called>>

Step ==
    \/ JsonStep /\ UNCHANGED <<calling, called, completed>>
    \/ Return

Next ==
    \/ \E routine \in {"commit_structure", "commit_value"}, n \in DOMAIN doc, d \in Direction :
          CallCommitter(routine, n, d)
    \/ Step

Spec == Init /\ [][Next]_vars

-------------------------------------------------------------------------------
Leaves == {n \in DOMAIN doc : ~ IsContainer(doc, n)}

(* The bytes of a set of primitive values. *)
BytesOf(leaves) == UNION {doc[l].span : l \in leaves}

Calls(routines) == [routine : routines, node : DOMAIN doc, direction : Direction]
Commits == [routine : {"commit", "commit_each"}, ranges : SUBSET Nat, direction : Direction]
Item ==
    Calls({"commit_structure", "pair_structure", "commit_value", "commit_key_value"})
        \cup Commits

TypeOK ==
    /\ agenda \in Seq(Item)
    /\ committed \subseteq Direction \X SUBSET Nat
    /\ failed \in BOOLEAN
    /\ failed \/ calling = None => agenda = << >>
    /\ calling \in called \cup {None}
    /\ called \subseteq Calls({"commit_structure", "commit_value"})
    /\ completed \subseteq called

(* The positions committed in direction d. *)
Committed(d) == UNION {c[2] : c \in {e \in committed : e[1] = d}}

(* The bytes of a primitive value take part in a commitment only when       *)
(* commit_value was called on a value around it, in that direction: the     *)
(* structure of a document says nothing of the values in it, also after     *)
(* other calls failed half-way.                                             *)
StructureHides ==
    \A l \in Leaves, d \in Direction :
        \/ doc[l].span \cap Committed(d) = {}
        \/ \E c \in called : /\ c.routine = "commit_value" /\ c.direction = d
                             /\ doc[l].span \subseteq doc[c.node].span

(* A call commits to no byte outside of the value it is called on. *)
StaysInside ==
    \A d \in Direction :
        Committed(d) \subseteq UNION {doc[c.node].span : c \in {e \in called : e.direction = d}}

(* What can be opened in direction d without opening a position of hidden.  *)
Openable(d, hidden) ==
    UNION {c[2] : c \in {e \in committed : e[1] = d /\ e[2] \cap hidden = {}}}

(* After either call, everything in the value but the primitive values can  *)
(* be opened without them.                                                  *)
StructureOpens ==
    \A c \in completed :
        doc[c.node].span \ BytesOf(Leaves) \subseteq Openable(c.direction, BytesOf(Leaves))

(* After commit_value, whatever selection of primitive values is to stay    *)
(* hidden, all the rest can be opened without it.                           *)
SelectionOpens ==
    \A c \in completed : c.routine = "commit_value" =>
        \A kept \in SUBSET Leaves :
            doc[c.node].span \ BytesOf(kept) \subseteq Openable(c.direction, BytesOf(kept))

(* commit_value does not succeed on a value that holds a redacted one, at   *)
(* whatever depth and behind whatever has been committed before.            *)
RedactedFails ==
    \A c \in completed : c.routine = "commit_value" =>
        \A l \in Leaves :
            doc[l].kind = "Redacted" => ~ doc[l].span \subseteq doc[c.node].span
===============================================================================
