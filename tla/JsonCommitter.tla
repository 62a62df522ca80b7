----------------------------- MODULE JsonCommitter -----------------------------
(***************************************************************************)
(* The default JSON committer (context/src/json/commit.rs) over the parsed  *)
(* values of spanner/src/json/types.rs.  A document is a function on its    *)
(* values; the value of a key-value pair also stands for the pair.  The     *)
(* recursion of the committer is an agenda of calls still to be made; every *)
(* call of the builder is a step of its own, because each of them may fail  *)
(* and nothing that was committed before is taken back.                     *)
(***************************************************************************)
EXTENDS Naturals, Sequences

VARIABLES
    doc,           \* the document: doc[n] = [kind, span, elems, pair]
    agenda,        \* the calls still to be made, the next one first
    committed,     \* what the builder accepted: <<direction, positions>>
    failed         \* whether a call has failed

Direction == {"Sent", "Received"}

-------------------------------------------------------------------------------
(* Values as the parser nests them.  Elements lie in their array, between   *)
(* the brackets; a value lies in its pair, and the pair in its object.  A   *)
(* primitive value in a container lies in one of its elements, none lies in *)
(* the key, the colon or the comma of a pair, and no two overlap.           *)
Children(d, n) == {d[n].elems[k] : k \in DOMAIN d[n].elems}

IsContainer(d, n) == d[n].kind \in {"Object", "Array"}

Shaped(d) ==
    \A n \in DOMAIN d :
        /\ d[n].kind \in {"Object", "Array", "Primitive", "Redacted"}
        /\ d[n].span \in SUBSET Nat /\ d[n].pair \in SUBSET Nat
        /\ d[n].elems \in Seq(DOMAIN d)
        /\ d[n].kind = "Redacted" => d[n].span # {}

ElementsInside(d) ==
    \A n \in DOMAIN d : \A m \in Children(d, n) :
        /\ d[n].kind = "Object" => d[m].span \subseteq d[m].pair /\ d[m].pair \subseteq d[n].span
        /\ d[n].kind = "Array" =>
              \A i \in d[m].span : i \in d[n].span /\ \E a, b \in d[n].span : a < i /\ i < b

LeavesInElements(d) ==
    \A n, l \in DOMAIN d : IsContainer(d, n) /\ ~ IsContainer(d, l) =>
        \/ d[l].span \cap d[n].span = {}
        \/ \E m \in Children(d, n) : d[l].span \subseteq d[m].span

LeavesApart(d) ==
    /\ \A n, l \in DOMAIN d :
          ~ IsContainer(d, l) => d[l].span \cap (d[n].pair \ d[n].span) = {}
    /\ \A n, l \in DOMAIN d : ~ IsContainer(d, n) /\ ~ IsContainer(d, l) /\ n # l =>
          d[n].span \cap d[l].span = {}

WellNested(d) == Shaped(d) /\ ElementsInside(d) /\ LeavesInElements(d) /\ LeavesApart(d)

-------------------------------------------------------------------------------
Elems(n) == {doc[n].elems[k] : k \in DOMAIN doc[n].elems}

(* Object::without_pairs *)
WithoutPairs(n) == doc[n].span \ UNION {doc[m].pair : m \in Elems(n)}

(* Mutant of WithoutValue: the pair as a whole. *)
WithValue(n) == doc[n].pair

(* KeyValue::without_value of the pair with value n *)
WithoutValue(n) == doc[n].pair \ doc[n].span

(* Mutant of WithoutValues: the end of the range taken for its last byte. *)
WithoutValuesPastEnd(n) ==
    {i \in doc[n].span : \A j \in doc[n].span : i <= j}
        \cup {i + 1 : i \in {k \in doc[n].span : \A j \in doc[n].span : k >= j}}

(* Array::without_values: the brackets *)
WithoutValues(n) ==
    {i \in doc[n].span : \/ \A j \in doc[n].span : i <= j
                         \/ \A j \in doc[n].span : i >= j}

(* Array::separators: commas, whitespace and the quotes of strings *)
Separators(n) ==
    (doc[n].span \ WithoutValues(n)) \ UNION {doc[m].span : m \in Elems(n)}

(* The first of the ranges of a set of positions. *)
FirstRange(S) ==
    {i \in S : \E a \in S : /\ \A j \in S : a <= j
                            /\ a .. i \subseteq S}

-------------------------------------------------------------------------------
(* The calls on the agenda. *)
Call(routine, n, d) == [routine |-> routine, node |-> n, direction |-> d]
Commit(S, d) == [routine |-> "commit", ranges |-> S, direction |-> d]
CommitEach(S, d) == [routine |-> "commit_each", ranges |-> S, direction |-> d]

CallEach(routine, n, d) ==
    [k \in DOMAIN doc[n].elems |-> Call(routine, doc[n].elems[k], d)]

(* Mutant of StructureCalls: nothing between the elements of an array. *)
StructureWithoutSeparators(n, d) ==
    CASE doc[n].kind = "Object" ->
           <<Commit(WithoutPairs(n), d)>> \o CallEach("pair_structure", n, d)
      [] doc[n].kind = "Array" ->
           <<Commit(WithoutValues(n), d)>> \o CallEach("commit_structure", n, d)
      [] OTHER -> << >>

(* commit_structure *)
StructureCalls(n, d) ==
    CASE doc[n].kind = "Object" ->
           <<Commit(WithoutPairs(n), d)>> \o CallEach("pair_structure", n, d)
      [] doc[n].kind = "Array" ->
           <<Commit(WithoutValues(n), d), Commit(Separators(n), d)>>
              \o CallEach("commit_structure", n, d)
      [] OTHER -> << >>

(* Mutant of PairStructureCalls: goes on with the other committer. *)
PairStructureThenValue(n, d) == <<Commit(WithoutValue(n), d), Call("commit_value", n, d)>>

(* ... and what it does for each pair of an object *)
PairStructureCalls(n, d) == <<Commit(WithoutValue(n), d), Call("commit_structure", n, d)>>

(* commit_string, commit_number, commit_bool and commit_null, of which only *)
(* strings can be empty *)
PrimitiveCalls(n, d) == IF doc[n].span = {} THEN << >> ELSE <<Commit(doc[n].span, d)>>

(* commit_value: commit_object, commit_array and the committers of the      *)
(* other values *)
ValueCalls(n, d) ==
    CASE doc[n].kind = "Object" ->
           <<Commit(WithoutPairs(n), d)>> \o CallEach("commit_key_value", n, d)
      [] doc[n].kind = "Array" /\ doc[n].elems = << >> -> <<Commit(doc[n].span, d)>>
      [] doc[n].kind = "Array" /\ doc[n].elems # << >> ->
           <<Commit(doc[n].span, d), Commit(WithoutValues(n), d), CommitEach(Separators(n), d)>>
              \o CallEach("commit_value", n, d)
      [] doc[n].kind = "Primitive" -> PrimitiveCalls(n, d)
      [] OTHER -> << >>

(* commit_key_value *)
KeyValueCalls(n, d) == <<Commit(WithoutValue(n), d), Call("commit_value", n, d)>>

-------------------------------------------------------------------------------
NextCalls(routine) ==
    IF agenda # << >> /\ Head(agenda).routine = routine THEN {Head(agenda)} ELSE {}

(* A call is replaced by the calls it makes. *)
Becomes(calls) ==
    /\ agenda' = calls \o Tail(agenda)
    /\ UNCHANGED <<doc, committed, failed>>

(* Mutant of Fails: the error is dropped and the next call made. *)
FailsOnward ==
    /\ agenda' = Tail(agenda)
    /\ failed' = TRUE
    /\ UNCHANGED <<doc, committed>>

(* The ? operator: the error is handed to the first caller. *)
Fails ==
    /\ agenda' = << >>
    /\ failed' = TRUE
    /\ UNCHANGED <<doc, committed>>

CommitStructure ==
    \E c \in NextCalls("commit_structure") : Becomes(StructureCalls(c.node, c.direction))

PairStructure ==
    \E c \in NextCalls("pair_structure") : Becomes(PairStructureCalls(c.node, c.direction))

(* Mutant of CommitValue: a redacted value is a value without bytes. *)
CommitAnyValue ==
    \E c \in NextCalls("commit_value") : Becomes(ValueCalls(c.node, c.direction))

CommitValue ==
    \E c \in NextCalls("commit_value") :
        /\ doc[c.node].kind # "Redacted"
        /\ Becomes(ValueCalls(c.node, c.direction))

(* "cannot commit redacted value" *)
CommitRedacted ==
    \E c \in NextCalls("commit_value") : doc[c.node].kind = "Redacted" /\ Fails

CommitKeyValue ==
    \E c \in NextCalls("commit_key_value") : Becomes(KeyValueCalls(c.node, c.direction))

(* The loop over the ranges of the separators. *)
CommitRanges ==
    \E c \in NextCalls("commit_each") :
        LET first == FirstRange(c.ranges)
        IN  \/ c.ranges = {} /\ Becomes(<< >>)
            \/ /\ c.ranges # {}
               /\ Becomes(<<Commit(first, c.direction), CommitEach(c.ranges \ first, c.direction)>>)

(* builder.commit *)
BuilderCommits ==
    \E c \in NextCalls("commit") :
        \/ /\ committed' = committed \cup {<<c.direction, c.ranges>>}
           /\ agenda' = Tail(agenda)
           /\ UNCHANGED <<doc, failed>>
        \/ Fails

JsonStep ==
    \/ CommitStructure
    \/ PairStructure
    \/ CommitValue
    \/ CommitRedacted
    \/ CommitKeyValue
    \/ CommitRanges
    \/ BuilderCommits
===============================================================================
