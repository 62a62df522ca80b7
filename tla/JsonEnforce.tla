------------------------------ MODULE JsonEnforce ------------------------------
(***************************************************************************)
(* The default enforcer of context/src/json/enforce.rs, which panics unless *)
(* a value has the structure of a disclosed one, and the paths of           *)
(* spanner/src/json/types.rs by which callers read either of them.  A value *)
(* is [kind, text, keys, elems]; the recursion of the enforcer is an agenda *)
(* of visits, and that of get the steps of a caller who follows one path,   *)
(* of any length, in the structure and in the value it was accepted for.    *)
(***************************************************************************)
EXTENDS Naturals, Sequences

CONSTANTS
    Values,        \* the JSON values a parser produced, and the values in them
    Steps,         \* what paths are made of: keys, and indices from 0
    Disclosures    \* <<structure, value>> where the structure discloses the value

VARIABLES
    structure, value,   \* what is compared
    agenda,             \* the visits still to be made, the next one first
    outcome,            \* "Visiting", "Accepted" or "Panicked"
    read                \* where a path has led so far, in structure and in value

vars == <<structure, value, agenda, outcome, read>>

Literal == {"Bool", "Number", "String"}
Kinds == Literal \cup {"Null", "Redacted", "Array", "Object"}

(* The parser pairs every element of an object with a key.                  *)
ASSUME ValuesAssumption ==
    \A v \in Values :
        /\ v.kind \in Kinds
        /\ v.elems \in Seq(Values)
        /\ v.elems # << >> => v.kind \in {"Array", "Object"}
        /\ v.kind = "Object" => DOMAIN v.keys = DOMAIN v.elems

(* elems.iter().find by key, as a set of at most one value *)
Find(v, key) ==
    {v.elems[k] : k \in {j \in DOMAIN v.keys : /\ v.keys[j] = key
                                               /\ \A i \in 1 .. j - 1 : v.keys[i] # key}}

At(v, i) == IF i \in DOMAIN v.elems THEN {v.elems[i]} ELSE {}

-------------------------------------------------------------------------------
(* A visit compares a structure with what was found for it. *)
Visit(s, found) == [structure |-> s, found |-> found]

(* Mutant of ArrayVisits: only as many elements as the value has. *)
ArrayVisitsZipped(s, v) ==
    [i \in DOMAIN s.elems \cap DOMAIN v.elems |-> Visit(s.elems[i], {v.elems[i]})]

(* visit_array *)
ArrayVisits(s, v) == [i \in DOMAIN s.elems |-> Visit(s.elems[i], At(v, i))]

(* Mutant of ObjectVisits: values are matched by their place. *)
ObjectVisitsInOrder(s, v) == [i \in DOMAIN s.elems |-> Visit(s.elems[i], At(v, i))]

(* visit_object *)
ObjectVisits(s, v) == [i \in DOMAIN s.elems |-> Visit(s.elems[i], Find(v, s.keys[i]))]

Goes(visits) == agenda' = visits \o Tail(agenda) /\ UNCHANGED outcome

(* Mutant of Panics: the visits that were to follow are made. *)
PanicsOn == agenda' = Tail(agenda) /\ outcome' = "Panicked"

Panics == agenda' = << >> /\ outcome' = "Panicked"

SameLiteral(s, v) == s.kind \in Literal /\ v.kind = s.kind /\ v.text = s.text

Ignored(s, v) ==
    \/ s.kind = "Redacted"
    \/ s.kind = "Null" /\ v.kind = "Null"
    \/ SameLiteral(s, v)

(* visit_value *)
VisitValue ==
    /\ agenda # << >>
    /\ LET s == Head(agenda).structure
       IN  \/ Head(agenda).found = {} /\ Panics
           \/ \E v \in Head(agenda).found :
                 \/ Ignored(s, v) /\ Goes(<< >>)
                 \/ s.kind = "Array" /\ v.kind = "Array" /\ Goes(ArrayVisits(s, v))
                 \/ s.kind = "Object" /\ v.kind = "Object" /\ Goes(ObjectVisits(s, v))
                 \/ /\ ~ Ignored(s, v) /\ ~ (s.kind \in {"Array", "Object"} /\ v.kind = s.kind)
                    /\ Panics
    /\ UNCHANGED <<structure, value, read>>

Return ==
    /\ agenda = << >> /\ outcome = "Visiting"
    /\ outcome' = "Accepted"
    /\ UNCHANGED <<structure, value, agenda, read>>

-------------------------------------------------------------------------------
(* Array::get: the element at an index, as a set of at most one value *)
Element(v, index) == {v.elems[i] : i \in {j \in DOMAIN v.elems : j - 1 = index}}

(* JsonValue::get, for one step of a path *)
GetStep(v, step) ==
    CASE v.kind = "Object" -> Find(v, step)
      [] v.kind = "Array" -> Element(v, step)
      [] OTHER -> {}

(* A caller reads one step further along a path that the structure has. *)
Get(step) ==
    /\ outcome = "Accepted"
    /\ \E s \in GetStep(read.structure, step) :
          read' = Visit(s, UNION {GetStep(v, step) : v \in read.found})
    /\ UNCHANGED <<structure, value, agenda, outcome>>

Init ==
    /\ structure \in Values /\ value \in Values
    /\ agenda = <<Visit(structure, {value})>>
    /\ outcome = "Visiting"
    /\ read = Visit(structure, {value})

Next == VisitValue \/ Return \/ \E step \in Steps : Get(step)

Spec == Init /\ [][Next]_vars

-------------------------------------------------------------------------------
(* The values a structure discloses but for what was redacted, with pairs   *)
(* in any order: every relation that is closed downwards is one.            *)
SamePart(s, v) == s.kind = v.kind /\ (s.kind \in Literal => s.text = v.text)

ASSUME DisclosuresAssumption ==
    \A d \in Disclosures :
        LET s == d[1] v == d[2]
        IN  /\ s \in Values /\ v \in Values
            /\ s.kind = "Redacted" \/ SamePart(s, v)
            /\ s.kind = "Array" =>
                  /\ Len(s.elems) = Len(v.elems)
                  /\ \A k \in DOMAIN s.elems : <<s.elems[k], v.elems[k]>> \in Disclosures
            /\ s.kind = "Object" =>
                  /\ \A j, k \in DOMAIN v.keys : v.keys[j] = v.keys[k] => j = k
                  /\ \A k \in DOMAIN s.elems : \E j \in DOMAIN v.elems :
                        s.keys[k] = v.keys[j] /\ <<s.elems[k], v.elems[j]>> \in Disclosures

Visits == [structure : Values, found : {{}} \cup {{v} : v \in Values}]

TypeOK ==
    /\ structure \in Values /\ value \in Values
    /\ agenda \in Seq(Visits) /\ read \in Visits
    /\ outcome \in {"Visiting", "Accepted", "Panicked"}
    /\ outcome # "Visiting" => agenda = << >>

(* Wherever a path leads to something disclosed in a structure, it leads in *)
(* every accepted value to a value of the same kind, and to the same text   *)
(* if it is a literal, also when keys occur twice: the enforcer and get     *)
(* choose the same pair.                                                    *)
AcceptedAgrees ==
    outcome = "Accepted" =>
        read.structure.kind = "Redacted" \/ \E v \in read.found : SamePart(read.structure, v)

(* A value is accepted by whatever discloses a part of it.                  *)
DisclosureAccepted == outcome = "Panicked" => <<structure, value>> \notin Disclosures

(* enforce.rs:38: "value must be an array with the same number of elements" *)
(* if the array of the structure is not empty.                              *)
SameNumber ==
    (outcome = "Accepted" /\ structure.kind = "Array" /\ structure.elems # << >>)
        => Len(value.elems) = Len(structure.elems)
===============================================================================
