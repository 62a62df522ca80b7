------------------------------- MODULE JsonValues -------------------------------
(***************************************************************************)
(* A program that works with one parsed JSON value: it shifts its spans     *)
(* (JsonValue::offset, spanner/src/json/types.rs), walks through it with a  *)
(* visitor (spanner/src/json/visit.rs), and looks values up by their paths. *)
(* The recursion of offset and of the visitor is an agenda of calls still   *)
(* to be made.  The value itself is a sequence of nodes as in JsonContext.  *)
(***************************************************************************)
EXTENDS JsonContext, FiniteSets, SequencesExt

CONSTANTS
    Values,        \* parsed values
    Paths,         \* paths: sequences of keys and numerals, never empty
    IndexOf,       \* a function from the numerals to numbers
    Offsets,       \* the offsets a caller may ask for
    MaxCalls,      \* how many calls the program makes
    MaxUsize       \* usize::MAX

Before(S, T) == \A i \in S : \A j \in T : i < j

(* What a node of a value is all of: a pair, with its key in front of its   *)
(* value, or the value alone.                                               *)
Extent(node) == node.span \cup node.keySpan \cup node.pair

InPair(node) ==
    /\ node.pair # {} /\ node.keySpan \cup node.span \subseteq node.pair
    /\ Before(node.keySpan, node.span)

Alone(node) == node.pair = {} /\ node.keySpan = {}

(* A tree: every node but the root is one element of one node, which stands *)
(* in front of it.                                                          *)
IsTree(value) ==
    /\ value \in Seq({value[n] : n \in DOMAIN value}) /\ value # << >>
    /\ \A n \in DOMAIN value : value[n].elems \in Seq(n + 1 .. Len(value))
    /\ \A m \in 2 .. Len(value) : \E n \in DOMAIN value : \E k \in DOMAIN value[n].elems :
          value[n].elems[k] = m
    /\ \A n, l \in DOMAIN value : \A i \in DOMAIN value[n].elems : \A j \in DOMAIN value[l].elems :
          value[n].elems[i] = value[l].elems[j] => n = l /\ i = j

(* The parser finds elements inside of what they are in and in their order, *)
(* and only objects have pairs.                                             *)
LaidOutInOrder(value) ==
    /\ Alone(value[1])
    /\ \A n \in DOMAIN value :
          LET elem(k) == value[value[n].elems[k]]
          IN  /\ Extent(value[n]) \subseteq Nat
              /\ value[n].type \in {"Object", "Array", "String", "Number", "Bool", "Null", "Redacted"}
              /\ value[n].type \notin {"Object", "Array"} => value[n].elems = << >>
              /\ \A k \in DOMAIN value[n].elems :
                    /\ IF value[n].type = "Object" THEN InPair(elem(k)) ELSE Alone(elem(k))
                    /\ Extent(elem(k)) \subseteq value[n].span
                    /\ \A l \in DOMAIN value[n].elems : k < l => Before(Extent(elem(k)), Extent(elem(l)))

ASSUME ValuesAssumption == \A value \in Values : IsTree(value) /\ LaidOutInOrder(value)
ASSUME PathsAssumption ==
    /\ \A path \in Paths : path \in Seq({path[k] : k \in DOMAIN path}) /\ path # << >>
    /\ \A step \in DOMAIN IndexOf : IndexOf[step] \in Nat
ASSUME NumbersAssumption == Offsets \subseteq Nat /\ MaxCalls \in Nat /\ MaxUsize \in Nat

VARIABLES
    nodes,         \* the value, as it was parsed
    spans,         \* spans[part][n]: the indices now, of the value, its key
                   \* and the pair that both are in
    base,          \* auxiliary: the sum of the offsets of all calls that returned
    agenda,        \* the calls still to be made, the next one first
    by,            \* the offset of the call that is being made
    visited,       \* the spans given to the visitor, in order
    calls,         \* how many calls were made
    panicked

vars == <<nodes, spans, base, agenda, by, visited, calls, panicked>>

Parts == {"value", "key", "pair"}

ParsedSpans(value) ==
    [part \in Parts |->
        [n \in DOMAIN value |->
            CASE part = "value" -> value[n].span
              [] part = "key" -> value[n].keySpan
              [] part = "pair" -> value[n].pair]]

IsContainer(n) == nodes[n].type \in {"Object", "Array"}

Call(routine, n) == [routine |-> routine, node |-> n]
CallEach(routine, n) == [k \in DOMAIN nodes[n].elems |-> Call(routine, nodes[n].elems[k])]

NextCalls(routine) ==
    IF agenda # << >> /\ Head(agenda).routine = routine THEN {Head(agenda)} ELSE {}

Init ==
    /\ nodes \in Values
    /\ spans = ParsedSpans(nodes)
    /\ base = 0 /\ by = 0 /\ calls = 0
    /\ agenda = << >> /\ visited = << >>
    /\ panicked = FALSE

-------------------------------------------------------------------------------
CallOffset ==
    /\ agenda = << >> /\ calls < MaxCalls /\ ~ panicked
    /\ \E offset \in Offsets : by' = offset
    /\ agenda' = <<Call("offset", 1), Call("return", 1)>>
    /\ calls' = calls + 1
    /\ visited' = << >>
    /\ UNCHANGED <<nodes, spans, base, panicked>>

(* Span::offset, which panics where an index would overflow *)
Shift(part, n, calling) ==
    \/ /\ \E i \in spans[part][n] : i + 1 + by > MaxUsize
       /\ panicked' = TRUE /\ agenda' = << >>
       /\ UNCHANGED spans
    \/ /\ \A i \in spans[part][n] : i + 1 + by <= MaxUsize
       /\ spans' = [spans EXCEPT ![part][n] = {i + by : i \in @}]
       /\ agenda' = calling \o Tail(agenda)
       /\ UNCHANGED panicked

(* The elements of an array or the pairs of an object *)
ElementOffsets(n) == CallEach(IF nodes[n].type = "Object" THEN "offset_pair" ELSE "offset", n)

(* Mutant of PairOffsets: the pair is shifted, and the value in it, but not *)
(* the key.                                                                 *)
OffsetsWithoutKey(n) == <<Call("offset", n)>>

(* Behind the pair its key and its value *)
PairOffsets(n) == <<Call("offset_key", n), Call("offset", n)>>

(* JsonValue::offset *)
OffsetStep ==
    /\ \/ \E c \in NextCalls("offset") : Shift("value", c.node, ElementOffsets(c.node))
       \/ \E c \in NextCalls("offset_pair") : Shift("pair", c.node, PairOffsets(c.node))
       \/ \E c \in NextCalls("offset_key") : Shift("key", c.node, << >>)
    /\ UNCHANGED <<nodes, base, by, visited, calls>>

OffsetReturns ==
    /\ NextCalls("return") # {}
    /\ base' = base + by
    /\ agenda' = << >>
    /\ UNCHANGED <<nodes, spans, by, visited, calls, panicked>>

-------------------------------------------------------------------------------
CallVisitor ==
    /\ agenda = << >> /\ calls < MaxCalls /\ ~ panicked
    /\ agenda' = <<Call("visit_value", 1)>>
    /\ calls' = calls + 1
    /\ visited' = << >>
    /\ UNCHANGED <<nodes, spans, base, by, panicked>>

Becomes(calling) == agenda' = calling \o Tail(agenda) /\ UNCHANGED visited

(* A method that the visitor implements: it is shown the span. *)
Shown(part, n) ==
    /\ visited' = Append(visited, spans[part][n])
    /\ agenda' = Tail(agenda)

(* visit_value, visit_array and visit_object *)
VisitValue ==
    /\ \E c \in NextCalls("visit_value") :
          \/ nodes[c.node].type = "Array" /\ Becomes(CallEach("visit_value", c.node))
          \/ nodes[c.node].type = "Object" /\ Becomes(CallEach("visit_key_value", c.node))
          \/ ~ IsContainer(c.node) /\ Shown("value", c.node)
    /\ UNCHANGED <<nodes, spans, base, by, calls, panicked>>

(* Mutant of KeyValueVisits: the value comes first. *)
ValueBeforeKey(n) == <<Call("visit_value", n), Call("visit_key", n)>>

KeyValueVisits(n) == <<Call("visit_key", n), Call("visit_value", n)>>

VisitKeyValue ==
    /\ \E c \in NextCalls("visit_key_value") : Becomes(KeyValueVisits(c.node))
    /\ UNCHANGED <<nodes, spans, base, by, calls, panicked>>

VisitKey ==
    /\ \E c \in NextCalls("visit_key") : Shown("key", c.node)
    /\ UNCHANGED <<nodes, spans, base, by, calls, panicked>>

Next ==
    \/ CallOffset
    \/ OffsetStep
    \/ OffsetReturns
    \/ CallVisitor
    \/ VisitValue
    \/ VisitKeyValue
    \/ VisitKey

Spec == Init /\ [][Next]_vars

-------------------------------------------------------------------------------
(* Lookup by path, as sets of at most one node.  A pair is the node of its  *)
(* value.                                                                   *)

(* Object::get_keyvalue: the first pair with the key *)
PairWithKey(n, key) ==
    {nodes[n].elems[k] : k \in {j \in Places(nodes, n, key) :
                                  \A i \in Places(nodes, n, key) : j <= i}}

(* One step of Object::get and Array::get *)
Element(n, step) ==
    CASE nodes[n].type = "Object" -> PairWithKey(n, step)
      [] nodes[n].type = "Array" ->
           {nodes[n].elems[k] : k \in {j \in DOMAIN nodes[n].elems :
                                  step \in DOMAIN IndexOf /\ IndexOf[step] = j - 1}}
      [] OTHER -> {}

(* JsonValue::get *)
Get(path) ==
    LET found[k \in 0 .. Len(path)] ==
            IF k = 0 THEN {1} ELSE UNION {Element(n, path[k]) : n \in found[k - 1]}
    IN  found[Len(path)]

(* JsonValue::get_keyvalue: the last step is looked up in what the others   *)
(* lead to, if that is an object.                                           *)
GetKeyValue(path) ==
    UNION {PairWithKey(n, Last(path)) :
             n \in {m \in Get(Front(path)) : nodes[m].type = "Object"}}

-------------------------------------------------------------------------------
(* Between two calls, also after one that panicked, every span, of values,  *)
(* keys and pairs alike, is where it was parsed, shifted by the offsets of  *)
(* the calls that returned: no call of offset moves a part of a value.      *)
NamesSource ==
    agenda = << >> =>
        \A part \in Parts : \A n \in DOMAIN nodes :
            spans[part][n] = {i + base : i \in ParsedSpans(nodes)[part][n]}

Shows(S) == \E k \in DOMAIN visited : visited[k] = S

(* A visitor is shown every key and every literal once, in the order of the *)
(* source, at the place where it is after all shifts.                       *)
VisitsInOrder ==
    /\ \A k, l \in DOMAIN visited : k < l => Before(visited[k], visited[l])
    /\ visited # << >> /\ agenda = << >> =>
          /\ Len(visited) = Cardinality({n \in DOMAIN nodes : ~ IsContainer(n)})
                              + Cardinality({n \in DOMAIN nodes : nodes[n].pair # {}})
          /\ \A n \in DOMAIN nodes :
                /\ IsContainer(n) \/ Shows({i + base : i \in nodes[n].span})
                /\ nodes[n].pair = {} \/ Shows({i + base : i \in nodes[n].keySpan})

(* What the context says at a path, as a set of at most one value. *)
Members(context, step) ==
    {c.members[step] : c \in {x \in {context} : x.is = "Object" /\ step \in DOMAIN x.members}}
    \cup {c.elems[IndexOf[step] + 1] :
            c \in {x \in {context} : /\ x.is = "Array" /\ step \in DOMAIN IndexOf
                                     /\ IndexOf[step] + 1 \in DOMAIN x.elems}}

Told(path) ==
    LET told[k \in 0 .. Len(path)] ==
            IF k = 0 THEN {ContextOf(nodes)} ELSE UNION {Members(c, path[k]) : c \in told[k - 1]}
    IN  told[Len(path)]

KeysDiffer ==
    \A n \in DOMAIN nodes : nodes[n].type = "Object" => Cardinality(Keys(nodes, n)) = Len(nodes[n].elems)

(* The context gives the literal n: a string unchanged, an integer exactly  *)
(* or, where it does not fit, its digits.                                   *)
Gives(context, n) ==
    CASE nodes[n].type = "String" -> context = StringValue(nodes[n].text)
      [] nodes[n].type = "Number" /\ nodes[n].text \in DOMAIN IntegerOf ->
           context = NumberValue(IntegerOf[nodes[n].text])
      [] nodes[n].type = "Number" /\ ~ HasPoint(nodes[n].text) /\ nodes[n].text \notin DOMAIN IntegerOf ->
           context = StringValue(nodes[n].text)
      [] OTHER -> TRUE

(* The three ways to read a value agree.  A path leads to a pair exactly if *)
(* it leads to the value of one; and unless a key is repeated, which the    *)
(* context resolves to the last pair and get to the first, a path leads to  *)
(* the same literal in the serialized context (context/src/json/context.rs) *)
(* as in the value itself.                                                  *)
PathsAgree ==
    \A path \in Paths :
        /\ GetKeyValue(path) = {n \in Get(path) : nodes[n].pair # {}}
        /\ KeysDiffer =>
              /\ Cardinality(Told(path)) = Cardinality(Get(path))
              /\ \A n \in Get(path) : \A context \in Told(path) : Gives(context, n)
===============================================================================
