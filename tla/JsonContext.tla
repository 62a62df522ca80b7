------------------------------ MODULE JsonContext ------------------------------
(***************************************************************************)
(* What a verifier is told of a parsed JSON value: context/src/json/        *)
(* context.rs, which converts it to a serde_json value.  A parsed value is  *)
(* a sequence of nodes [type, text, key, elems, ...], the root first and    *)
(* elements behind what they are in; key is the key of the pair a node is   *)
(* the value of.  A text is a sequence of cells.                            *)
(***************************************************************************)
EXTENDS Naturals, Sequences

CONSTANTS
    IntegerOf,     \* a function from the texts that parse to an i64
    FloatOf,       \* a function from the numbers with a point to the nearest f64
    Infinite       \* what FloatOf gives for a number beyond the range of f64

StringValue(text) == [is |-> "String", text |-> text]
NumberValue(value) == [is |-> "Number", value |-> value]

HasPoint(text) == \E i \in DOMAIN text : text[i] = "."

(* No integer is written with a point. *)
ASSUME IntegerAssumption == \A text \in DOMAIN IntegerOf : ~ HasPoint(text)

(* Mutant of NumberContext: an integer that is too large is rounded. *)
NumberRounded(text) ==
    IF text \in DOMAIN IntegerOf THEN NumberValue(IntegerOf[text]) ELSE NumberValue(0)

(* visit_value of a number: an f64 if it has a point, or 0 if that is no    *)
(* finite one; else an i64, or its text if it is none.                      *)
NumberContext(text) ==
    CASE HasPoint(text) /\ FloatOf[text] = Infinite -> NumberValue(0)
      [] HasPoint(text) /\ FloatOf[text] # Infinite -> NumberValue(FloatOf[text])
      [] ~ HasPoint(text) /\ text \in DOMAIN IntegerOf -> NumberValue(IntegerOf[text])
      [] OTHER -> StringValue(text)

(* visit_value of a value without elements *)
LiteralContext(node) ==
    CASE node.type = "Null" -> [is |-> "Null"]
      [] node.type = "Bool" -> [is |-> "Bool", text |-> node.text]
      [] node.type = "Redacted" -> StringValue(<<"__REDACTED__">>)
      [] node.type = "String" -> StringValue(node.text)
      [] node.type = "Number" -> NumberContext(node.text)

(* The values of the pairs of n that have the key, by their place. *)
Places(nodes, n, key) ==
    {k \in DOMAIN nodes[n].elems : nodes[nodes[n].elems[k]].key = key}

(* HashMap::insert in the order of the pairs: the last of a key is kept. *)
Inserted(nodes, n, key) ==
    CHOOSE k \in Places(nodes, n, key) : \A j \in Places(nodes, n, key) : j <= k

Keys(nodes, n) == {nodes[nodes[n].elems[k]].key : k \in DOMAIN nodes[n].elems}

(* visit_value, visit_object and visit_array of the root *)
ContextOf(nodes) ==
    LET context[n \in DOMAIN nodes] ==
            CASE nodes[n].type = "Object" ->
                   [is |-> "Object",
                    members |-> [key \in Keys(nodes, n) |->
                                   context[nodes[n].elems[Inserted(nodes, n, key)]]]]
              [] nodes[n].type = "Array" ->
                   [is |-> "Array",
                    elems |-> [k \in DOMAIN nodes[n].elems |-> context[nodes[n].elems[k]]]]
              [] OTHER -> LiteralContext(nodes[n])
    IN  context[1]
===============================================================================
