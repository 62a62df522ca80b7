------------------------------ MODULE MCJsonEnforce ------------------------------
(* Small values, the steps of the paths in them, and what discloses what.   *)
(* Keys are numerals, so that one path may name a pair and an element.      *)
EXTENDS JsonEnforce

Leaf(kind, text) == [kind |-> kind, text |-> text, keys |-> << >>, elems |-> << >>]
Array(elems) == [kind |-> "Array", text |-> 0, keys |-> << >>, elems |-> elems]
Object(keys, elems) == [kind |-> "Object", text |-> 0, keys |-> keys, elems |-> elems]

UpToTwo(S) == {<< >>} \cup {<<a>> : a \in S} \cup {<<a, b>> : a \in S, b \in S}

One == Leaf("Number", 1)
Two == Leaf("Number", 2)
OneText == Leaf("String", 1)
Redacted == Leaf("Redacted", 0)
Few == {One, Two, Redacted}

Flat == Few \cup {OneText, Leaf("Bool", 1), Leaf("Null", 0)}
Arrays == {Array(s) : s \in UpToTwo(Few)} \cup {Array(<<OneText>>)}
Objects ==
    UNION {{Object(keys, elems) : keys \in [DOMAIN elems -> {0, 1}]} : elems \in UpToTwo(Few)}
Nested ==
    {Object(<<0, 1>>, <<Array(<<a>>), Object(<<1, 1>>, <<b, Two>>)>>) : a \in Few, b \in Few}
        \cup {Object(<<1, 0>>, <<Object(<<1>>, <<One>>), Array(<<One, a>>)>>) : a \in Few}
        \cup {Array(<<Object(<<0>>, <<a>>), Array(<< >>)>>) : a \in Few}

MCValues == Flat \cup Arrays \cup Objects \cup Nested
MCSteps == {0, 1}

(* s discloses v. *)
RECURSIVE Discloses(_, _)
Discloses(s, v) ==
    \/ s.kind = "Redacted"
    \/ s.kind \in Literal \cup {"Null"} /\ SamePart(s, v)
    \/ /\ s.kind = "Array" /\ v.kind = "Array"
       /\ Len(s.elems) = Len(v.elems)
       /\ \A k \in DOMAIN s.elems : Discloses(s.elems[k], v.elems[k])
    \/ /\ s.kind = "Object" /\ v.kind = "Object"
       /\ \A j, k \in DOMAIN v.keys : v.keys[j] = v.keys[k] => j = k
       /\ \A k \in DOMAIN s.keys : \E j \in DOMAIN v.keys :
             s.keys[k] = v.keys[j] /\ Discloses(s.elems[k], v.elems[j])

MCDisclosures == {d \in MCValues \X MCValues : Discloses(d[1], d[2])}
===============================================================================
