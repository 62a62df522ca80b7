------------------------------ MODULE JsonDocuments ------------------------------
(***************************************************************************)
(* JSON documents laid out as the parser of spanner/src/json/span.rs finds  *)
(* them in a text: a string stands between its quotes, a pair has its key,  *)
(* its colon and the comma behind it, and white space follows every comma.  *)
(* A text is a sequence of cells.                                           *)
(***************************************************************************)
EXTENDS Naturals, SequencesExt

Tree(type, kind, quotes, text, keys, elems) ==
    [type |-> type, kind |-> kind, quotes |-> quotes, text |-> text, keys |-> keys, elems |-> elems]

StringOf(text) == Tree("String", "Primitive", <<"quote">>, text, << >>, << >>)
NumberOf(text) == Tree("Number", "Primitive", << >>, text, << >>, << >>)
Text == StringOf(<<"a", "b">>)
EmptyText == StringOf(<< >>)
Number == NumberOf(<<"1">>)
Null == Tree("Null", "Primitive", << >>, <<"null">>, << >>, << >>)
StarsOf(text) == Tree("Redacted", "Redacted", << >>, text, << >>, << >>)
Stars == StarsOf(<<"*", "*">>)
Array(elems) == Tree("Array", "Array", << >>, << >>, << >>, elems)
ObjectWith(keys, elems) == Tree("Object", "Object", << >>, << >>, keys, elems)
Object(elems) == ObjectWith([k \in DOMAIN elems |-> "k"], elems)

IsLeaf(t) == t.kind \in {"Primitive", "Redacted"}
KeyText(t, k) == IF t.kind = "Object" THEN <<"quote", t.keys[k], "quote", ":">> ELSE << >>

(* The text of a value, with its quotes. *)
RECURSIVE TextOf(_)
TextOf(t) ==
    LET part(k) == KeyText(t, k) \o TextOf(t.elems[k])
                      \o (IF k < Len(t.elems) THEN <<",", " ">> ELSE << >>)
    IN  IF IsLeaf(t) THEN t.quotes \o t.text \o t.quotes
        ELSE <<t.kind>> \o FlattenSeq([k \in DOMAIN t.elems |-> part(k)]) \o <<"end">>

Width(t) == Len(TextOf(t))

(* The values of t, laid out from position at; ids are consecutive from id. *)
(* key and pair are the key and the span of the pair that t is in; the key  *)
(* is one cell, behind its quote.                                           *)
RECURSIVE LayOut(_, _, _, _, _)
LayOut(t, at, key, pair, id) ==
    LET keySize == IF t.kind = "Object" THEN 4 ELSE 0
        size(k) == Width(t.elems[k]) + keySize
        from(k) == at + 1 + FoldSeq(LAMBDA j, n : n + size(j) + 2, 0, [j \in 1 .. k - 1 |-> j])
        comma(k) == IF k < Len(t.elems) THEN 1 ELSE 0
        pairOf(k) == IF t.kind = "Object" THEN from(k) .. from(k) + size(k) + comma(k) - 1 ELSE {}
        keyOf(k) == IF t.kind = "Object" THEN t.keys[k] ELSE ""
        RECURSIVE parts(_, _)
        parts(k, next) ==
            IF k > Len(t.elems) THEN << >>
            ELSE LET part == LayOut(t.elems[k], from(k) + keySize, keyOf(k), pairOf(k), next)
                 IN  <<part>> \o parts(k + 1, next + Len(part))
        below == parts(1, id + 1)
        start(k) == id + 1 + Len(FlattenSeq(SubSeq(below, 1, k - 1)))
    IN  <<[type |-> t.type, kind |-> t.kind, text |-> t.text,
           span |-> at + Len(t.quotes) .. at + Width(t) - Len(t.quotes) - 1,
           elems |-> [k \in DOMAIN t.elems |-> start(k)],
           key |-> key, keySpan |-> IF pair = {} THEN {} ELSE {at - 3}, pair |-> pair]>> \o FlattenSeq(below)

(* The document of t alone. *)
LaidOut(t, at) == LayOut(t, at, "", {}, 1)
===============================================================================
