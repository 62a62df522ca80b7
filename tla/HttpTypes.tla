-------------------------------- MODULE HttpTypes --------------------------------
(***************************************************************************)
(* Parts of a parsed HTTP message (spanner/src/http/types.rs): m.span,      *)
(* m.target, m.body and the spans of m.headers are sets of positions.       *)
(***************************************************************************)
EXTENDS Naturals, Sequences

(* Mutant of WithoutData: the body stays, as in the span of the head plus   *)
(* what follows it.                                                         *)
WithoutHeadData(m) ==
    m.span \ (m.target \cup UNION {m.headers[k].span : k \in DOMAIN m.headers})

(* Request::without_data and Response::without_data.  The target of a       *)
(* response is empty.                                                       *)
WithoutData(m) ==
    m.span \ (m.target \cup m.body \cup UNION {m.headers[k].span : k \in DOMAIN m.headers})

(* Header::without_value *)
WithoutHeaderValue(h) == h.span \ h.value

(* headers_with_name(name).next(), as the set of at most one position in    *)
(* the list *)
FirstWithName(headers, name) ==
    {k \in DOMAIN headers : /\ headers[k].name = name
                            /\ \A i \in 1 .. k - 1 : headers[i].name # name}
===============================================================================
