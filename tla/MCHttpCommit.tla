------------------------------ MODULE MCHttpCommit ------------------------------
(***************************************************************************)
(* Small transcripts for HttpCommit.  A request line is a method, a target  *)
(* and the rest, a header is a name, a value and a line break, an empty     *)
(* line ends the head, and a chunked body is one or two chunks between      *)
(* their boundaries.                                                        *)
(***************************************************************************)
EXTENDS HttpCommit, JsonDocuments

Header(name, bytes) == [name |-> name, bytes |-> bytes]

(* A body as it lies behind its head: its data, its chunk boundaries, its   *)
(* length, and the JSON value it holds, if any, with the place of it.       *)
Body(data, boundaries, length, json, place) ==
    [data |-> data, boundaries |-> boundaries, length |-> length, json |-> json, place |-> place]

NoBody == Body({}, << >>, 0, << >>, 0)
Unknown(n) == Body(0 .. n - 1, << >>, n, << >>, 0)
TwoChunks == Body({1, 4, 5}, <<{0}, {3}, {7}>>, 8, << >>, 0)
Json(tree) == Body(0 .. Width(tree) - 1, << >>, Width(tree), <<tree>>, 0)
JsonThenLineBreak(tree) == Body(0 .. Width(tree), << >>, Width(tree) + 1, <<tree>>, 0)
OneChunk(tree) ==
    Body(1 .. Width(tree), <<{0}, {Width(tree) + 1}>>, Width(tree) + 2, <<tree>>, 1)

Written(headers, body) == [headers |-> headers, body |-> body]

Shift(S, by) == {i + by : i \in S}

HeaderWidth == 3
LineWidth(d) == IF d = "Sent" THEN 3 ELSE 2
HeadWidth(w, d) == LineWidth(d) + HeaderWidth * Len(w.headers) + 1

HeaderAt(h, start) ==
    [name |-> h.name,
     span |-> start .. start + HeaderWidth - 1,
     value |-> start + 1 .. start + h.bytes]

(* The message that w is parsed to in direction d, from position at, with   *)
(* the n values of its body numbered from id.                               *)
MessageAt(w, d, at, id, n) ==
    LET first == at + HeadWidth(w, d)
    IN  [span |-> at .. first + w.body.length - 1,
         target |-> IF d = "Sent" THEN {at + 1} ELSE {},
         headers |-> [k \in DOMAIN w.headers |->
                        HeaderAt(w.headers[k], at + LineWidth(d) + HeaderWidth * (k - 1))],
         body |-> Shift(w.body.data, first),
         boundaries |-> [k \in DOMAIN w.body.boundaries |-> Shift(w.body.boundaries[k], first)],
         json |-> [j \in 1 .. n |-> id + j - 1]]

ValuesOf(w, d, at, id) ==
    IF w.body.json = << >> THEN << >>
    ELSE LayOut(Head(w.body.json), at + HeadWidth(w, d) + w.body.place, "", {}, id)

(* The messages ws behind those of laid, one after the other. *)
RECURSIVE LayAll(_, _, _, _)
Place(laid, ws, d, at, id, values) ==
    LayAll([doc |-> laid.doc \o values,
            messages |-> Append(laid.messages, MessageAt(Head(ws), d, at, id, Len(values)))],
           Tail(ws), d, at + HeadWidth(Head(ws), d) + Head(ws).body.length)
LayAll(laid, ws, d, at) ==
    IF ws = << >> THEN laid
    ELSE Place(laid, ws, d, at, Len(laid.doc) + 1, ValuesOf(Head(ws), d, at, Len(laid.doc) + 1))

Received(sent, received) ==
    [doc |-> received.doc, http |-> [Sent |-> sent.messages, Received |-> received.messages]]
Behind(sent, ws) == Received(sent, LayAll([doc |-> sent.doc, messages |-> << >>], ws, "Received", 0))
Transcript(sent, received) ==
    Behind(LayAll([doc |-> << >>, messages |-> << >>], sent, "Sent", 0), received)

Host == Header("host", 1)
Cookie == Header("cookie", 1)
Empty == Header("cookie", 0)
Length == Header("content-length", 1)
Coding == Header("transfer-encoding", 1)

OneRequest == <<Written(<<Host, Cookie>>, NoBody)>>
OneResponse == <<Written(<<Length, Cookie>>, Json(Object(<<Number>>)))>>

Requests ==
    {<< >>,
     OneRequest,
     <<Written(<< >>, NoBody)>>,
     <<Written(<<Length, Empty, Length>>, Json(Array(<<Text, Text>>)))>>,
     <<Written(<<Length>>, Json(Object(<<Number, Stars>>)))>>,
     <<Written(<<Cookie>>, NoBody), Written(<<Length>>, Unknown(2))>>}

Responses ==
    {<< >>,
     OneResponse,
     <<Written(<<Cookie, Coding>>, TwoChunks)>>,
     <<Written(<<Coding>>, OneChunk(Array(<<Stars>>)))>>,
     <<Written(<<Length>>, JsonThenLineBreak(Number)), Written(<<Length, Length>>, Json(Text))>>}

(* Every list of requests with one response, the other way round, and none. *)
MCParses ==
    {Transcript(sent, OneResponse) : sent \in Requests}
        \cup {Transcript(OneRequest, received) : received \in Responses}
        \cup {Transcript(<< >>, << >>)}
===============================================================================
