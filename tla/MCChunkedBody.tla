----------------------------- MODULE MCChunkedBody -----------------------------
(***************************************************************************)
(* Small instances of ChunkedBody.  A source is put together from pieces,   *)
(* most of them lines, so that lines, sizes and data of every kind meet.    *)
(***************************************************************************)
EXTENDS ChunkedBody, SequencesExt

CONSTANT MaxPieces

MCDigitValue == [c \in {"0", "1", "3", "F"} |->
                   CASE c = "0" -> 0 [] c = "1" -> 1 [] c = "3" -> 3 [] c = "F" -> 15]

EndOfLine == <<"CR", "LF">>
Pieces == {EndOfLine, <<"0">> \o EndOfLine, <<"1">> \o EndOfLine, <<"3">> \o EndOfLine,
           <<"F">> \o EndOfLine, <<"x">> \o EndOfLine, <<"1">>, <<"0">>}

AsSource(cells) == [i \in 0 .. Len(cells) - 1 |-> cells[i + 1]]

MCSources == {AsSource(FlattenSeq(p)) : p \in UNION {[1 .. n -> Pieces] : n \in 0 .. MaxPieces}}

(* Chunk data: some looks like a size line or like the last chunk. *)
Data == {<<"x">>, <<"1">>, <<"0", "CR", "LF">>, <<"CR", "LF", "0">>, <<"x", "x", "x">>}
SizeCells(data) == <<IF Len(data) = 1 THEN "1" ELSE "3">> \o EndOfLine
Trailers == {<< >>, <<"x">>, <<"x", "CR", "LF", "x">>}
Following == {<< >>, <<"0", "CR", "LF">>, <<"x">>}

(* The encoding of the chunks, behind a head of two cells. *)
Encode(chunks, t, after) ==
    LET parts == [k \in 1 .. Len(chunks) |-> SizeCells(chunks[k]) \o chunks[k] \o EndOfLine]
        before(k) == 2 + Len(FlattenSeq(SubSeq(parts, 1, k - 1)))
        last == before(Len(chunks) + 1)
        end == IF t = << >> THEN EndOfLine ELSE t \o EndOfLine \o EndOfLine
    IN  [src |-> AsSource(<<"x", "x">> \o FlattenSeq(parts) \o <<"0">> \o EndOfLine \o end \o after),
         start |-> 2,
        chunks |-> [k \in 1 .. Len(chunks) + 1 |->
                      [at |-> before(k), last |-> before(k) + 1,
                       size |-> IF k > Len(chunks) THEN 0 ELSE Len(chunks[k])]],
        stop |-> last + 3 + Len(t),
         payload |-> UNION {before(k) + 3 .. before(k) + 2 + Len(chunks[k]) : k \in DOMAIN chunks},
         lines |-> (UNION {before(k) .. before(k) + 2 : k \in DOMAIN chunks}) \cup last .. last + 2,
         trailer |-> last + 3 .. last + 2 + Len(t)]

MCBodies ==
    {Encode(chunks, t, after) :
        chunks \in UNION {[1 .. n -> Data] : n \in 0 .. 2}, t \in Trailers, after \in Following}
===============================================================================
