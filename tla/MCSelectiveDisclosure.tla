------------------------- MODULE MCSelectiveDisclosure -------------------------
(***************************************************************************)
(* Small transcripts for SelectiveDisclosure: whole streams with every kind *)
(* of body, repeated headers, nested JSON, and one that is cut.             *)
(***************************************************************************)
EXTENDS SelectiveDisclosure, JsonDocuments, HttpStreams

MCDigitValue == [c \in {"0", "1", "2", "7"} |->
                   CASE c = "0" -> 0 [] c = "1" -> 1 [] c = "2" -> 2 [] c = "7" -> 7]

Long == NumberOf(<<"9", "9">>)
Point == NumberOf(<<"1", ".", "5">>)

Trees == {Object(<<Text>>),
          Array(<<Number, Text>>),
          Array(<<Long>>),
          ObjectWith(<<"k", "l">>, <<Point, Array(<<Null, EmptyText>>)>>),
          ObjectWith(<<"k", "k">>, <<Number, Text>>),
          Array(<<ObjectWith(<<"k">>, <<Long>>), Number>>)}

(* The trees that a tree becomes when any of its leaves are hidden. *)
Blank(t) == [i \in DOMAIN t.text |-> "*"]
HiddenLeaf(t) == IF t.type = "String" THEN StringOf(Blank(t)) ELSE StarsOf(Blank(t))

RECURSIVE Variants(_)
Variants(t) ==
    IF IsLeaf(t) THEN {t, HiddenLeaf(t)}
    ELSE {[t EXCEPT !.elems = e] :
            e \in {f \in [DOMAIN t.elems -> UNION {Variants(t.elems[k]) : k \in DOMAIN t.elems}] :
                     \A k \in DOMAIN f : f[k] \in Variants(t.elems[k])}}

AllVariants == UNION {Variants(t) : t \in Trees}

(* The parser takes a text that goes on behind the value. *)
MCJsonOf ==
    LET parses == {[text |-> TextOf(t) \o tail, values |-> LaidOut(t, 0)]
                     : t \in AllVariants, tail \in {<< >>, <<" ">>, <<"*">>}}
    IN  [text \in {p.text : p \in parses} |-> (CHOOSE p \in parses : p.text = text).values]

MCIntegerOf == [text \in {<<"1">>} |-> 1]
MCFloatOf == [text \in {<<"1", ".", "5">>} |-> 15]

(* The length of a body is written in one cell. *)
Numerals == <<"1", "2", "3", "4", "5", "6", "7", "8", "9", "10", "11", "12", "13", "14", "15",
              "16", "17", "18", "19", "20", "21", "22", "23">>
MCLengthValue ==
    [text \in {<<numeral>> : numeral \in ToSet(Numerals)} |->
        CHOOSE n \in DOMAIN Numerals : text = <<Numerals[n]>>]
Length(n) == <<"content-length", Numerals[n]>>
JsonType == <<"content-type", "application/json">>
Chunked == <<"transfer-encoding", "chunked">>
Cookie(v) == <<"cookie", v>>
Host == <<"host", "example.org">>

WithBody(headers, body) ==
    LET framed == \E k \in DOMAIN headers : headers[k][1] = "content-length"
    IN  Written(headers, body, 0 .. Len(body) - 1, ~ framed, TRUE, FALSE)
Plain(headers) == WithBody(headers, << >>)
Bytes2(headers) == WithBody(headers \o <<Length(2)>>, <<"x", "y">>)
JsonBody(first, t, last) == WithBody(first \o <<JsonType, Length(Width(t))>> \o last, TextOf(t))
MoreThanJson(t) == WithBody(<<Length(Width(t) + 1), JsonType>>, TextOf(t) \o <<" ">>)
ChunkOf(digit, data) == <<digit>> \o EndOfLine \o data \o EndOfLine
TwoChunks ==
    InChunks(Written(<<Chunked, Cookie("s"), Length(9), Cookie("t")>>,
                     ChunkOf("1", <<"x">>) \o ChunkOf("2", <<"CR", "y">>)
                        \o <<"0">> \o EndOfLine \o EndOfLine,
                     {3, 9, 10}, FALSE, TRUE, FALSE),
             <<<<0, 1, 1>>, <<6, 7, 2>>, <<13, 14, 0>>>>, 16)

RequestStreams ==
    {<< >>}
    \cup {<<JsonBody(<<Cookie("s"), Cookie("t")>>, t, << >>)>> : t \in Trees}
    \cup {<<Plain(<<Host, Cookie("s"), Host>>), Bytes2(<<Cookie("t")>>)>>,
          <<JsonBody(<<Host>>, Array(<<Number, Text>>), <<Length(3)>>), Plain(<<Cookie("s")>>)>>,
          <<Plain(<< >>)>>,
          <<MoreThanJson(Object(<<Text>>))>>}

ResponseStreams ==
    {<<JsonBody(<<Cookie("s")>>, t, <<Length(3), Cookie("t")>>)>> : t \in Trees}
    \cup {<< >>, <<TwoChunks, Bytes2(<<Cookie("s")>>)>>, <<Plain(<<Cookie("s")>>), TwoChunks>>,
          <<MoreThanJson(Array(<<Long>>))>>}

WholeStream(messages, target) ==
    Stream(messages, target, Len(FlattenSeq([k \in DOMAIN messages |-> Cells(messages[k])])))
AllOf(streams, target) == {WholeStream(ms, target) : ms \in streams}

Cut == Stream(<<Bytes2(<< >>)>>, TRUE, 13)
Few(target) == WholeStream(<<Bytes2(<<Cookie("u")>>)>>, target)

MCTranscripts ==
    OnSides(AllOf(RequestStreams, TRUE), {Few(FALSE)})
        \cup OnSides({Few(TRUE)}, AllOf(ResponseStreams, FALSE))
        \cup OnSides({Cut}, {Few(FALSE)})
===============================================================================
