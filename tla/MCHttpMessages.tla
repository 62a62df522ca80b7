----------------------------- MODULE MCHttpMessages -----------------------------
(***************************************************************************)
(* Small transcripts for HttpMessages: streams of one or two messages of    *)
(* every framing, whole and cut at every position.                          *)
(***************************************************************************)
EXTENDS HttpMessages, HttpStreams

MCDigitValue == [c \in {"0", "1", "2", "3", "B", "C", "E"} |->
                   CASE c = "0" -> 0 [] c = "1" -> 1 [] c = "2" -> 2 [] c = "3" -> 3
                     [] c = "B" -> 11 [] c = "C" -> 12 [] c = "E" -> 14]
MCLengthValue == [t \in {<<"0">>, <<"2">>, <<"185">>, <<"9999">>} |->
                   CASE t = <<"0">> -> 0 [] t = <<"2">> -> 2 [] t = <<"185">> -> 185
                     [] t = <<"9999">> -> MaxUsize]

(* The JSON text: one number of two digits. *)
MCJsonOf == [t \in {<<"w", "w">>} |-> <<[kind |-> "Primitive", span |-> 0 .. 1, pair |-> {}]>>]

Length == <<"content-length", "2">>
Json == <<"content-type", "application/json">>
Chunked == <<"transfer-encoding", "chunked">>
LastChunkCells == <<"0">> \o EndOfLine \o EndOfLine
ChunkOf(digit, data) == <<digit>> \o EndOfLine \o data \o EndOfLine

Empty == Written(<< >>, << >>, {}, TRUE, TRUE, FALSE)
Sized2 == Written(<<Length>>, <<"w", "w">>, 0 .. 1, FALSE, TRUE, FALSE)
SizedJson == Written(<<Json, Length>>, <<"w", "w">>, 0 .. 1, FALSE, TRUE, FALSE)
NoJson == Written(<<Json, Length>>, <<"!", "w">>, 0 .. 1, FALSE, FALSE, FALSE)
TwoLengths == Written(<<Length, <<"content-length", "0">>>>, <<"w", "w">>, 0 .. 1, FALSE, TRUE, FALSE)
LengthZero == Written(<<<<"content-length", "0">>>>, << >>, {}, FALSE, TRUE, FALSE)
NoNumberLength == Written(<<<<"content-length", "x">>>>, << >>, {}, FALSE, FALSE, FALSE)
HugeLength == Written(<<<<"content-length", "9999">>>>, << >>, {}, FALSE, FALSE, FALSE)
LargeLength == Written(<<<<"content-length", "185">>>>, << >>, {}, FALSE, FALSE, FALSE)
HugeJson == Written(<<Json, <<"content-length", "9999">>>>, << >>, {}, FALSE, FALSE, FALSE)
OtherCoding == Written(<<<<"transfer-encoding", "gzip">>>>, << >>, {}, FALSE, FALSE, FALSE)
NoFraming == Written(<< >>, << >>, {}, FALSE, FALSE, FALSE)
ChunkedEmpty ==
    InChunks(Written(<<Chunked>>, LastChunkCells, {}, FALSE, TRUE, FALSE), <<<<0, 1, 0>>>>, 3)
OneChunk ==
    InChunks(Written(<<Length, Chunked>>, ChunkOf("3", <<"0", "CR", "LF">>) \o LastChunkCells,
                     3 .. 5, FALSE, TRUE, FALSE),
             <<<<0, 1, 3>>, <<8, 9, 0>>>>, 11)
TwoChunks ==
    InChunks(Written(<<Chunked>>,
                     ChunkOf("1", <<"1">>) \o ChunkOf("2", <<"w", "CR">>) \o LastChunkCells,
                     {3, 9, 10}, FALSE, TRUE, FALSE),
             <<<<0, 1, 1>>, <<6, 7, 2>>, <<13, 14, 0>>>>, 16)
JsonChunks(first, last, supported) ==
    InChunks(Written(<<Json, Chunked>>,
                     ChunkOf("1", <<first>>) \o ChunkOf("1", <<last>>) \o LastChunkCells,
                     {3, 9}, FALSE, supported, FALSE),
             <<<<0, 1, 1>>, <<6, 7, 1>>, <<12, 13, 0>>>>, 15)
TwoJsonChunks == JsonChunks("w", "w", TRUE)
BadJsonChunks == JsonChunks("w", "!", FALSE)
BadChunk ==
    InChunks(Written(<<Chunked>>, ChunkOf("2", <<"w">>) \o LastChunkCells, {}, FALSE, FALSE, FALSE),
             <<<<0, 1, 2>>, <<7, 7, 0>>>>, 0)
HugeChunk ==
    InChunks(Written(<<Chunked>>, <<"B", "B">> \o EndOfLine, {}, FALSE, FALSE, FALSE),
             <<<<0, 2, 187>>, <<193, 193, 0>>>>, 0)
(* Sizes of 190 and 195: with MaxUsize = 200 the first one leads back into  *)
(* the data of the chunk before, the second one to its own line.            *)
BackChunk ==
    InChunks(Written(<<Chunked>>, ChunkOf("3", <<"0", "CR", "LF">>) \o <<"B", "E">> \o EndOfLine,
                     {}, FALSE, FALSE, FALSE),
             <<<<0, 1, 3>>, <<8, 10, 190>>, <<204, 204, 0>>>>, 0)
SameChunk ==
    InChunks(Written(<<Chunked>>, <<"C", "3">> \o EndOfLine, {}, FALSE, FALSE, FALSE),
             <<<<0, 2, 195>>, <<201, 201, 0>>>>, 0)
Trailered ==
    InChunks(Written(<<Chunked>>, ChunkOf("1", <<"w">>) \o <<"0">> \o EndOfLine
                        \o <<"w", ":", "w">> \o EndOfLine \o EndOfLine,
                     {3}, FALSE, TRUE, TRUE),
             <<<<0, 1, 1>>, <<6, 7, 0>>>>, 12)

BareSized == Bare(Sized2)
BareChunk == Bare(OneChunk)
BareRaw == Bare(Written(<<<<"w", "raw">>, Length>>, EndOfLine, 0 .. 1, FALSE, FALSE, FALSE))

RequestKinds == {BareSized, BareRaw, Empty, Sized2, SizedJson, NoJson, TwoLengths, LengthZero,
                 NoNumberLength, HugeLength, LargeLength, HugeJson, OtherCoding}
ResponseKinds == {BareSized, BareChunk, CodeBelow100(Sized2), NoPhrase(Sized2), RawPhrase(Sized2),
                  Empty, SizedJson, NoJson, TwoLengths, LengthZero, NoNumberLength, HugeLength,
                  OtherCoding, NoFraming, ChunkedEmpty, OneChunk, TwoChunks, BadJsonChunks, BadChunk,
                  HugeChunk, BackChunk, SameChunk, Trailered}

(* Streams of one or two messages, the second or first one of a few kinds,  *)
(* cut at every position of the last message.                               *)
Pairs(kinds, few) ==
    {<< >>} \cup {<<m>> : m \in kinds} \cup {<<m, f>> : m \in kinds, f \in few}
    \cup {<<f, m>> : m \in kinds, f \in few}

Cuts(pairs, target) ==
    UNION {LET first == Len(FlattenSeq([j \in 1 .. Len(ms) - 1 |-> Cells(ms[j])]))
               last == IF ms = << >> THEN 0 ELSE Len(Cells(ms[Len(ms)]))
           IN  {Stream(ms, target, first + n) : n \in 0 .. last} : ms \in pairs}

MCTranscripts ==
    OnSides(Cuts(Pairs(RequestKinds, {Empty, Sized2}), TRUE), {Whole1(Sized2, FALSE)})
    \cup OnSides({Whole1(Sized2, TRUE)}, Cuts(Pairs(ResponseKinds, {Empty, OneChunk, TwoLengths}), FALSE))

(* Responses with trailer headers, alone and before another response. *)
TraileredTranscripts ==
    OnSides({Whole1(Empty, TRUE)},
            {Stream(ms, FALSE, Len(FlattenSeq([j \in DOMAIN ms |-> Cells(ms[j])])))
               : ms \in {<<Trailered>>, <<Trailered, Empty>>, <<Sized2, Trailered>>}})

(* JSON bodies in chunks. *)
ChunkedJsonTranscripts ==
    OnSides({Whole1(Empty, TRUE)}, {Whole1(TwoJsonChunks, FALSE)})
===============================================================================
