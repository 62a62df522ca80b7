------------------------------- MODULE HttpStreams -------------------------------
(***************************************************************************)
(* Streams of HTTP messages for HttpMessages, laid out cell by cell, with   *)
(* the heads that httparse finds in them and the messages as they were      *)
(* written.                                                                 *)
(***************************************************************************)
EXTENDS Naturals, SequencesExt

EndOfLine == <<"CR", "LF">>
AsSource(cells) == [i \in 0 .. Len(cells) - 1 |-> cells[i + 1]]

(* A written message: its headers <<name, text>>, the cells of its body,    *)
(* the offsets in the body of the payload, what is special about it, its    *)
(* first line (the method or the code first and the target second), whether *)
(* the code is found and the reason phrase, how the lines of its head end,  *)
(* and no chunks.                                                           *)
Written(headers, body, payload, noBody, supported, trailers) ==
    [headers |-> headers, body |-> body, payload |-> payload, noBody |-> noBody,
     supported |-> supported, trailers |-> trailers,
     line |-> <<"c", "t", "w">>, coded |-> TRUE, phrase |-> TRUE, lineEnd |-> EndOfLine,
     chunks |-> << >>, stop |-> 0]

(* The same with the offsets in the body of the size lines <<first, line    *)
(* break, size>> and of the end of the trailer section.                     *)
InChunks(m, lines, stop) ==
    [m EXCEPT !.chunks = [k \in DOMAIN lines |->
                            [at |-> lines[k][1], last |-> lines[k][2], size |-> lines[k][3]]],
              !.stop = stop]

(* httparse also takes a single LF for the end of a line. *)
Bare(m) == [m EXCEPT !.lineEnd = <<"LF">>, !.supported = FALSE]

(* Three responses that httparse takes and the parser does not: the status  *)
(* code is below 100, there is no reason phrase, or it is not ASCII.        *)
CodeBelow100(m) == [m EXCEPT !.coded = FALSE, !.supported = FALSE]
NoPhrase(m) == [m EXCEPT !.phrase = FALSE, !.supported = FALSE]
RawPhrase(m) == [NoPhrase(m) EXCEPT !.line = <<"c", "t", "raw">>]

(* A head: the line, headers of three cells with the value third, and the   *)
(* empty line.                                                              *)
HeadCells(m) ==
    LET header(h) == <<"w", ":", h[2]>> \o m.lineEnd
    IN  m.line \o m.lineEnd
           \o FlattenSeq([k \in DOMAIN m.headers |-> header(m.headers[k])]) \o m.lineEnd

Cells(m) == HeadCells(m) \o m.body
HeadLength(m) == Len(HeadCells(m))

HeadAt(m, offset, target) ==
    [end |-> offset + HeadLength(m),
     code |-> IF m.coded THEN {offset} ELSE {},
     phrase |-> m.phrase,
     target |-> IF target THEN {offset + 1} ELSE {},
     noBody |-> m.noBody,
     headers |-> [k \in DOMAIN m.headers |->
        LET first == offset + (3 + Len(m.lineEnd)) * k
        IN  [name |-> m.headers[k][1],
             first |-> first, start |-> first + 2, end |-> first + 3]]]

(* The messages one after the other, cut to n cells.  httparse skips empty  *)
(* lines, so it also finds a head at an offset before them.                 *)
Stream(messages, target, n) ==
    LET offset(k) == Len(FlattenSeq([j \in 1 .. k - 1 |-> Cells(messages[j])]))
        all == FlattenSeq([j \in 1 .. Len(messages) |-> Cells(messages[j])])
        found == {k \in DOMAIN messages : offset(k) + HeadLength(messages[k]) <= n}
        emptyLines(o, end) == \A i \in o + 1 .. end :
            all[i] = "LF" \/ (all[i] = "CR" /\ i < end /\ all[i + 1] = "LF")
        headsAt(o) == {k \in found : o <= offset(k) /\ emptyLines(o, offset(k))}
        shift(k) == offset(k) + HeadLength(messages[k])
        shifted(chunk, by) == [chunk EXCEPT !.at = @ + by, !.last = @ + by]
    IN  [cells |-> AsSource(SubSeq(all, 1, n)),
         whole |-> AsSource(all),
         heads |-> [o \in {i \in 0 .. n : headsAt(i) # {}} |->
                      LET k == CHOOSE j \in headsAt(o) : TRUE
                      IN  HeadAt(messages[k], offset(k), target)],
         written |-> [k \in DOMAIN messages |->
                        [end |-> offset(k + 1),
                         payload |-> {shift(k) + i : i \in messages[k].payload},
                         chunks |-> [c \in DOMAIN messages[k].chunks |->
                                       shifted(messages[k].chunks[c], shift(k))],
                         stop |-> shift(k) + messages[k].stop,
                         supported |-> messages[k].supported,
                         trailers |-> messages[k].trailers]]]

Whole1(m, target) == Stream(<<m>>, target, Len(Cells(m)))

OnSides(sent, received) ==
    {[s \in {"Sent", "Received"} |-> IF s = "Sent" THEN x ELSE y] : x \in sent, y \in received}
===============================================================================
