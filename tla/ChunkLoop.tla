------------------------------- MODULE ChunkLoop -------------------------------
(***************************************************************************)
(* The loop of chunked_body_ranges in spanner/src/http/span.rs, which finds *)
(* the parts of a chunked body.  A source is a function on its positions to *)
(* cells, one cell for each byte; of a cell the loop only asks whether it   *)
(* is CR, LF or a hexadecimal digit.  One iteration of the loop is one      *)
(* step.  ChunkedBody checks the loop alone, HttpMessages runs it inside    *)
(* the response parser.  A sum beyond MaxUsize panics in a build that       *)
(* checks arithmetic (as tests are built) and wraps in one that does not    *)
(* (as releases are).                                                       *)
(***************************************************************************)
EXTENDS Naturals, Sequences, FiniteSets

CONSTANTS
    CR, LF,        \* the two cells that end a line
    DigitValue,    \* a function from the hexadecimal digits to 0 .. 15
    MaxUsize,      \* usize::MAX
    Builds         \* which builds there are, of "Checked" and "Unchecked"

ASSUME UsizeAssumption == MaxUsize \in Nat
ASSUME DigitAssumption == \A c \in DOMAIN DigitValue : DigitValue[c] \in 0 .. 15
ASSUME BuildsAssumption == Builds \subseteq {"Checked", "Unchecked"}
ASSUME LineAssumption == CR \notin DOMAIN DigitValue

VARIABLES
    src,           \* the source, a function on 0 .. n - 1
    pos,           \* the position of the loop in the source
    content,       \* positions of chunk data
    structure,     \* positions of chunk boundaries: the size lines
    trailer,       \* positions of the trailer section
    outcome,       \* "Reading", or how the loop ended
    sums           \* the build, and "Wrapped" once a sum has wrapped in it

loopVars == <<pos, content, structure, trailer, outcome, sums>>

SourceLength == Cardinality(DOMAIN src)

CrLfIn(s, i) == {i, i + 1} \subseteq DOMAIN s /\ s[i] = CR /\ s[i + 1] = LF
CrLfAt(i) == CrLfIn(src, i)

(* The cells before position last are taken up to the first CRLF; without   *)
(* one the line is the rest of the source.                                  *)
EndsLine(first, last) ==
    /\ last = SourceLength \/ CrLfAt(last)
    /\ \A i \in first .. last - 1 : ~ CrLfAt(i)

LineOf(s, first, last) == [i \in first .. last - 1 |-> s[i]]

(* usize::from_str_radix(line, 16), without its leading plus sign. *)
HexValue(line, first, last) ==
    LET v[k \in 0 .. last - first] ==
            IF k = 0 THEN 0 ELSE 16 * v[k - 1] + DigitValue[line[first + k - 1]]
    IN  v[last - first]

ChunkSize(first, last) ==
    IF last > first /\ \A i \in first .. last - 1 : src[i] \in DOMAIN DigitValue
    THEN {HexValue(LineOf(src, first, last), first, last)} \cap 0 .. MaxUsize
    ELSE {}

Ends(how) ==
    /\ outcome' = how
    /\ UNCHANGED <<pos, content, structure, trailer, sums>>

(* The loop is entered at head_end. *)
Enter(headEnd) ==
    /\ pos' = headEnd
    /\ content' = {} /\ structure' = {} /\ trailer' = {}
    /\ outcome' = "Reading"
    /\ UNCHANGED sums

(* Mutant of SlicePanics: the end of the source ends the loop. *)
SliceEnds ==
    /\ pos > SourceLength
    /\ Ends("Parsed")

(* src[pos..] with pos beyond the source: the data of the chunk before, or  *)
(* the line break after it, is missing.                                     *)
SlicePanics ==
    /\ pos > SourceLength
    /\ Ends("Panicked")

(* The size is no number: not hexadecimal, empty, or too large. *)
BadSize(last) ==
    /\ ChunkSize(pos, last) = {}
    /\ Ends("Failed")

(* Mutants of Chunk: the line break after the data is not skipped; the data *)
(* taken from the line break before it; the position left behind; any sum   *)
(* accepted.                                                                *)
ChunkKeepsLineBreak(last) ==
    \E size \in ChunkSize(pos, last) \ {0} :
        /\ last + 2 + size + 2 <= MaxUsize
        /\ structure' = structure \cup (pos .. last + 1)
        /\ content' = content \cup (last + 2 .. last + 2 + size - 1)
        /\ pos' = last + 2 + size
        /\ UNCHANGED <<trailer, outcome, sums>>

ChunkFromLineBreak(last) ==
    \E size \in ChunkSize(pos, last) \ {0} :
        /\ last + 2 + size + 2 <= MaxUsize
        /\ structure' = structure \cup (pos .. last + 1)
        /\ content' = content \cup (last .. last + 2 + size - 1)
        /\ pos' = last + 2 + size + 2
        /\ UNCHANGED <<trailer, outcome, sums>>

ChunkStays(last) ==
    \E size \in ChunkSize(pos, last) \ {0} :
        /\ last + 2 + size + 2 <= MaxUsize
        /\ structure' = structure \cup (pos .. last + 1)
        /\ content' = content \cup (last + 2 .. last + 2 + size - 1)
        /\ UNCHANGED <<pos, trailer, outcome, sums>>

ChunkUnbounded(last) ==
    \E size \in ChunkSize(pos, last) \ {0} :
        /\ structure' = structure \cup (pos .. last + 1)
        /\ content' = content \cup (last + 2 .. last + 2 + size - 1)
        /\ pos' = last + 2 + size + 2
        /\ UNCHANGED <<trailer, outcome, sums>>

(* A chunk with data: the size line and the data are recorded unseen, and   *)
(* the loop goes on behind the line break it expects after the data.        *)
Chunk(last) ==
    \E size \in ChunkSize(pos, last) \ {0} :
        /\ last + 2 + size + 2 <= MaxUsize
        /\ structure' = structure \cup (pos .. last + 1)
        /\ content' = content \cup (last + 2 .. last + 2 + size - 1)
        /\ pos' = last + 2 + size + 2
        /\ UNCHANGED <<trailer, outcome, sums>>

(* The position overflows, in a build that checks arithmetic. *)
ChunkOverflows(last) ==
    \E size \in ChunkSize(pos, last) \ {0} :
        /\ sums = "Checked"
        /\ last + 2 + size + 2 > MaxUsize
        /\ Ends("Panicked")

(* The position wraps, in a build that does not: the loop goes on at an     *)
(* earlier position, perhaps at this very line.  A range of data that ends  *)
(* before it begins is none (RangeSet::new).                                *)
ChunkWraps(last) ==
    \E size \in ChunkSize(pos, last) \ {0} :
        /\ sums # "Checked"
        /\ last + 2 + size + 2 > MaxUsize
        /\ structure' = structure \cup (pos .. last + 1)
        /\ content' = content \cup
                {i \in last + 2 .. last + 2 + size - 1 : last + 2 + size <= MaxUsize}
        /\ pos' = (last + 2 + size + 2) % (MaxUsize + 1)
        /\ sums' = "Wrapped"
        /\ UNCHANGED <<trailer, outcome>>

(* The terminating chunk, when no line break at all follows its size. *)
LastChunkPanics(last) ==
    /\ 0 \in ChunkSize(pos, last)
    /\ last + 2 > SourceLength
    /\ Ends("Panicked")

(* The terminating chunk, directly followed by the empty line. *)
LastChunk(last) ==
    /\ 0 \in ChunkSize(pos, last)
    /\ CrLfAt(last + 2)
    /\ structure' = structure \cup (pos .. last + 1)
    /\ pos' = last + 2
    /\ outcome' = "Parsed"
    /\ UNCHANGED <<content, trailer, sums>>

EmptyLineAt(i) == CrLfAt(i) /\ CrLfAt(i + 2)

(* The terminating chunk, followed by trailer headers up to an empty line.  *)
LastChunkWithTrailer(last) ==
    \E stop \in last + 2 .. SourceLength :
        /\ 0 \in ChunkSize(pos, last)
        /\ ~ CrLfAt(last + 2)
        /\ EmptyLineAt(stop)
        /\ \A i \in last + 2 .. stop - 1 : ~ EmptyLineAt(i)
        /\ structure' = structure \cup (pos .. last + 1)
        /\ trailer' = trailer \cup (last + 2 .. stop - 1)
        /\ pos' = last + 2
        /\ outcome' = "Parsed"
        /\ UNCHANGED <<content, sums>>

(* No empty line: "missing trailer end". *)
MissingTrailerEnd(last) ==
    /\ 0 \in ChunkSize(pos, last)
    /\ last + 2 <= SourceLength
    /\ ~ CrLfAt(last + 2)
    /\ \A i \in last + 2 .. SourceLength : ~ EmptyLineAt(i)
    /\ Ends("Failed")

(* One iteration. *)
Iterate ==
    /\ outcome = "Reading"
    /\ \/ SlicePanics
       \/ \E last \in pos .. SourceLength :
            /\ EndsLine(pos, last)
            /\ \/ BadSize(last)
               \/ Chunk(last)
               \/ ChunkOverflows(last)
               \/ ChunkWraps(last)
               \/ LastChunkPanics(last)
               \/ LastChunk(last)
               \/ LastChunkWithTrailer(last)
               \/ MissingTrailerEnd(last)

(* The loop is at a size line whose chunk ends beyond MaxUsize. *)
Overflowing ==
    /\ outcome = "Reading"
    /\ \E last \in pos .. SourceLength :
          EndsLine(pos, last) /\ \E size \in ChunkSize(pos, last) : last + 2 + size + 2 > MaxUsize

-------------------------------------------------------------------------------
(* How a writer lays out a chunked body.  A chunk c has a size line from    *)
(* c.at to the line break at c.last, then c.size cells of data and a line   *)
(* break.                                                                   *)
SizeLine(s, c) ==
    /\ c.at < c.last /\ CrLfIn(s, c.last)
    /\ \A i \in c.at .. c.last - 1 : s[i] \in DOMAIN DigitValue
    /\ c.size = HexValue(LineOf(s, c.at, c.last), c.at, c.last)

DataOfChunk(c) == c.last + 2 .. c.last + 2 + c.size - 1
LineOfChunk(c) == c.at .. c.last + 1
DataOfChunks(chunks) == UNION {DataOfChunk(chunks[k]) : k \in DOMAIN chunks}
LinesOfChunks(chunks) == UNION {LineOfChunk(chunks[k]) : k \in DOMAIN chunks}

(* The trailer section goes from first to an empty line at stop; there may  *)
(* be none.                                                                 *)
TrailerSection(s, first, stop) ==
    \/ stop = first /\ CrLfIn(s, first)
    \/ /\ first < stop /\ ~ CrLfIn(s, first)
       /\ CrLfIn(s, stop) /\ CrLfIn(s, stop + 2)
       /\ \A i \in first .. stop - 1 : ~ (CrLfIn(s, i) /\ CrLfIn(s, i + 2))

ChunkRecords == [at : Nat, last : Nat, size : 0 .. MaxUsize]

(* The chunks follow one another, and all but the last one have data. *)
Chain(s, chunks) ==
    /\ chunks \in Seq(ChunkRecords) /\ chunks # << >>
    /\ \A k \in 1 .. Len(chunks) - 1 :
          /\ SizeLine(s, chunks[k]) /\ chunks[k].size # 0
          /\ chunks[k + 1].at = chunks[k].last + 2 + chunks[k].size + 2

(* The last chunk is empty. *)
Layout(s, chunks, stop) ==
    LET c == chunks[Len(chunks)]
    IN  /\ Chain(s, chunks)
        /\ SizeLine(s, c) /\ c.size = 0
        /\ TrailerSection(s, c.last + 2, stop)

(* A line that is no size: it is empty, or it is no number of type usize.   *)
NoSizeLine(s, c) ==
    /\ c.at <= c.last /\ CrLfIn(s, c.last)
    /\ \A i \in c.at .. c.last - 1 : ~ CrLfIn(s, i)
    /\ \/ c.at = c.last
       \/ \E i \in c.at .. c.last - 1 : s[i] \notin DOMAIN DigitValue
       \/ HexValue(LineOf(s, c.at, c.last), c.at, c.last) > MaxUsize

(* A body that is no chunked body: where the last chunk should be there is  *)
(* a line that is no size, or the source is at its end.                     *)
BrokenLayout(s, chunks) ==
    LET c == chunks[Len(chunks)]
    IN  /\ Chain(s, chunks)
        /\ c.at > Cardinality(DOMAIN s) \/ NoSizeLine(s, c)
===============================================================================
