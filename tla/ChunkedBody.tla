------------------------------ MODULE ChunkedBody ------------------------------
(***************************************************************************)
(* chunked_body_ranges on its own: the loop of ChunkLoop started at the end *)
(* of a head, on sources that may be anything and on sources that a writer  *)
(* of chunked bodies produced.                                              *)
(***************************************************************************)
EXTENDS ChunkLoop

CONSTANTS
    Sources,       \* sources that may be anything
    Bodies,        \* written bodies: [src, start, chunks, stop, payload, lines,
                   \* trailer]
    None           \* no writer

ASSUME SourcesAssumption ==
    \A s \in Sources \cup {b.src : b \in Bodies} :
        \E n \in 0 .. MaxUsize : DOMAIN s = 0 .. n - 1

ASSUME StartAssumption == \A b \in Bodies : b.start \in DOMAIN b.src

(* What a writer of chunked bodies does: its chunks begin at the start.     *)
ASSUME BodiesAssumption ==
    \A b \in Bodies :
        /\ Layout(b.src, b.chunks, b.stop) /\ b.chunks[1].at = b.start
        /\ b.payload = DataOfChunks(b.chunks) /\ b.lines = LinesOfChunks(b.chunks)
        /\ b.trailer = b.chunks[Len(b.chunks)].last + 2 .. b.stop - 1

VARIABLES
    start,         \* where the loop was entered
    written        \* auxiliary: the body src is the encoding of, or None

vars == <<src, start, written, loopVars>>

Init ==
    /\ \/ src \in Sources /\ start \in 0 .. SourceLength /\ written = None
       \/ written \in Bodies /\ src = written.src /\ start = written.start
    /\ pos = start
    /\ content = {} /\ structure = {} /\ trailer = {}
    /\ outcome = "Reading" /\ sums \in Builds

Next == Iterate /\ UNCHANGED <<src, start, written>>

Spec == Init /\ [][Next]_vars

FairSpec == Spec /\ WF_vars(Next)

-------------------------------------------------------------------------------
TypeOK ==
    /\ SourceLength \in 0 .. MaxUsize /\ DOMAIN src = 0 .. SourceLength - 1
    /\ start \in Nat /\ pos \in 0 .. MaxUsize + 2
    /\ content \in SUBSET Nat /\ structure \in SUBSET Nat /\ trailer \in SUBSET Nat
    /\ outcome \in {"Reading", "Parsed", "Failed", "Panicked"}
    /\ sums \in {"Checked", "Unchecked", "Wrapped"}

(* As long as no sum wraps, the three kinds of ranges never meet, and the   *)
(* loop never records a position it has not passed: a byte of chunk data is *)
(* never also a chunk boundary, so committing to the boundaries reveals no  *)
(* data.                                                                    *)
Apart ==
    sums # "Wrapped" =>
        /\ content \cap structure = {}
        /\ trailer \cap (content \cup structure) = {}
        /\ content \cup structure \subseteq start .. pos - 1

(* The ranges are recorded before anybody looks whether the source goes     *)
(* that far.  When the loop succeeds and no sum has wrapped they all lie in *)
(* the source, whatever the source is: the spans built from them do not     *)
(* panic.                                                                   *)
ParsedInside ==
    outcome = "Parsed" /\ sums # "Wrapped" =>
        content \cup structure \cup trailer \subseteq DOMAIN src

(* What a writer encoded is found again, whatever the data looks like and   *)
(* whatever follows the body: no failure, and every part at its place.      *)
RoundTrip ==
    written # None =>
        /\ outcome \notin {"Failed", "Panicked"}
        /\ outcome = "Parsed" =>
              /\ content = written.payload
              /\ structure = written.lines
              /\ trailer = written.trailer

(* The loop has no bound of its own.  It ends on every source, unless a     *)
(* build that does not check arithmetic comes to a size that overflows      *)
(* again and again: such a build may go round for ever, and no other does.  *)
Terminates == <>(outcome # "Reading") \/ []<>(sums = "Wrapped" /\ Overflowing)
===============================================================================
