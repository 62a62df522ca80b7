--------------------------- MODULE PartialTranscript ---------------------------
(***************************************************************************)
(* The partial transcripts of context/src/transcript/transcript.rs: a      *)
(* transcript of which only some positions are authenticated.  Slots are   *)
(* the variables of the calling program that hold one; every public        *)
(* operation that creates or changes a partial transcript is an action,    *)
(* with the panics the code can raise half way.  Serialisation and         *)
(* deserialisation are separate actions around the variable wire, which    *)
(* may be delivered late, more than once, or with its lengths damaged.     *)
(***************************************************************************)
EXTENDS RangeSets

CONSTANTS
    Slot,          \* the variables that hold a partial transcript
    Byte,          \* the bytes, 0 among them
    MaxLength,     \* bound on the length of a buffer
    Transcripts,   \* the full transcripts the program has
    Filler,        \* the values passed to set_unauthed
    None,          \* a slot or a wire that holds nothing
    MaxCalls       \* bound on the number of calls the program makes

Direction == {"Sent", "Received"}

Position == 0 .. MaxLength - 1

(* Vec<u8>, up to the bound. *)
Buffer == UNION {[0 .. n - 1 -> Byte] : n \in 0 .. MaxLength}

ASSUME LengthAssumption == MaxLength \in Nat /\ MaxCalls \in Nat
ASSUME ByteAssumption == 0 \in Byte /\ Filler \subseteq Byte
ASSUME TranscriptAssumption == Transcripts \subseteq [Direction -> Buffer]
Partial == [data : [Direction -> Buffer], authed : [Direction -> SUBSET Position]]

Compressed == [bytes : [Direction -> Seq(Byte)], idx : [Direction -> SUBSET Position],
               total : [Direction -> 0 .. MaxLength]]

ASSUME NoneAssumption == None \notin Partial /\ None \notin Compressed

VARIABLES
    slots,         \* slots[s]: a partial transcript or None
    wire,          \* the last serialised transcript, or None
    sources,       \* auxiliary: the transcripts whose bytes a slot may hold
    wireSources,   \* auxiliary: the same of the wire
    raw,           \* auxiliary: slots that may hold bytes nobody authenticated
    calls          \* calls made so far

vars == <<slots, wire, sources, wireSources, raw, calls>>

Held == {s \in Slot : slots[s] # None}

Length(buffer) == Cardinality(DOMAIN buffer)

Zeroes(n) == [i \in 0 .. n - 1 |-> 0]

-------------------------------------------------------------------------------
(* The functions that do not change a slot in place. *)

(* Transcript::to_partial *)
ToPartial(t, idx) ==
    [data |-> [d \in Direction |-> CopyFrom(Zeroes(Length(t[d])), idx[d], t[d])],
     authed |-> idx]

(* PartialTranscript::new *)
NewPartial(data, idx) == [data |-> data, authed |-> idx]

SameLengths(p, q) == \A d \in Direction : Length(p.data[d]) = Length(q.data[d])

(* Mutants of UnionOf: the difference of the indices taken the wrong way    *)
(* round; every byte copied; the index forgotten; the other side preferred. *)
UnionOfSwapped(p, q) ==
    [data |-> [d \in Direction |->
                 CopyFrom(p.data[d], p.authed[d] \ q.authed[d], q.data[d])],
     authed |-> [d \in Direction |-> p.authed[d] \cup q.authed[d]]]

UnionOfEverything(p, q) ==
    [data |-> [d \in Direction |->
                 CopyFrom(p.data[d], DOMAIN p.data[d] \ p.authed[d], q.data[d])],
     authed |-> [d \in Direction |-> p.authed[d] \cup q.authed[d]]]

UnionOfIndexForgotten(p, q) ==
    [data |-> [d \in Direction |->
                 CopyFrom(p.data[d], q.authed[d] \ p.authed[d], q.data[d])],
     authed |-> p.authed]

UnionOfLastWins(p, q) ==
    [data |-> [d \in Direction |-> CopyFrom(p.data[d], q.authed[d], q.data[d])],
     authed |-> [d \in Direction |-> p.authed[d] \cup q.authed[d]]]

(* PartialTranscript::union_transcript, once the lengths are known equal *)
UnionOf(p, q) ==
    [data |-> [d \in Direction |->
                 CopyFrom(p.data[d], q.authed[d] \ p.authed[d], q.data[d])],
     authed |-> [d \in Direction |-> p.authed[d] \cup q.authed[d]]]

(* PartialTranscript::union_subsequence with the positions idx of t: what   *)
(* the subsequence says replaces what is there, authenticated or not.       *)
Overwrite(p, d, idx, t) ==
    [data |-> [p.data EXCEPT ![d] = CopyFrom(@, idx, t[d])],
     authed |-> [p.authed EXCEPT ![d] = @ \cup idx]]

(* Mutants of OverwriteHalfway: the index updated before the copy, and the  *)
(* index updated with what of idx lies inside the buffer.                   *)
IndexThenCopy(p, d, idx, t) ==
    [data |-> [p.data EXCEPT ![d] = CopyFrom(@, Completed(idx, Length(@)), t[d])],
     authed |-> [p.authed EXCEPT ![d] = @ \cup idx]]

IndexClipped(p, d, idx, t) ==
    [data |-> [p.data EXCEPT ![d] = CopyFrom(@, Completed(idx, Length(@)), t[d])],
     authed |-> [p.authed EXCEPT ![d] = @ \cup (idx \cap DOMAIN p.data[d])]]

(* The same when idx ends beyond the buffer: copy_to panics at the first    *)
(* range out of bounds, after the earlier ranges were written and before    *)
(* the index is updated.                                                    *)
OverwriteHalfway(p, d, idx, t) ==
    [p EXCEPT !.data[d] = CopyFrom(@, Completed(idx, Length(@)), t[d])]

(* PartialTranscript::sent_unauthed and received_unauthed *)
Unauthed(p, d) == DOMAIN p.data[d] \ p.authed[d]

(* Mutant of SetUnauthed: only the received data is filled. *)
SetUnauthedOneSide(p, value) ==
    [p EXCEPT !.data["Received"] = Fill(@, Unauthed(p, "Received"), value)]

(* PartialTranscript::set_unauthed *)
SetUnauthed(p, value) ==
    [p EXCEPT !.data = [d \in Direction |-> Fill(p.data[d], Unauthed(p, d), value)]]

(* PartialTranscript::set_unauthed_range.  A range beyond the buffer        *)
(* panics after its earlier unauthenticated parts were filled.              *)
SetUnauthedIn(p, d, range, value) ==
    [p EXCEPT !.data[d] = Fill(@, Completed(range \ p.authed[d], Length(@)), value)]

(* Mutant of IsComplete: only the sent data is looked at. *)
IsCompleteOneSide(p) == Cardinality(p.authed["Sent"]) = Length(p.data["Sent"])

(* PartialTranscript::is_complete *)
IsComplete(p) == \A d \in Direction : Cardinality(p.authed[d]) = Length(p.data[d])

(* From<PartialTranscript> for CompressedPartialTranscript *)
Compress(p) ==
    [bytes |-> [d \in Direction |-> IndexRanges(p.data[d], p.authed[d])],
     idx   |-> p.authed,
     total |-> [d \in Direction |-> Length(p.data[d])]]

(* Mutant of Valid: the index is not checked against the total length. *)
ValidLengthsOnly(c) == \A d \in Direction : Len(c.bytes[d]) = Cardinality(c.idx[d])

(* validation::CompressedPartialTranscriptUnchecked::try_from *)
Valid(c) ==
    /\ \A d \in Direction : Len(c.bytes[d]) = Cardinality(c.idx[d])
    /\ \A d \in Direction : c.idx[d] \subseteq 0 .. c.total[d] - 1

(* From<CompressedPartialTranscript> for PartialTranscript *)
Decompress(c) ==
    [data |-> [d \in Direction |->
                 [i \in 0 .. c.total[d] - 1 |->
                    IF i \in c.idx[d] THEN ByteAt(c.bytes[d], c.idx[d], i) ELSE 0]],
     authed |-> c.idx]

(* What may arrive when c was sent: c itself, or c with the bytes of one    *)
(* direction cut or extended by one, or with another total.                 *)
Damaged(c) ==
    {c} \cup UNION {
        {[c EXCEPT !.total[d] = n] : n \in 0 .. MaxLength}
        \cup {[c EXCEPT !.bytes[d] = Append(@, 0)]}
        \cup {[c EXCEPT !.bytes[d] = SubSeq(@, 1, n)] : n \in {Len(c.bytes[d]) - 1} \cap Nat}
        : d \in Direction}

-------------------------------------------------------------------------------
Init ==
    /\ slots = [s \in Slot |-> None]
    /\ wire = None
    /\ sources = [s \in Slot |-> {}]
    /\ wireSources = {}
    /\ raw = {}
    /\ calls = 0

(* Transcript::to_partial into a slot.  Indices out of bounds panic before  *)
(* a partial transcript exists.                                             *)
CreatePartial(s, t) ==
    \E idx \in [Direction -> SUBSET Position] :
        /\ \A d \in Direction : InBounds(idx[d], t[d])
        /\ slots' = [slots EXCEPT ![s] = ToPartial(t, idx)]
        /\ sources' = [sources EXCEPT ![s] = {t}]
        /\ raw' = raw \ {s}
        /\ UNCHANGED <<wire, wireSources>>

(* PartialTranscript::new, called with the data of a transcript and the     *)
(* index of the part that was authenticated.                                *)
New(s, t) ==
    \E idx \in [Direction -> SUBSET Position] :
        /\ \A d \in Direction : InBounds(idx[d], t[d])
        /\ slots' = [slots EXCEPT ![s] = NewPartial(t, idx)]
        /\ sources' = [sources EXCEPT ![s] = {t}]
        /\ raw' = raw \cup {s}
        /\ UNCHANGED <<wire, wireSources>>

(* PartialTranscript::union_transcript.  The assertions on the lengths come *)
(* first, so a call that panics has changed nothing.                        *)
UnionTranscript(s, r) ==
    /\ s # r
    /\ {s, r} \subseteq Held
    /\ SameLengths(slots[s], slots[r])
    /\ slots' = [slots EXCEPT ![s] = UnionOf(slots[s], slots[r])]
    /\ sources' = [sources EXCEPT ![s] = @ \cup sources[r]]
    /\ UNCHANGED <<wire, wireSources, raw>>

(* PartialTranscript::union_subsequence with the subsequence idx of         *)
(* transcript t (Transcript::get; an index outside t gives none).           *)
UnionSubsequence(s, t, d) ==
    \E idx \in SUBSET DOMAIN t[d] :
        /\ s \in Held
        /\ InBounds(idx, slots[s].data[d])
        /\ slots' = [slots EXCEPT ![s] = Overwrite(@, d, idx, t)]
        /\ sources' = [sources EXCEPT ![s] = @ \cup {t}]
        /\ UNCHANGED <<wire, wireSources, raw>>

(* The same call with a subsequence that ends beyond the partial transcript. *)
UnionSubsequencePanics(s, t, d) ==
    \E idx \in SUBSET DOMAIN t[d] :
        /\ s \in Held
        /\ ~ InBounds(idx, slots[s].data[d])
        /\ slots' = [slots EXCEPT ![s] = OverwriteHalfway(@, d, idx, t)]
        /\ sources' = [sources EXCEPT ![s] = @ \cup {t}]
        /\ raw' = raw \cup {s}
        /\ UNCHANGED <<wire, wireSources>>

(* PartialTranscript::set_unauthed *)
SetAllUnauthed(s, value) ==
    /\ s \in Held
    /\ slots' = [slots EXCEPT ![s] = SetUnauthed(@, value)]
    /\ raw' = raw \ {s}
    /\ UNCHANGED <<wire, sources, wireSources>>

(* PartialTranscript::set_unauthed_range *)
SetUnauthedRange(s, d, value) ==
    \E first \in Position : \E last \in first .. MaxLength :
        /\ s \in Held
        /\ slots' = [slots EXCEPT ![s] = SetUnauthedIn(@, d, first .. last - 1, value)]
        /\ UNCHANGED <<wire, sources, wireSources, raw>>

(* Serialize, through CompressedPartialTranscript *)
Serialize(s) ==
    /\ s \in Held
    /\ wire' = Compress(slots[s])
    /\ wireSources' = sources[s]
    /\ UNCHANGED <<slots, sources, raw>>

(* Deserialize: what arrives is validated, then expanded; what fails the    *)
(* validation is an error and creates nothing.                              *)
Deserialize(s) ==
    /\ wire # None
    /\ \E c \in Damaged(wire) :
        /\ Valid(c)
        /\ slots' = [slots EXCEPT ![s] = Decompress(c)]
        /\ sources' = [sources EXCEPT ![s] = wireSources]
        /\ raw' = raw \ {s}
        /\ UNCHANGED <<wire, wireSources>>

Call ==
    \E s \in Slot :
        \/ \E t \in Transcripts : CreatePartial(s, t)
        \/ \E t \in Transcripts : New(s, t)
        \/ \E r \in Slot : UnionTranscript(s, r)
        \/ \E t \in Transcripts, d \in Direction : UnionSubsequence(s, t, d)
        \/ \E t \in Transcripts, d \in Direction : UnionSubsequencePanics(s, t, d)
        \/ \E value \in Filler : SetAllUnauthed(s, value)
        \/ \E d \in Direction, value \in Filler : SetUnauthedRange(s, d, value)
        \/ Serialize(s)
        \/ Deserialize(s)

Next ==
    /\ calls < MaxCalls
    /\ calls' = calls + 1
    /\ Call

Spec == Init /\ [][Next]_vars

-------------------------------------------------------------------------------
(* Every slot and the wire have the shape of their Rust types, and an index *)
(* never leaves its buffer: iter, index_ranges and union_transcript would   *)
(* panic on one that does.                                                  *)
TypeOK ==
    /\ slots \in [Slot -> Partial \cup {None}]
    /\ \A s \in Held : \A d \in Direction :
          InBounds(slots[s].authed[d], slots[s].data[d])
    /\ wire \in Compressed \cup {None}
    /\ wire # None => Valid(wire)
    /\ sources \in [Slot -> SUBSET Transcripts]
    /\ wireSources \subseteq Transcripts
    /\ raw \subseteq Slot
    /\ calls \in 0 .. MaxCalls

(* Byte b at position i of direction d is the byte of one of the            *)
(* transcripts S.                                                           *)
ByteOfSome(S, d, i, b) == \E t \in S : i \in DOMAIN t[d] /\ b = t[d][i]

(* Whatever is marked authenticated is a byte of a transcript that was      *)
(* merged into the slot, at its own position: no operation, no order of     *)
(* merges, no trip over the wire moves or invents an authenticated byte.    *)
AuthedSound ==
    \A s \in Held : \A d \in Direction : \A i \in slots[s].authed[d] :
        ByteOfSome(sources[s], d, i, slots[s].data[d][i])

(* A slot filled by to_partial, by the wire or by set_unauthed shows only   *)
(* zeroes or filler outside its index, however it was merged since, even    *)
(* with a slot that still holds bytes nobody authenticated.                 *)
NoLeak ==
    \A s \in Held \ raw : \A d \in Direction : \A i \in Unauthed(slots[s], d) :
        slots[s].data[d][i] \in Filler \cup {0}

(* is_complete compares lengths only.  It still means that every byte is    *)
(* the byte of the one transcript the slot was merged from.                 *)
CompleteIsTranscript ==
    \A s \in Held : \A t \in Transcripts :
        (sources[s] = {t} /\ IsComplete(slots[s])) =>
            \A d \in Direction : \A i \in DOMAIN slots[s].data[d] :
                i \in DOMAIN t[d] /\ slots[s].data[d][i] = t[d][i]

(* union_transcript keeps the first copy of a byte both sides have.  For    *)
(* parts of one transcript the order of the merge does not matter.          *)
MergeCommutes ==
    \A s, r \in Held : \A t \in Transcripts :
        (sources[s] = {t} /\ sources[r] = {t} /\ SameLengths(slots[s], slots[r])) =>
            LET p == UnionOf(slots[s], slots[r])
                q == UnionOf(slots[r], slots[s])
            IN  /\ p.authed = q.authed
                /\ \A d \in Direction : \A i \in p.authed[d] : p.data[d][i] = q.data[d][i]

-------------------------------------------------------------------------------
(* Refinement: only the authenticated bytes of a slot, as a map. *)

View(p) ==
    [d \in Direction |-> [i \in IF p = None THEN {} ELSE p.authed[d] |-> p.data[d][i]]]

WireView(c) ==
    [d \in Direction |-> [i \in IF c = None THEN {} ELSE c.idx[d] |-> ByteAt(c.bytes[d], c.idx[d], i)]]

Abstract == INSTANCE Disclosure WITH
                Holder <- Slot,
                known <- [s \in Slot |-> View(slots[s])],
                sent <- WireView(wire)

(* Seen through its index, a partial transcript is a map of authenticated   *)
(* bytes that only the operations of Disclosure change.                     *)
ImplementsDisclosure == Abstract!DSpec
===============================================================================
