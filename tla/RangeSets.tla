------------------------------- MODULE RangeSets ------------------------------
(***************************************************************************)
(* The index sets and buffers of context/src/transcript/transcript.rs.  A  *)
(* RangeSet<usize> is the set of its positions; a Vec<u8> is a function on *)
(* 0 .. length - 1, so "in bounds" is inclusion in its domain.  The crate  *)
(* rangeset is external: the operators below say what the code relies on.  *)
(***************************************************************************)
EXTENDS Naturals, Sequences, FiniteSets

(* The place, from 1, of position i when idx is iterated in order: the      *)
(* running offset of copy_to and of the decompression loops.                *)
Rank(idx, i) == Cardinality({j \in idx : j < i}) + 1

(* data.index_ranges(idx): the bytes at idx, in order, as a sequence.       *)
IndexRanges(data, idx) ==
    [k \in 1 .. Cardinality(idx) |-> data[CHOOSE i \in idx : Rank(idx, i) = k]]

(* The byte of position i in the sequence made by IndexRanges.              *)
ByteAt(seq, idx, i) == seq[Rank(idx, i)]

InBounds(idx, buffer) == idx \subseteq DOMAIN buffer

(* iter_ranges() yields maximal ranges in order, so a loop that slices a    *)
(* buffer of length n range by range completes exactly the ranges that end  *)
(* at or before n; the first range that ends later panics.                  *)
Completed(idx, n) == {i \in idx : \E e \in (i + 1) .. n : e \notin idx}

(* Sets the positions S of the buffer to the value.                         *)
Fill(buffer, S, value) ==
    [i \in DOMAIN buffer |-> IF i \in S THEN value ELSE buffer[i]]

(* Overwrites the positions S of the buffer by the same positions of other. *)
CopyFrom(buffer, S, other) ==
    [i \in DOMAIN buffer |-> IF i \in S THEN other[i] ELSE buffer[i]]
===============================================================================
