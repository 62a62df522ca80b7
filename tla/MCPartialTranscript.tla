-------------------------- MODULE MCPartialTranscript --------------------------
(* Small instances of PartialTranscript for TLC. *)
EXTENDS PartialTranscript, TLC

CONSTANTS s1, s2

MCSlot == {s1, s2}
MCByte == {0, 1, 2, 3, 4, 9}
MCFiller == {9}

(* A buffer of the given sequence of bytes. *)
AsBuffer(seq) == [i \in 0 .. Len(seq) - 1 |-> seq[i + 1]]
MCTranscript(sent, received) ==
    [d \in Direction |-> AsBuffer(IF d = "Sent" THEN sent ELSE received)]

(* Two sessions of equal lengths that differ, and one of other lengths.     *)
Sessions == {MCTranscript(<<1>>, <<3>>), MCTranscript(<<4>>, <<3>>),
             MCTranscript(<<1, 2>>, << >>)}

Symmetry == Permutations(MCSlot)
===============================================================================
