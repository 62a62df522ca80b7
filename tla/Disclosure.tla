------------------------------ MODULE Disclosure ------------------------------
(***************************************************************************)
(* What a holder of partial transcripts can vouch for, with no buffers, no *)
(* index sets and no wire format: every holder has, per direction, a       *)
(* partial map from positions to authenticated bytes.  The operations of   *)
(* PartialTranscript (context/src/transcript/transcript.rs) may only       *)
(* reveal a part of a transcript, lay one map over another, or copy a map. *)
(* PartialTranscript.tla implements this module.                           *)
(***************************************************************************)
CONSTANTS
    Holder,        \* the owners of partial transcripts
    Direction,     \* the directions of a connection
    Transcripts    \* the full transcripts: [Direction -> map to bytes]

VARIABLES
    known,         \* known[h][d]: the authenticated bytes h has in d
    sent           \* the map last sent to another party

dvars == <<known, sent>>

Nothing == [d \in Direction |-> [i \in {} |-> i]]

Restriction(map, S) == [i \in S |-> map[i]]

(* The map f laid over the map g. *)
Over(f, g) ==
    [i \in DOMAIN f \cup DOMAIN g |-> IF i \in DOMAIN f THEN f[i] ELSE g[i]]

(* The part of transcript t at the positions S. *)
Part(t, S) == [d \in Direction |-> Restriction(t[d], S[d])]

Positions == UNION {DOMAIN t[d] : t \in Transcripts, d \in Direction}

DInit ==
    /\ known = [h \in Holder |-> Nothing]
    /\ sent = Nothing

(* A holder starts over with a part of one transcript. *)
Reveal(h) ==
    \E t \in Transcripts, S \in [Direction -> SUBSET Positions] :
        /\ \A d \in Direction : S[d] \subseteq DOMAIN t[d]
        /\ known' = [known EXCEPT ![h] = Part(t, S)]
        /\ UNCHANGED sent

(* A holder learns more of one direction; what it learns replaces what it   *)
(* knew at the same position.                                               *)
Learn(h, d) ==
    \E t \in Transcripts : \E S \in SUBSET DOMAIN t[d] :
        /\ known' = [known EXCEPT ![h][d] = Over(Restriction(t[d], S), @)]
        /\ UNCHANGED sent

(* A call that fails half way replaces known bytes but adds no position.    *)
LearnHalfway(h, d) ==
    \E t \in Transcripts : \E S \in SUBSET (DOMAIN t[d] \cap DOMAIN known[h][d]) :
        /\ known' = [known EXCEPT ![h][d] = Over(Restriction(t[d], S), @)]
        /\ UNCHANGED sent

(* A holder adds what another one knows; its own bytes are kept.            *)
Merge(h, g) ==
    /\ known' = [known EXCEPT ![h] = [d \in Direction |-> Over(known[h][d], known[g][d])]]
    /\ UNCHANGED sent

Send(h) ==
    /\ sent' = known[h]
    /\ UNCHANGED known

Receive(h) ==
    /\ known' = [known EXCEPT ![h] = sent]
    /\ UNCHANGED sent

DNext ==
    \E h \in Holder :
        \/ Reveal(h)
        \/ \E d \in Direction : Learn(h, d) \/ LearnHalfway(h, d)
        \/ \E g \in Holder : Merge(h, g)
        \/ Send(h)
        \/ Receive(h)

DSpec == DInit /\ [][DNext]_dvars
===============================================================================
