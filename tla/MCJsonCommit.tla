------------------------------ MODULE MCJsonCommit ------------------------------
(***************************************************************************)
(* Small documents for JsonCommit.                                          *)
(***************************************************************************)
EXTENDS JsonCommit, JsonDocuments

Document(t) == LaidOut(t, 1)

UpToTwo(S) == {<< >>} \cup {<<a>> : a \in S} \cup {<<a, b>> : a \in S, b \in S}
Flat == {Text, EmptyText, Number, Stars}
Few == {Text, EmptyText, Stars}
Nested == {Array(s) : s \in UpToTwo(Few)} \cup {Object(s) : s \in UpToTwo(Few)}
Deep == {Object(<<Number, Array(<<Number, Object(<<Text>>)>>)>>),
         Array(<<Object(<<Number, Stars>>), Text>>),
         Array(<<Array(<<Array(<< >>), EmptyText>>), Number>>),
         Object(<<Object(<< >>), Object(<<Array(<<Text, Text>>)>>)>>)}

MCDocuments == {Document(t) : t \in Flat \cup Nested \cup Deep}
===============================================================================
