------------------------------ MODULE MCJsonValues ------------------------------
(***************************************************************************)
(* Small values for JsonValues: literals of every kind, keys that repeat or *)
(* look like indices, and nesting.                                          *)
(***************************************************************************)
EXTENDS JsonValues, JsonDocuments

Long == NumberOf(<<"9", "9">>)
Point == NumberOf(<<"1", ".", "5">>)
Beyond == NumberOf(<<"9", ".", "9">>)

Literals == {Text, EmptyText, Number, Long, Point, Beyond, Null, Stars}

Twice(t) == Object(<<t, t>>)
Pair(t, u) == ObjectWith(<<"0", "k">>, <<t, u>>)
Inner == {Number, Array(<<Text, Long>>), Twice(Text), Pair(EmptyText, Number), Array(<< >>), Object(<< >>)}

Trees == Literals
    \cup {Array(<<t>>) : t \in Literals} \cup {Pair(t, Text) : t \in Literals}
    \cup {Pair(t, u) : t \in Inner, u \in Inner}
    \cup {Array(<<t, u>>) : t \in Inner, u \in Inner}
    \cup {Twice(t) : t \in Inner}

MCValues == {LaidOut(t, 0) : t \in Trees}

Steps == {"0", "1", "k"}
MCPaths == {<<a>> : a \in Steps} \cup {<<a, b>> : a \in Steps, b \in Steps}
            \cup {<<a, b, c>> : a \in Steps, b \in Steps, c \in Steps}
MCIndexOf == [step \in {"0", "1"} |-> IF step = "0" THEN 0 ELSE 1]

MCIntegerOf == [text \in {<<"1">>} |-> 1]
MCFloatOf == [text \in {<<"1", ".", "5">>, <<"9", ".", "9">>} |->
                IF text[1] = "1" THEN 15 ELSE Infinite]
===============================================================================
