-------------------------- MODULE JsonCommitter_proofs --------------------------
(***************************************************************************)
(* What both callers of the JSON committer rely on, whatever else is on the *)
(* agenda: which calls a call makes, and which positions they are about.    *)
(***************************************************************************)
EXTENDS JsonCommitter, TLAPS

(* One step of the committer: the next call makes its calls, or fails, or   *)
(* is a call of the builder that succeeds.                                  *)
Expands(c, calls) ==
    \/ c.routine = "commit_structure" /\ calls = StructureCalls(c.node, c.direction)
    \/ c.routine = "pair_structure" /\ calls = PairStructureCalls(c.node, c.direction)
    \/ /\ c.routine = "commit_value" /\ doc[c.node].kind # "Redacted"
       /\ calls = ValueCalls(c.node, c.direction)
    \/ c.routine = "commit_key_value" /\ calls = KeyValueCalls(c.node, c.direction)
    \/ c.routine = "commit_each" /\ c.ranges = {} /\ calls = << >>
    \/ /\ c.routine = "commit_each" /\ c.ranges # {}
       /\ calls = <<Commit(FirstRange(c.ranges), c.direction),
                    CommitEach(c.ranges \ FirstRange(c.ranges), c.direction)>>

Accepts(c) ==
    /\ c.routine = "commit"
    /\ committed' = committed \cup {<<c.direction, c.ranges>>}
    /\ agenda' = Tail(agenda)
    /\ UNCHANGED <<doc, failed>>

LEMMA StepCases ==
    ASSUME JsonStep
    PROVE  /\ agenda # << >>
           /\ \/ \E calls : Expands(Head(agenda), calls) /\ Becomes(calls)
              \/ Fails
              \/ Accepts(Head(agenda))
PROOF
  <1> USE DEF NextCalls
  <1>1. CASE CommitStructure
    BY <1>1 DEF CommitStructure, Expands
  <1>2. CASE PairStructure
    BY <1>2 DEF PairStructure, Expands
  <1>3. CASE CommitValue
    BY <1>3 DEF CommitValue, Expands
  <1>4. CASE CommitRedacted
    BY <1>4 DEF CommitRedacted
  <1>5. CASE CommitKeyValue
    BY <1>5 DEF CommitKeyValue, Expands
  <1>6. CASE CommitRanges
    BY <1>6 DEF CommitRanges, Expands
  <1>7. CASE BuilderCommits
    BY <1>7 DEF BuilderCommits, Accepts
  <1> QED
    BY <1>1, <1>2, <1>3, <1>4, <1>5, <1>6, <1>7 DEF JsonStep

-------------------------------------------------------------------------------
(* The calls on a list. *)
Items(s) == {s[k] : k \in DOMAIN s}

LEMMA ItemsOfHead ==
    ASSUME NEW S, NEW s \in Seq(S), s # << >>
    PROVE  /\ Head(s) \in S /\ Tail(s) \in Seq(S)
           /\ Items(s) = {Head(s)} \cup Items(Tail(s))
PROOF
  <1>1. Head(s) \in S /\ Tail(s) \in Seq(S) /\ Len(s) \in Nat \ {0}
    OBVIOUS
  <1>2. Items(s) \subseteq {Head(s)} \cup Items(Tail(s))
    <2>1. ASSUME NEW k \in DOMAIN s
          PROVE  s[k] = Head(s) \/ s[k] \in Items(Tail(s))
      <3>1. CASE k = 1
        BY <3>1
      <3>2. CASE k # 1
        <4>1. k - 1 \in DOMAIN Tail(s) /\ Tail(s)[k - 1] = s[k]
          BY <3>2, <1>1
        <4> QED
          BY <4>1 DEF Items
      <3> QED
        BY <3>1, <3>2
    <2> QED
      BY <2>1 DEF Items
  <1>3. Head(s) \in Items(s)
    <2>1. 1 \in DOMAIN s /\ s[1] = Head(s)
      BY <1>1
    <2> QED
      BY <2>1 DEF Items
  <1>4. Items(Tail(s)) \subseteq Items(s)
    <2>1. ASSUME NEW k \in DOMAIN Tail(s)
          PROVE  k + 1 \in DOMAIN s /\ Tail(s)[k] = s[k + 1]
      BY <1>1
    <2> QED
      BY <2>1 DEF Items
  <1> QED
    BY <1>1, <1>2, <1>3, <1>4

LEMMA ItemsOfConcat ==
    ASSUME NEW S, NEW s \in Seq(S), NEW t \in Seq(S)
    PROVE  /\ s \o t \in Seq(S)
           /\ Items(s \o t) = Items(s) \cup Items(t)
PROOF
  <1>1. s \o t \in Seq(S) /\ DOMAIN (s \o t) = 1 .. Len(s) + Len(t)
    OBVIOUS
  <1>2. Items(s \o t) \subseteq Items(s) \cup Items(t)
    <2>1. ASSUME NEW k \in DOMAIN (s \o t)
          PROVE  (s \o t)[k] \in Items(s) \cup Items(t)
      <3>1. CASE k <= Len(s)
        <4>1. k \in DOMAIN s /\ (s \o t)[k] = s[k]
          BY <3>1, <1>1
        <4> QED
          BY <4>1 DEF Items
      <3>2. CASE k > Len(s)
        <4>1. k - Len(s) \in DOMAIN t /\ (s \o t)[k] = t[k - Len(s)]
          BY <3>2, <1>1
        <4> QED
          BY <4>1 DEF Items
      <3> QED
        BY <3>1, <3>2, <1>1
    <2> QED
      BY <2>1 DEF Items
  <1>3. Items(s) \subseteq Items(s \o t)
    <2>1. ASSUME NEW k \in DOMAIN s
          PROVE  k \in DOMAIN (s \o t) /\ (s \o t)[k] = s[k]
      BY <1>1
    <2> QED
      BY <2>1 DEF Items
  <1>4. Items(t) \subseteq Items(s \o t)
    <2>1. ASSUME NEW k \in DOMAIN t
          PROVE  Len(s) + k \in DOMAIN (s \o t) /\ (s \o t)[Len(s) + k] = t[k]
      BY <1>1
    <2> QED
      BY <2>1 DEF Items
  <1> QED
    BY <1>1, <1>2, <1>3, <1>4

LEMMA ItemsOfOne ==
    ASSUME NEW S, NEW a \in S
    PROVE  <<a>> \in Seq(S) /\ Items(<<a>>) = {a}
  BY DEF Items

LEMMA ItemsOfTwo ==
    ASSUME NEW S, NEW a \in S, NEW b \in S
    PROVE  <<a, b>> \in Seq(S) /\ Items(<<a, b>>) = {a, b}
PROOF
  <1>1. <<a, b>> \in Seq(S) /\ DOMAIN <<a, b>> = {1, 2} /\ <<a, b>>[1] = a /\ <<a, b>>[2] = b
    OBVIOUS
  <1> QED
    BY <1>1 DEF Items

LEMMA ItemsOfThree ==
    ASSUME NEW S, NEW a \in S, NEW b \in S, NEW c \in S
    PROVE  <<a, b, c>> \in Seq(S) /\ Items(<<a, b, c>>) = {a, b, c}
PROOF
  <1>1. /\ <<a, b, c>> \in Seq(S) /\ DOMAIN <<a, b, c>> = {1, 2, 3}
        /\ <<a, b, c>>[1] = a /\ <<a, b, c>>[2] = b /\ <<a, b, c>>[3] = c
    OBVIOUS
  <1> QED
    BY <1>1 DEF Items

LEMMA ItemsOfNone ==
    ASSUME NEW S
    PROVE  << >> \in Seq(S) /\ Items(<< >>) = {}
  BY DEF Items

-------------------------------------------------------------------------------
ElementInside(n, m) ==
    /\ doc[n].kind = "Object" => doc[m].span \subseteq doc[m].pair /\ doc[m].pair \subseteq doc[n].span
    /\ doc[n].kind = "Array" =>
          \A i \in doc[m].span : i \in doc[n].span /\ \E a, b \in doc[n].span : a < i /\ i < b

(* The parts that make up the structure of a value hold no byte of the      *)
(* primitive value l.                                                       *)
LEMMA StructureParts ==
    ASSUME NEW n \in DOMAIN doc, NEW l \in DOMAIN doc, doc[n].span \in SUBSET Nat,
           doc[l].span \cap (doc[n].pair \ doc[n].span) = {},
           IsContainer(doc, n) => \/ doc[l].span \cap doc[n].span = {}
                                  \/ \E m \in Elems(n) : doc[l].span \subseteq doc[m].span,
           \A m \in Elems(n) : ElementInside(n, m)
    PROVE  /\ WithoutValue(n) \cap doc[l].span = {}
           /\ doc[n].kind = "Object" => WithoutPairs(n) \cap doc[l].span = {}
           /\ doc[n].kind = "Array" => WithoutValues(n) \cap doc[l].span = {}
           /\ doc[n].kind = "Array" => Separators(n) \cap doc[l].span = {}
PROOF
  <1>1. WithoutValue(n) \cap doc[l].span = {}
    BY DEF WithoutValue
  <1>2. ASSUME doc[n].kind = "Object"
        PROVE  WithoutPairs(n) \cap doc[l].span = {}
    BY <1>2 DEF WithoutPairs, IsContainer, ElementInside
  <1>3. ASSUME doc[n].kind = "Array"
        PROVE  WithoutValues(n) \cap doc[l].span = {}
    <2>1. \A m \in Elems(n) : \A i \in doc[m].span :
              i \in doc[n].span /\ \E a, b \in doc[n].span : a < i /\ i < b
      BY <1>3 DEF ElementInside
    <2>2. \A m \in Elems(n) : \A i \in doc[m].span : i \notin WithoutValues(n)
      BY <2>1 DEF WithoutValues
    <2>3. WithoutValues(n) \subseteq doc[n].span
      BY DEF WithoutValues
    <2> QED
      BY <1>3, <2>2, <2>3 DEF IsContainer
  <1>4. ASSUME doc[n].kind = "Array"
        PROVE  Separators(n) \cap doc[l].span = {}
    BY <1>4 DEF Separators, IsContainer
  <1> QED
    BY <1>1, <1>2, <1>3, <1>4

-------------------------------------------------------------------------------
(* Sets of calls that are closed under what a call makes. *)

(* The values N, which have all their elements among them and lie in R. *)
Within(N, R) ==
    \A n \in N : /\ doc[n].elems \in Seq(N)
                 /\ doc[n].span \cup doc[n].pair \subseteq R

CallsWithin(N, R, d) ==
    [routine : {"commit_structure", "pair_structure", "commit_value", "commit_key_value"},
     node : N, direction : {d}]
        \cup [routine : {"commit", "commit_each"}, ranges : SUBSET R, direction : {d}]

LEMMA CallsInList ==
    ASSUME NEW N, NEW S, NEW n, NEW d, NEW routine, doc[n].elems \in Seq(N),
           \A m \in N : Call(routine, m, d) \in S
    PROVE  CallEach(routine, n, d) \in Seq(S)
PROOF
  <1>1. Len(doc[n].elems) \in Nat /\ DOMAIN doc[n].elems = 1 .. Len(doc[n].elems)
    OBVIOUS
  <1>2. \A k \in DOMAIN doc[n].elems : Call(routine, doc[n].elems[k], d) \in S
    OBVIOUS
  <1> QED
    BY <1>1, <1>2 DEF CallEach

LEMMA PartsWithin ==
    ASSUME NEW n, NEW R, doc[n].span \cup doc[n].pair \subseteq R
    PROVE  /\ doc[n].span \subseteq R /\ WithoutPairs(n) \subseteq R
           /\ WithoutValue(n) \subseteq R /\ WithoutValues(n) \subseteq R
           /\ Separators(n) \subseteq R
  BY DEF WithoutPairs, WithoutValue, WithoutValues, Separators

LEMMA ListOf ==
    ASSUME NEW S, NEW a \in S, NEW b \in S, NEW c \in S
    PROVE  <<a>> \in Seq(S) /\ <<a, b>> \in Seq(S) /\ <<a, b, c>> \in Seq(S) /\ << >> \in Seq(S)
  OBVIOUS

LEMMA ListsTogether ==
    ASSUME NEW S, NEW s \in Seq(S), NEW t \in Seq(S)
    PROVE  s \o t \in Seq(S)
  OBVIOUS

(* A call about values in N makes calls about values in N. *)
LEMMA ExpandsWithin ==
    ASSUME NEW N, NEW R, NEW d, Within(N, R), NEW c \in CallsWithin(N, R, d),
           NEW calls, Expands(c, calls)
    PROVE  calls \in Seq(CallsWithin(N, R, d))
PROOF
  <1>a. PICK S : S = CallsWithin(N, R, d)
    OBVIOUS
  <1>b. PICK n : n = c.node
    OBVIOUS
  <1>1. c.direction = d
    BY DEF CallsWithin
  <1>2. \A m \in N : /\ Call("commit_structure", m, d) \in S /\ Call("pair_structure", m, d) \in S
                     /\ Call("commit_value", m, d) \in S /\ Call("commit_key_value", m, d) \in S
    BY <1>a DEF Call, CallsWithin
  <1>3. \A T \in SUBSET R : Commit(T, d) \in S /\ CommitEach(T, d) \in S
    BY <1>a DEF Commit, CommitEach, CallsWithin
  <1>4. CASE c.routine = "commit_each"
    <2>1. c.ranges \in SUBSET R
      BY <1>4 DEF CallsWithin
    <2>2. FirstRange(c.ranges) \in SUBSET R /\ c.ranges \ FirstRange(c.ranges) \in SUBSET R
      BY <2>1 DEF FirstRange
    <2>3. Commit(FirstRange(c.ranges), d) \in S /\ CommitEach(c.ranges \ FirstRange(c.ranges), d) \in S
      BY <1>3, <2>2
    <2>4. \/ calls = << >>
          \/ calls = <<Commit(FirstRange(c.ranges), d), CommitEach(c.ranges \ FirstRange(c.ranges), d)>>
      BY <1>1, <1>4 DEF Expands
    <2> QED
      BY <1>a, <2>3, <2>4, ListOf
  <1>5. CASE c.routine # "commit_each"
    <2>1. n \in N
      <3>1. c.routine # "commit"
        BY DEF Expands
      <3> QED
        BY <1>5, <1>b, <3>1 DEF CallsWithin
    <2>2. doc[n].elems \in Seq(N) /\ doc[n].span \cup doc[n].pair \subseteq R
      BY <2>1 DEF Within
    <2>3. /\ Commit(doc[n].span, d) \in S /\ Commit(WithoutPairs(n), d) \in S
          /\ Commit(WithoutValue(n), d) \in S /\ Commit(WithoutValues(n), d) \in S
          /\ Commit(Separators(n), d) \in S /\ CommitEach(Separators(n), d) \in S
      BY <1>3, <2>2, PartsWithin
    <2>4. /\ CallEach("commit_structure", n, d) \in Seq(S)
          /\ CallEach("pair_structure", n, d) \in Seq(S)
          /\ CallEach("commit_value", n, d) \in Seq(S)
          /\ CallEach("commit_key_value", n, d) \in Seq(S)
      BY <1>2, <2>2, CallsInList
    <2>5. CASE c.routine = "commit_structure"
      <3>1. calls = StructureCalls(n, d)
        BY <1>1, <1>b, <2>5 DEF Expands
      <3> QED
        BY <1>a, <2>3, <2>4, <3>1, ListOf, ListsTogether DEF StructureCalls
    <2>6. CASE c.routine = "pair_structure"
      BY <1>a, <1>b, <1>1, <1>2, <2>1, <2>3, <2>6, ListOf, ZenonT(40) DEF Expands, PairStructureCalls
    <2>7. CASE c.routine = "commit_value"
      <3>1. calls = ValueCalls(n, d)
        BY <1>1, <1>b, <2>7 DEF Expands
      <3> QED
        BY <1>a, <2>3, <2>4, <3>1, ListOf, ListsTogether DEF ValueCalls, PrimitiveCalls
    <2>8. CASE c.routine = "commit_key_value"
      BY <1>a, <1>b, <1>1, <1>2, <2>1, <2>3, <2>8, ListOf, ZenonT(40) DEF Expands, KeyValueCalls
    <2> QED
      BY <1>5, <2>5, <2>6, <2>7, <2>8 DEF Expands
  <1> QED
    BY <1>4, <1>5

(* The same for the calls of commit_structure, which only commit to the     *)
(* parts that make up the structure.                                        *)
StructureWithin(N, R) ==
    \A n \in N : /\ doc[n].elems \in Seq(N)
                 /\ WithoutValue(n) \subseteq R
                 /\ doc[n].kind = "Object" => WithoutPairs(n) \subseteq R
                 /\ doc[n].kind = "Array" => WithoutValues(n) \subseteq R /\ Separators(n) \subseteq R

StructureCallsWithin(N, R, d) ==
    [routine : {"commit_structure", "pair_structure"}, node : N, direction : {d}]
        \cup [routine : {"commit"}, ranges : SUBSET R, direction : {d}]

LEMMA StructureExpandsWithin ==
    ASSUME NEW N, NEW R, NEW d, StructureWithin(N, R), NEW c \in StructureCallsWithin(N, R, d),
           NEW calls, Expands(c, calls)
    PROVE  calls \in Seq(StructureCallsWithin(N, R, d))
PROOF
  <1>a. PICK S : S = StructureCallsWithin(N, R, d)
    OBVIOUS
  <1>b. PICK n : n = c.node
    OBVIOUS
  <1>1. c.direction = d /\ n \in N
    BY <1>b DEF StructureCallsWithin, Expands
  <1>2. \A m \in N : Call("commit_structure", m, d) \in S /\ Call("pair_structure", m, d) \in S
    BY <1>a DEF Call, StructureCallsWithin
  <1>3. \A T \in SUBSET R : Commit(T, d) \in S
    BY <1>a DEF Commit, StructureCallsWithin
  <1>4. /\ doc[n].elems \in Seq(N) /\ Commit(WithoutValue(n), d) \in S
        /\ doc[n].kind = "Object" => Commit(WithoutPairs(n), d) \in S
        /\ doc[n].kind = "Array" => Commit(WithoutValues(n), d) \in S /\ Commit(Separators(n), d) \in S
    BY <1>1, <1>3 DEF StructureWithin
  <1>5. /\ CallEach("commit_structure", n, d) \in Seq(S)
        /\ CallEach("pair_structure", n, d) \in Seq(S)
    BY <1>2, <1>4, CallsInList
  <1>6. CASE c.routine = "commit_structure"
    <2>1. calls = StructureCalls(n, d)
      BY <1>1, <1>b, <1>6 DEF Expands
    <2> QED
      BY <1>a, <1>4, <1>5, <2>1, ListOf, ListsTogether DEF StructureCalls
  <1>7. CASE c.routine = "pair_structure"
    BY <1>a, <1>b, <1>1, <1>2, <1>4, <1>7, ListOf DEF Expands, PairStructureCalls
  <1>8. c.routine \in {"commit_structure", "pair_structure"}
    BY DEF StructureCallsWithin, Expands
  <1> QED
    BY <1>6, <1>7, <1>8

-------------------------------------------------------------------------------
(* The calls that each routine makes. *)
Routines == {"commit_structure", "pair_structure", "commit_value", "commit_key_value"}

LEMMA CallEachItems ==
    ASSUME NEW routine, NEW n, NEW d
    PROVE  Items(CallEach(routine, n, d)) = {Call(routine, m, d) : m \in Elems(n)}
  BY DEF Items, CallEach, Elems

LEMMA CallsAreWithin ==
    ASSUME NEW N, NEW n, NEW d, NEW R, doc[n].elems \in Seq(N), doc[n].span \cup doc[n].pair \subseteq R
    PROVE  /\ Commit(doc[n].span, d) \in CallsWithin(N, R, d)
           /\ Commit(WithoutPairs(n), d) \in CallsWithin(N, R, d)
           /\ Commit(WithoutValue(n), d) \in CallsWithin(N, R, d)
           /\ Commit(WithoutValues(n), d) \in CallsWithin(N, R, d)
           /\ Commit(Separators(n), d) \in CallsWithin(N, R, d)
           /\ CommitEach(Separators(n), d) \in CallsWithin(N, R, d)
           /\ \A routine \in Routines : CallEach(routine, n, d) \in Seq(CallsWithin(N, R, d))
PROOF
  <1>1. \A T \in SUBSET R : /\ Commit(T, d) \in CallsWithin(N, R, d)
                            /\ CommitEach(T, d) \in CallsWithin(N, R, d)
    BY DEF Commit, CommitEach, CallsWithin
  <1>2. \A routine \in Routines, m \in N : Call(routine, m, d) \in CallsWithin(N, R, d)
    BY DEF Call, CallsWithin, Routines
  <1>3. \A routine \in Routines : CallEach(routine, n, d) \in Seq(CallsWithin(N, R, d))
    BY <1>2, CallsInList
  <1> QED
    BY <1>1, <1>3, PartsWithin

LEMMA StructureCallsMade ==
    ASSUME NEW N, NEW n, NEW d, doc[n].elems \in Seq(N)
    PROVE  /\ doc[n].kind = "Object" => Items(StructureCalls(n, d)) =
                 {Commit(WithoutPairs(n), d)} \cup {Call("pair_structure", m, d) : m \in Elems(n)}
           /\ doc[n].kind = "Array" => Items(StructureCalls(n, d)) =
                 {Commit(WithoutValues(n), d), Commit(Separators(n), d)}
                    \cup {Call("commit_structure", m, d) : m \in Elems(n)}
           /\ ~ IsContainer(doc, n) => Items(StructureCalls(n, d)) = {}
PROOF
  <1>0. PICK S : S = CallsWithin(N, doc[n].span \cup doc[n].pair, d)
    OBVIOUS
  <1>1. ASSUME doc[n].kind = "Object"
        PROVE  Items(StructureCalls(n, d)) =
                  {Commit(WithoutPairs(n), d)} \cup {Call("pair_structure", m, d) : m \in Elems(n)}
    <2>1. PICK a : a = Commit(WithoutPairs(n), d)
      OBVIOUS
    <2>2. PICK each : each = CallEach("pair_structure", n, d)
      OBVIOUS
    <2>3. a \in S /\ each \in Seq(S)
      BY <1>0, <2>1, <2>2, CallsAreWithin DEF Routines
    <2>4. PICK first : first = <<a>>
      OBVIOUS
    <2>5. first \in Seq(S) /\ Items(first) = {a}
      BY <2>3, <2>4, ItemsOfOne
    <2>6. Items(first \o each) = {a} \cup Items(each)
      BY <2>3, <2>5, ItemsOfConcat
    <2>7. StructureCalls(n, d) = first \o each
      BY <1>1, <2>1, <2>2, <2>4 DEF StructureCalls
    <2> QED
      BY <2>1, <2>2, <2>6, <2>7, CallEachItems
  <1>2. ASSUME doc[n].kind = "Array"
        PROVE  Items(StructureCalls(n, d)) =
                  {Commit(WithoutValues(n), d), Commit(Separators(n), d)}
                     \cup {Call("commit_structure", m, d) : m \in Elems(n)}
    <2>1. PICK a, b : a = Commit(WithoutValues(n), d) /\ b = Commit(Separators(n), d)
      OBVIOUS
    <2>2. PICK each : each = CallEach("commit_structure", n, d)
      OBVIOUS
    <2>3. a \in S /\ b \in S /\ each \in Seq(S)
      BY <1>0, <2>1, <2>2, CallsAreWithin DEF Routines
    <2>4. PICK first : first = <<a, b>>
      OBVIOUS
    <2>5. first \in Seq(S) /\ Items(first) = {a, b}
      BY <2>3, <2>4, ItemsOfTwo
    <2>6. Items(first \o each) = {a, b} \cup Items(each)
      BY <2>3, <2>5, ItemsOfConcat
    <2>7. StructureCalls(n, d) = first \o each
      BY <1>2, <2>1, <2>2, <2>4 DEF StructureCalls
    <2> QED
      BY <2>1, <2>2, <2>6, <2>7, CallEachItems
  <1>3. ASSUME ~ IsContainer(doc, n)
        PROVE  Items(StructureCalls(n, d)) = {}
    BY <1>3, ItemsOfNone DEF StructureCalls, IsContainer
  <1> QED
    BY <1>1, <1>2, <1>3

LEMMA ValueCallsMade ==
    ASSUME NEW N, NEW n, NEW d, doc[n].elems \in Seq(N)
    PROVE  /\ doc[n].kind = "Object" => Items(ValueCalls(n, d)) =
                 {Commit(WithoutPairs(n), d)} \cup {Call("commit_key_value", m, d) : m \in Elems(n)}
           /\ doc[n].kind = "Array" /\ doc[n].elems = << >> =>
                 Items(ValueCalls(n, d)) = {Commit(doc[n].span, d)}
           /\ doc[n].kind = "Array" /\ doc[n].elems # << >> => Items(ValueCalls(n, d)) =
                 {Commit(doc[n].span, d), Commit(WithoutValues(n), d), CommitEach(Separators(n), d)}
                    \cup {Call("commit_value", m, d) : m \in Elems(n)}
           /\ doc[n].kind = "Primitive" /\ doc[n].span # {} =>
                 Items(ValueCalls(n, d)) = {Commit(doc[n].span, d)}
           /\ doc[n].kind = "Primitive" /\ doc[n].span = {} => Items(ValueCalls(n, d)) = {}
           /\ doc[n].kind = "Redacted" => Items(ValueCalls(n, d)) = {}
PROOF
  <1>0. PICK S : S = CallsWithin(N, doc[n].span \cup doc[n].pair, d)
    OBVIOUS
  <1>1. ASSUME doc[n].kind = "Object"
        PROVE  Items(ValueCalls(n, d)) =
                  {Commit(WithoutPairs(n), d)} \cup {Call("commit_key_value", m, d) : m \in Elems(n)}
    <2>1. PICK a : a = Commit(WithoutPairs(n), d)
      OBVIOUS
    <2>2. PICK each : each = CallEach("commit_key_value", n, d)
      OBVIOUS
    <2>3. a \in S /\ each \in Seq(S)
      BY <1>0, <2>1, <2>2, CallsAreWithin DEF Routines
    <2>4. PICK first : first = <<a>>
      OBVIOUS
    <2>5. first \in Seq(S) /\ Items(first) = {a}
      BY <2>3, <2>4, ItemsOfOne
    <2>6. Items(first \o each) = {a} \cup Items(each)
      BY <2>3, <2>5, ItemsOfConcat
    <2>7. ValueCalls(n, d) = first \o each
      BY <1>1, <2>1, <2>2, <2>4 DEF ValueCalls
    <2> QED
      BY <2>1, <2>2, <2>6, <2>7, CallEachItems
  <1>2. ASSUME doc[n].kind = "Array", doc[n].elems # << >>
        PROVE  Items(ValueCalls(n, d)) =
                  {Commit(doc[n].span, d), Commit(WithoutValues(n), d), CommitEach(Separators(n), d)}
                     \cup {Call("commit_value", m, d) : m \in Elems(n)}
    <2>1. PICK a, b, c : /\ a = Commit(doc[n].span, d) /\ b = Commit(WithoutValues(n), d)
                         /\ c = CommitEach(Separators(n), d)
      OBVIOUS
    <2>2. PICK each : each = CallEach("commit_value", n, d)
      OBVIOUS
    <2>3. a \in S /\ b \in S /\ c \in S /\ each \in Seq(S)
      BY <1>0, <2>1, <2>2, CallsAreWithin DEF Routines
    <2>4. PICK first : first = <<a, b, c>>
      OBVIOUS
    <2>5. first \in Seq(S) /\ Items(first) = {a, b, c}
      BY <2>3, <2>4, ItemsOfThree
    <2>6. Items(first \o each) = {a, b, c} \cup Items(each)
      BY <2>3, <2>5, ItemsOfConcat
    <2>7. ValueCalls(n, d) = first \o each
      BY <1>2, <2>1, <2>2, <2>4 DEF ValueCalls
    <2> QED
      BY <2>1, <2>2, <2>6, <2>7, CallEachItems
  <1>3. ASSUME \/ doc[n].kind = "Array" /\ doc[n].elems = << >>
               \/ doc[n].kind = "Primitive" /\ doc[n].span # {}
        PROVE  Items(ValueCalls(n, d)) = {Commit(doc[n].span, d)}
    <2>1. ValueCalls(n, d) = <<Commit(doc[n].span, d)>>
      BY <1>3 DEF ValueCalls, PrimitiveCalls
    <2> QED
      BY <2>1, ItemsOfOne
  <1>4. ASSUME \/ doc[n].kind = "Redacted"
               \/ doc[n].kind = "Primitive" /\ doc[n].span = {}
        PROVE  Items(ValueCalls(n, d)) = {}
    BY <1>4, ItemsOfNone DEF ValueCalls, PrimitiveCalls
  <1> QED
    BY <1>1, <1>2, <1>3, <1>4

LEMMA PairCallsMade ==
    ASSUME NEW n, NEW d
    PROVE  /\ Items(PairStructureCalls(n, d)) = {Commit(WithoutValue(n), d), Call("commit_structure", n, d)}
           /\ Items(KeyValueCalls(n, d)) = {Commit(WithoutValue(n), d), Call("commit_value", n, d)}
  BY ItemsOfTwo DEF PairStructureCalls, KeyValueCalls

LEMMA EachCallsMade ==
    ASSUME NEW S, NEW d
    PROVE  Items(<<Commit(FirstRange(S), d), CommitEach(S \ FirstRange(S), d)>>) =
              {Commit(FirstRange(S), d), CommitEach(S \ FirstRange(S), d)}
  BY ItemsOfTwo

-------------------------------------------------------------------------------
(* The positions a call may still commit to. *)
Reaches(c) ==
    IF c.routine \in {"commit", "commit_each"} THEN c.ranges
    ELSE IF c.routine \in {"pair_structure", "commit_key_value"}
         THEN doc[c.node].pair \cup doc[c.node].span
         ELSE doc[c.node].span

LEMMA ReachesOfCall ==
    ASSUME NEW n, NEW d, NEW S
    PROVE  /\ Reaches(Commit(S, d)) = S /\ Reaches(CommitEach(S, d)) = S
           /\ Reaches(Call("commit_structure", n, d)) = doc[n].span
           /\ Reaches(Call("commit_value", n, d)) = doc[n].span
           /\ Reaches(Call("pair_structure", n, d)) = doc[n].pair \cup doc[n].span
           /\ Reaches(Call("commit_key_value", n, d)) = doc[n].pair \cup doc[n].span
  BY DEF Reaches, Commit, CommitEach, Call

-------------------------------------------------------------------------------
(* What a call will make openable: position i with a commitment that holds  *)
(* no position of H.  A call of the structure committer does so only if H   *)
(* holds all primitive values.                                              *)
LeavesHidden(N, H) == \A n \in N : ~ IsContainer(doc, n) => doc[n].span \subseteq H

Carries(N, c, i, H) ==
    /\ i \in Reaches(c)
    /\ c.routine \in Routines \cup {"commit", "commit_each"}
    /\ c.routine \in {"commit", "commit_each"} => c.ranges \cap H = {}
    /\ c.routine \in Routines => c.node \in N
    /\ c.routine \in {"commit_structure", "pair_structure"} => LeavesHidden(N, H)

(* H is a selection of the primitive values in N, and holds nothing else of *)
(* them.                                                                    *)
Selective(N, H) ==
    \A n \in N :
        /\ doc[n].elems \in Seq(N)
        /\ WithoutValue(n) \cap H = {}
        /\ doc[n].kind = "Object" => WithoutPairs(n) \cap H = {}
        /\ doc[n].kind = "Array" => WithoutValues(n) \cap H = {} /\ Separators(n) \cap H = {}
        /\ doc[n].kind = "Array" /\ doc[n].elems = << >> => doc[n].span \cap H = {}
        /\ doc[n].kind = "Primitive" => doc[n].span \subseteq H \/ doc[n].span \cap H = {}
        /\ doc[n].kind \in {"Object", "Array", "Primitive", "Redacted"}

LEMMA CarriesOfCall ==
    ASSUME NEW N, NEW n, NEW d, NEW S, NEW i, NEW H
    PROVE  /\ i \in S /\ S \cap H = {} => Carries(N, Commit(S, d), i, H)
           /\ i \in S /\ S \cap H = {} => Carries(N, CommitEach(S, d), i, H)
           /\ n \in N /\ i \in doc[n].span => Carries(N, Call("commit_value", n, d), i, H)
           /\ n \in N /\ i \in doc[n].pair \cup doc[n].span =>
                 Carries(N, Call("commit_key_value", n, d), i, H)
           /\ n \in N /\ i \in doc[n].span /\ LeavesHidden(N, H) =>
                 Carries(N, Call("commit_structure", n, d), i, H)
           /\ n \in N /\ i \in doc[n].pair \cup doc[n].span /\ LeavesHidden(N, H) =>
                 Carries(N, Call("pair_structure", n, d), i, H)
PROOF
  <1>1. /\ Commit(S, d).routine = "commit" /\ CommitEach(S, d).routine = "commit_each"
        /\ Commit(S, d).ranges = S /\ CommitEach(S, d).ranges = S
        /\ \A r : Call(r, n, d).routine = r /\ Call(r, n, d).node = n
    BY DEF Commit, CommitEach, Call
  <1> QED
    BY <1>1, ReachesOfCall DEF Carries, Routines

LEMMA ExpandsCarries ==
    ASSUME NEW N, NEW H, Selective(N, H), NEW c, NEW calls, Expands(c, calls),
           NEW i, i \notin H, Carries(N, c, i, H)
    PROVE  \E x \in Items(calls) : x.direction = c.direction /\ Carries(N, x, i, H)
PROOF
  <1>a. PICK n, d : n = c.node /\ d = c.direction
    OBVIOUS
  <1>b. \A S, r, m : /\ Commit(S, d).direction = d /\ CommitEach(S, d).direction = d
                     /\ Call(r, m, d).direction = d
    BY DEF Commit, CommitEach, Call
  <1>c. c.routine \in Routines => n \in N /\ doc[n].elems \in Seq(N) /\ Elems(n) \subseteq N
    <2>1. c.routine \in Routines => n \in N /\ doc[n].elems \in Seq(N)
      BY <1>a DEF Carries, Selective
    <2>2. doc[n].elems \in Seq(N) => \A k \in DOMAIN doc[n].elems : doc[n].elems[k] \in N
      OBVIOUS
    <2> QED
      BY <2>1, <2>2 DEF Elems
  <1>1. CASE c.routine = "commit_structure"
    <2>1. /\ calls = StructureCalls(n, d) /\ n \in N /\ LeavesHidden(N, H)
          /\ i \in doc[n].span /\ Elems(n) \subseteq N
      BY <1>1, <1>a, <1>c DEF Expands, Reaches, Routines, Carries
    <2>2. CASE doc[n].kind = "Object"
      <3>1. Items(calls) = {Commit(WithoutPairs(n), d)}
                              \cup {Call("pair_structure", m, d) : m \in Elems(n)}
        BY <1>1, <1>c, <2>1, <2>2, StructureCallsMade DEF Routines
      <3>2. CASE i \in WithoutPairs(n)
        <4>1. Carries(N, Commit(WithoutPairs(n), d), i, H)
          BY <2>1, <2>2, <3>2, CarriesOfCall DEF Selective
        <4> QED
          BY <1>a, <1>b, <3>1, <4>1
      <3>3. CASE i \notin WithoutPairs(n)
        <4>1. PICK m \in Elems(n) : i \in doc[m].pair
          BY <2>1, <3>3 DEF WithoutPairs
        <4>2. Carries(N, Call("pair_structure", m, d), i, H)
          BY <2>1, <4>1, CarriesOfCall
        <4> QED
          BY <1>a, <1>b, <3>1, <4>1, <4>2
      <3> QED
        BY <3>2, <3>3
    <2>3. CASE doc[n].kind = "Array"
      <3>1. Items(calls) = {Commit(WithoutValues(n), d), Commit(Separators(n), d)}
                              \cup {Call("commit_structure", m, d) : m \in Elems(n)}
        BY <1>1, <1>c, <2>1, <2>3, StructureCallsMade DEF Routines
      <3>2. CASE i \in WithoutValues(n)
        <4>1. Carries(N, Commit(WithoutValues(n), d), i, H)
          BY <2>1, <2>3, <3>2, CarriesOfCall DEF Selective
        <4> QED
          BY <1>a, <1>b, <3>1, <4>1
      <3>3. CASE i \in Separators(n)
        <4>1. Carries(N, Commit(Separators(n), d), i, H)
          BY <2>1, <2>3, <3>3, CarriesOfCall DEF Selective
        <4> QED
          BY <1>a, <1>b, <3>1, <4>1
      <3>4. CASE i \notin WithoutValues(n) /\ i \notin Separators(n)
        <4>1. PICK m \in Elems(n) : i \in doc[m].span
          BY <2>1, <3>4 DEF Separators
        <4>2. Carries(N, Call("commit_structure", m, d), i, H)
          BY <2>1, <4>1, CarriesOfCall
        <4> QED
          BY <1>a, <1>b, <3>1, <4>1, <4>2
      <3> QED
        BY <3>2, <3>3, <3>4
    <2>4. CASE ~ IsContainer(doc, n)
      BY <2>1, <2>4 DEF LeavesHidden
    <2> QED
      BY <2>2, <2>3, <2>4 DEF IsContainer
  <1>2. CASE c.routine = "pair_structure"
    <2>1. /\ calls = PairStructureCalls(n, d) /\ n \in N /\ LeavesHidden(N, H)
          /\ i \in doc[n].pair \cup doc[n].span
      BY <1>2, <1>a, <1>c DEF Expands, Reaches, Routines, Carries
    <2>2. Items(calls) = {Commit(WithoutValue(n), d), Call("commit_structure", n, d)}
      BY <2>1, PairCallsMade
    <2>3. \/ Carries(N, Commit(WithoutValue(n), d), i, H)
          \/ Carries(N, Call("commit_structure", n, d), i, H)
      BY <2>1, CarriesOfCall DEF Selective, WithoutValue
    <2> QED
      BY <1>a, <1>b, <2>2, <2>3
  <1>3. CASE c.routine = "commit_key_value"
    <2>1. /\ calls = KeyValueCalls(n, d) /\ n \in N
          /\ i \in doc[n].pair \cup doc[n].span
      BY <1>3, <1>a, <1>c DEF Expands, Reaches, Routines, Carries
    <2>2. Items(calls) = {Commit(WithoutValue(n), d), Call("commit_value", n, d)}
      BY <2>1, PairCallsMade
    <2>3. \/ Carries(N, Commit(WithoutValue(n), d), i, H)
          \/ Carries(N, Call("commit_value", n, d), i, H)
      BY <2>1, CarriesOfCall DEF Selective, WithoutValue
    <2> QED
      BY <1>a, <1>b, <2>2, <2>3
  <1>4. CASE c.routine = "commit_value"
    <2>1. /\ calls = ValueCalls(n, d) /\ n \in N /\ i \in doc[n].span /\ Elems(n) \subseteq N
          /\ doc[n].elems \in Seq(N) /\ doc[n].kind \in {"Object", "Array", "Primitive"}
      BY <1>4, <1>a, <1>c DEF Expands, Reaches, Routines, Carries, Selective
    <2>2. CASE doc[n].kind = "Object"
      <3>1. Items(calls) = {Commit(WithoutPairs(n), d)}
                              \cup {Call("commit_key_value", m, d) : m \in Elems(n)}
        BY <2>1, <2>2, ValueCallsMade
      <3>2. CASE i \in WithoutPairs(n)
        <4>1. Carries(N, Commit(WithoutPairs(n), d), i, H)
          BY <2>1, <2>2, <3>2, CarriesOfCall DEF Selective
        <4> QED
          BY <1>a, <1>b, <3>1, <4>1
      <3>3. CASE i \notin WithoutPairs(n)
        <4>1. PICK m \in Elems(n) : i \in doc[m].pair
          BY <2>1, <3>3 DEF WithoutPairs
        <4>2. Carries(N, Call("commit_key_value", m, d), i, H)
          BY <2>1, <4>1, CarriesOfCall
        <4> QED
          BY <1>a, <1>b, <3>1, <4>1, <4>2
      <3> QED
        BY <3>2, <3>3
    <2>3. CASE doc[n].kind = "Array" /\ doc[n].elems # << >>
      <3>1. Items(calls) = {Commit(doc[n].span, d), Commit(WithoutValues(n), d),
                            CommitEach(Separators(n), d)}
                              \cup {Call("commit_value", m, d) : m \in Elems(n)}
        BY <2>1, <2>3, ValueCallsMade
      <3>2. CASE i \in WithoutValues(n)
        <4>1. Carries(N, Commit(WithoutValues(n), d), i, H)
          BY <2>1, <2>3, <3>2, CarriesOfCall DEF Selective
        <4> QED
          BY <1>a, <1>b, <3>1, <4>1
      <3>3. CASE i \in Separators(n)
        <4>1. Carries(N, CommitEach(Separators(n), d), i, H)
          BY <2>1, <2>3, <3>3, CarriesOfCall DEF Selective
        <4> QED
          BY <1>a, <1>b, <3>1, <4>1
      <3>4. CASE i \notin WithoutValues(n) /\ i \notin Separators(n)
        <4>1. PICK m \in Elems(n) : i \in doc[m].span
          BY <2>1, <3>4 DEF Separators
        <4>2. Carries(N, Call("commit_value", m, d), i, H)
          BY <2>1, <4>1, CarriesOfCall
        <4> QED
          BY <1>a, <1>b, <3>1, <4>1, <4>2
      <3> QED
        BY <3>2, <3>3, <3>4
    <2>4. CASE \/ doc[n].kind = "Array" /\ doc[n].elems = << >>
               \/ doc[n].kind = "Primitive"
      <3>1. Items(calls) = {Commit(doc[n].span, d)}
        BY <2>1, <2>4, ValueCallsMade
      <3>2. doc[n].span \cap H = {}
        BY <2>1, <2>4 DEF Selective
      <3>3. Carries(N, Commit(doc[n].span, d), i, H)
        BY <2>1, <3>2, CarriesOfCall
      <3> QED
        BY <1>a, <1>b, <3>1, <3>3
    <2> QED
      BY <2>1, <2>2, <2>3, <2>4
  <1>5. CASE c.routine = "commit_each" /\ c.ranges # {}
    <2>1. PICK S : S = c.ranges
      OBVIOUS
    <2>2. /\ calls = <<Commit(FirstRange(S), d), CommitEach(S \ FirstRange(S), d)>>
          /\ i \in S /\ S \cap H = {}
      BY <1>5, <1>a, <2>1 DEF Expands, Reaches, Carries
    <2>3. Items(calls) = {Commit(FirstRange(S), d), CommitEach(S \ FirstRange(S), d)}
      BY <2>2, EachCallsMade
    <2>4. FirstRange(S) \subseteq S
      BY DEF FirstRange
    <2>5. \/ Carries(N, Commit(FirstRange(S), d), i, H)
          \/ Carries(N, CommitEach(S \ FirstRange(S), d), i, H)
      BY <2>2, <2>4, CarriesOfCall
    <2> QED
      BY <1>a, <1>b, <2>3, <2>5
  <1>6. CASE c.routine = "commit_each" /\ c.ranges = {}
    BY <1>6 DEF Carries, Reaches
  <1> QED
    BY <1>1, <1>2, <1>3, <1>4, <1>5, <1>6 DEF Expands
===============================================================================
