--------------------------- MODULE JsonCommit_proofs ---------------------------
(***************************************************************************)
(* Theorems about JsonCommit, for documents of any size and depth and any   *)
(* number of calls.  Nothing here is an induction over the document: the    *)
(* agenda is in the state, and the invariant says of every call still on it *)
(* what the properties say of the calls that are done.                      *)
(***************************************************************************)
EXTENDS JsonCommit, JsonCommitter_proofs

-------------------------------------------------------------------------------
(* The calls that each routine makes. *)
LEMMA DocumentFacts ==
    ASSUME doc \in Documents
    PROVE  Shaped(doc) /\ ElementsInside(doc) /\ LeavesInElements(doc) /\ LeavesApart(doc)
  BY DocumentsAssumption DEF WellNested

LEMMA ElemsFacts ==
    ASSUME doc \in Documents, NEW n \in DOMAIN doc
    PROVE  Elems(n) = Children(doc, n) /\ Elems(n) \subseteq DOMAIN doc
PROOF
  <1>1. doc[n].elems \in Seq(DOMAIN doc)
    BY DocumentFacts DEF Shaped
  <1>2. \A k \in DOMAIN doc[n].elems : doc[n].elems[k] \in DOMAIN doc
    BY <1>1
  <1> QED
    BY <1>2 DEF Elems, Children

(* The sets of positions the committer hands to the builder. *)
LEMMA PartsArePositions ==
    ASSUME doc \in Documents, NEW n \in DOMAIN doc
    PROVE  /\ doc[n].span \in SUBSET Nat /\ doc[n].pair \in SUBSET Nat
           /\ WithoutPairs(n) \in SUBSET Nat /\ WithoutValue(n) \in SUBSET Nat
           /\ WithoutValues(n) \in SUBSET Nat /\ Separators(n) \in SUBSET Nat
PROOF
  <1>1. doc[n].span \in SUBSET Nat /\ doc[n].pair \in SUBSET Nat
    BY DocumentFacts DEF Shaped
  <1> QED
    BY <1>1 DEF WithoutPairs, WithoutValue, WithoutValues, Separators

LEMMA StructureItems ==
    ASSUME doc \in Documents, NEW n \in DOMAIN doc, NEW d
    PROVE  /\ doc[n].kind = "Object" => Items(StructureCalls(n, d)) =
                 {Commit(WithoutPairs(n), d)} \cup {Call("pair_structure", m, d) : m \in Elems(n)}
           /\ doc[n].kind = "Array" => Items(StructureCalls(n, d)) =
                 {Commit(WithoutValues(n), d), Commit(Separators(n), d)}
                    \cup {Call("commit_structure", m, d) : m \in Elems(n)}
           /\ ~ IsContainer(doc, n) => Items(StructureCalls(n, d)) = {}
  BY DocumentFacts, StructureCallsMade DEF Shaped

LEMMA ValueItems ==
    ASSUME doc \in Documents, NEW n \in DOMAIN doc, NEW d
    PROVE  /\ doc[n].kind = "Object" => Items(ValueCalls(n, d)) =
                 {Commit(WithoutPairs(n), d)} \cup {Call("commit_key_value", m, d) : m \in Elems(n)}
           /\ doc[n].kind = "Array" /\ doc[n].elems = << >> =>
                 Items(ValueCalls(n, d)) = {Commit(doc[n].span, d)}
           /\ doc[n].kind = "Array" /\ doc[n].elems # << >> => Items(ValueCalls(n, d)) =
                 {Commit(doc[n].span, d), Commit(WithoutValues(n), d), CommitEach(Separators(n), d)}
                    \cup {Call("commit_value", m, d) : m \in Elems(n)}
           /\ doc[n].kind = "Primitive" /\ doc[n].span # {} =>
                 Items(ValueCalls(n, d)) = {Commit(doc[n].span, d)}
           /\ doc[n].kind = "Primitive" /\ doc[n].span = {} => Items(ValueCalls(n, d)) = {}
           /\ doc[n].kind = "Redacted" => Items(ValueCalls(n, d)) = {}
  BY DocumentFacts, ValueCallsMade DEF Shaped

-------------------------------------------------------------------------------
LEMMA ItemFacts ==
    ASSUME NEW c \in Item
    PROVE  /\ c.direction \in Direction
           /\ c.routine \in Routines \cup {"commit", "commit_each"}
           /\ c.routine \in Routines => c.node \in DOMAIN doc
           /\ c.routine \in {"commit", "commit_each"} => c.ranges \in SUBSET Nat
  BY DEF Item, Calls, Commits, Routines

LEMMA FirstRangeFacts ==
    ASSUME NEW S \in SUBSET Nat
    PROVE  FirstRange(S) \in SUBSET Nat /\ FirstRange(S) \subseteq S
  BY DEF FirstRange

LEMMA ExpandsType ==
    ASSUME doc \in Documents, NEW c \in Item, NEW calls, Expands(c, calls)
    PROVE  calls \in Seq(Item)
PROOF
  <1>1. PICK d \in Direction : d = c.direction
    BY ItemFacts
  <1>2. PICK S : S = CallsWithin(DOMAIN doc, Nat, d)
    OBVIOUS
  <1>3. c \in S
    BY <1>1, <1>2 DEF Item, Calls, Commits, CallsWithin
  <1>4. Within(DOMAIN doc, Nat)
    BY DocumentFacts DEF Within, Shaped
  <1>5. calls \in Seq(S)
    BY <1>2, <1>3, <1>4, ExpandsWithin
  <1>6. S \subseteq Item
    BY <1>2 DEF Item, Calls, Commits, CallsWithin
  <1> QED
    BY <1>5, <1>6

(* What the agenda holds after an expansion. *)
LEMMA AgendaItems ==
    ASSUME TypeOK, doc \in Documents, agenda # << >>,
           NEW calls, Expands(Head(agenda), calls), Becomes(calls)
    PROVE  /\ Head(agenda) \in Item
           /\ agenda' \in Seq(Item)
           /\ Items(agenda) = {Head(agenda)} \cup Items(Tail(agenda))
           /\ Items(agenda') = Items(calls) \cup Items(Tail(agenda))
PROOF
  <1>1. agenda \in Seq(Item)
    BY DEF TypeOK
  <1>2. /\ Head(agenda) \in Item /\ Tail(agenda) \in Seq(Item)
        /\ Items(agenda) = {Head(agenda)} \cup Items(Tail(agenda))
    BY <1>1, ItemsOfHead
  <1>3. calls \in Seq(Item)
    BY <1>2, ExpandsType
  <1>4. /\ calls \o Tail(agenda) \in Seq(Item)
        /\ Items(calls \o Tail(agenda)) = Items(calls) \cup Items(Tail(agenda))
    <2>1. Tail(agenda) \in Seq(Item)
      BY <1>2
    <2> QED
      BY <1>3, <2>1, ItemsOfConcat, ZenonT(40)
  <1>5. agenda' = calls \o Tail(agenda)
    BY DEF Becomes
  <1> HIDE DEF Becomes
  <1>6. Items(agenda') = Items(calls) \cup Items(Tail(agenda)) /\ agenda' \in Seq(Item)
    BY <1>4, <1>5
  <1> QED
    BY <1>2, <1>6

(* Every item on a typed agenda is an item. *)
LEMMA AgendaTyped ==
    ASSUME TypeOK
    PROVE  Items(agenda) \subseteq Item
PROOF
  <1>1. agenda \in Seq(Item)
    BY DEF TypeOK
  <1>2. \A k \in DOMAIN agenda : agenda[k] \in Item
    BY <1>1
  <1> QED
    BY <1>2 DEF Items

-------------------------------------------------------------------------------
(* Type correctness. *)
Typed == TypeOK /\ doc \in Documents

LEMMA TypedInit == Init => Typed
PROOF
  <1> SUFFICES ASSUME Init PROVE Typed
    OBVIOUS
  <1>1. << >> \in Seq(Item)
    BY ItemsOfNone
  <1> QED
    BY <1>1 DEF Init, Typed, TypeOK

LEMMA CallingNotNone ==
    ASSUME doc \in Documents, NEW c \in Calls({"commit_structure", "commit_value"})
    PROVE  c # None /\ c \in Item /\ c.routine \in {"commit_structure", "commit_value"}
           /\ c.node \in DOMAIN doc /\ c.direction \in Direction
  BY NoneAssumption DEF Calls, Item

LEMMA TypedCall ==
    ASSUME Typed, NEW routine \in {"commit_structure", "commit_value"},
           NEW n \in DOMAIN doc, NEW d \in Direction, CallCommitter(routine, n, d)
    PROVE  Typed'
PROOF
  <1> DEFINE c == Call(routine, n, d)
  <1>1. c \in Calls({"commit_structure", "commit_value"})
    BY DEF Call, Calls
  <1>2. c # None /\ c \in Item
    BY <1>1, CallingNotNone DEF Typed
  <1>3. <<c>> \in Seq(Item)
    BY <1>2
  <1>4. /\ doc' = doc /\ committed' = committed /\ completed' = completed
        /\ agenda' = <<c>> /\ calling' = c /\ called' = called \cup {c} /\ failed' = FALSE
    BY DEF CallCommitter
  <1>5. Item' = Item /\ Calls({"commit_structure", "commit_value"})' = Calls({"commit_structure", "commit_value"})
    BY <1>4 DEF Item, Calls, Commits
  <1> HIDE DEF c
  <1> QED
    BY <1>1, <1>2, <1>3, <1>4, <1>5 DEF Typed, TypeOK

LEMMA TypedStep ==
    ASSUME Typed, JsonStep, UNCHANGED <<calling, called, completed>>
    PROVE  Typed'
PROOF
  <1>1. agenda # << >>
    BY StepCases
  <1>2. doc' = doc
    BY StepCases DEF Becomes, Fails, Accepts
  <1>3. Item' = Item /\ Calls({"commit_structure", "commit_value"})' = Calls({"commit_structure", "commit_value"})
    BY <1>2 DEF Item, Calls, Commits
  <1>4. calling # None /\ failed = FALSE
    BY <1>1 DEF Typed, TypeOK
  <1>5. CASE \E calls : Expands(Head(agenda), calls) /\ Becomes(calls)
    <2>1. agenda' \in Seq(Item)
      BY <1>1, <1>5, AgendaItems DEF Typed
    <2>2. committed' = committed /\ failed' = failed
      BY <1>5 DEF Becomes
    <2> QED
      BY <1>2, <1>3, <1>4, <2>1, <2>2 DEF Typed, TypeOK
  <1>6. CASE Fails
    <2>1. << >> \in Seq(Item)
      BY ItemsOfNone
    <2> QED
      BY <1>2, <1>3, <1>4, <1>6, <2>1 DEF Typed, TypeOK, Fails
  <1>7. CASE Accepts(Head(agenda))
    <2>1. Head(agenda) \in Item /\ Tail(agenda) \in Seq(Item)
      BY <1>1, ItemsOfHead DEF Typed, TypeOK
    <2>2. Head(agenda).direction \in Direction /\ Head(agenda).ranges \in SUBSET Nat
      BY <1>7, <2>1, ItemFacts DEF Accepts
    <2>3. committed' \subseteq Direction \X SUBSET Nat
      BY <1>7, <2>2 DEF Accepts, Typed, TypeOK
    <2> QED
      BY <1>2, <1>3, <1>4, <1>7, <2>1, <2>3 DEF Typed, TypeOK, Accepts
  <1> QED
    BY <1>5, <1>6, <1>7, StepCases

LEMMA TypedReturn ==
    ASSUME Typed, Return
    PROVE  Typed'
PROOF
  <1>1. /\ doc' = doc /\ agenda' = agenda /\ agenda = << >> /\ committed' = committed
        /\ failed' = failed /\ called' = called /\ calling' = None
        /\ completed' \subseteq completed \cup {calling} /\ calling # None
    BY DEF Return
  <1>2. Item' = Item /\ Calls({"commit_structure", "commit_value"})' = Calls({"commit_structure", "commit_value"})
    BY <1>1 DEF Item, Calls, Commits
  <1> QED
    BY <1>1, <1>2 DEF Typed, TypeOK

LEMMA TypedNext == Typed /\ [Next]_vars => Typed'
PROOF
  <1> SUFFICES ASSUME Typed, [Next]_vars PROVE Typed'
    OBVIOUS
  <1>1. CASE UNCHANGED vars
    BY <1>1 DEF vars, Typed, TypeOK, Item, Calls, Commits
  <1>2. CASE Next
    BY <1>2, TypedCall, TypedStep, TypedReturn DEF Next, Step
  <1> QED
    BY <1>1, <1>2

(* Every variable keeps its shape, a failed call leaves nothing on the      *)
(* agenda, and only calls that were made complete.                          *)
THEOREM TypeCorrect == Spec => [](TypeOK)
PROOF
  <1>1. Typed => TypeOK
    BY DEF Typed
  <1> QED
    BY TypedInit, TypedNext, <1>1, PTL DEF Spec

-------------------------------------------------------------------------------
(* Pairs and elements lie inside the value they are elements of. *)
LEMMA ElementReach ==
    ASSUME doc \in Documents, NEW n \in DOMAIN doc, NEW m \in Elems(n), IsContainer(doc, n)
    PROVE  /\ doc[m].span \subseteq doc[n].span
           /\ doc[n].kind = "Object" => doc[m].pair \subseteq doc[n].span
PROOF
  <1>1. m \in Children(doc, n)
    BY ElemsFacts
  <1>2. CASE doc[n].kind = "Object"
    BY <1>1, <1>2, DocumentFacts DEF ElementsInside
  <1>3. CASE doc[n].kind = "Array"
    BY <1>1, <1>3, DocumentFacts DEF ElementsInside
  <1> QED
    BY <1>2, <1>3 DEF IsContainer

(* The calls a call makes reach no further, and go in its direction. *)
Follows(x, c) == Reaches(x) \subseteq Reaches(c) /\ x.direction = c.direction

LEMMA ExpandsReach ==
    ASSUME doc \in Documents, NEW c \in Item, NEW calls, Expands(c, calls)
    PROVE  \A x \in Items(calls) : Follows(x, c)
PROOF
  <1> DEFINE n == c.node
             d == c.direction
  <1>0. /\ d \in Direction
        /\ c.routine \in Routines => n \in DOMAIN doc
        /\ c.routine = "commit_each" => c.ranges \in SUBSET Nat
    BY ItemFacts
  <1>d. ASSUME NEW S, S \subseteq Reaches(c)
        PROVE  Follows(Commit(S, d), c) /\ Follows(CommitEach(S, d), c)
    <2>1. Commit(S, d).direction = d /\ CommitEach(S, d).direction = d
      BY DEF Commit, CommitEach
    <2> QED
      BY <1>d, <2>1, ReachesOfCall, ZenonT(40) DEF Follows
  <1>e. ASSUME NEW m, doc[m].span \subseteq Reaches(c)
        PROVE  /\ Follows(Call("commit_structure", m, d), c)
               /\ Follows(Call("commit_value", m, d), c)
               /\ doc[m].pair \subseteq Reaches(c) =>
                     /\ Follows(Call("pair_structure", m, d), c)
                     /\ Follows(Call("commit_key_value", m, d), c)
    <2>1. \A r : Call(r, m, d).direction = d
      BY DEF Call
    <2> QED
      BY <1>e, <2>1, ReachesOfCall, SMTT(30) DEF Follows
  <1>1. CASE c.routine = "commit_structure"
    <2>1. calls = StructureCalls(n, d) /\ n \in DOMAIN doc /\ Reaches(c) = doc[n].span
      BY <1>0, <1>1 DEF Expands, Reaches, Routines
    <2>2. CASE doc[n].kind = "Object"
      <3>1. Items(calls) = {Commit(WithoutPairs(n), d)}
                              \cup {Call("pair_structure", m, d) : m \in Elems(n)}
        BY <1>0, <2>1, <2>2, StructureItems
      <3>2. WithoutPairs(n) \subseteq doc[n].span
        BY DEF WithoutPairs
      <3>3. \A m \in Elems(n) : doc[m].pair \cup doc[m].span \subseteq doc[n].span
        BY <2>1, <2>2, ElementReach DEF IsContainer
      <3> HIDE DEF n, d
      <3> QED
        BY <1>d, <1>e, <2>1, <3>1, <3>2, <3>3
    <2>3. CASE doc[n].kind = "Array"
      <3>1. Items(calls) = {Commit(WithoutValues(n), d), Commit(Separators(n), d)}
                              \cup {Call("commit_structure", m, d) : m \in Elems(n)}
        BY <1>0, <2>1, <2>3, StructureItems
      <3>2. WithoutValues(n) \subseteq doc[n].span /\ Separators(n) \subseteq doc[n].span
        BY DEF WithoutValues, Separators
      <3>3. \A m \in Elems(n) : doc[m].span \subseteq doc[n].span
        BY <2>1, <2>3, ElementReach DEF IsContainer
      <3> HIDE DEF n, d
      <3> QED
        BY <1>d, <1>e, <2>1, <3>1, <3>2, <3>3
    <2>4. CASE ~ IsContainer(doc, n)
      BY <1>0, <2>1, <2>4, StructureItems
    <2> QED
      BY <2>2, <2>3, <2>4 DEF IsContainer
  <1>2. CASE c.routine = "pair_structure"
    <2>1. /\ calls = PairStructureCalls(n, d) /\ n \in DOMAIN doc
          /\ Reaches(c) = doc[n].pair \cup doc[n].span
      BY <1>0, <1>2 DEF Expands, Reaches, Routines
    <2>2. Items(calls) = {Commit(WithoutValue(n), d), Call("commit_structure", n, d)}
      BY <1>0, <2>1, PairCallsMade
    <2>3. WithoutValue(n) \subseteq doc[n].pair
      BY DEF WithoutValue
    <2> HIDE DEF n, d
    <2> QED
      BY <1>d, <1>e, <2>1, <2>2, <2>3
  <1>3. CASE c.routine = "commit_value"
    <2>1. /\ calls = ValueCalls(n, d) /\ n \in DOMAIN doc /\ Reaches(c) = doc[n].span
          /\ doc[n].kind \in {"Object", "Array", "Primitive", "Redacted"}
      BY <1>0, <1>3, DocumentFacts DEF Expands, Reaches, Routines, Shaped
    <2>2. CASE doc[n].kind = "Object"
      <3>1. Items(calls) = {Commit(WithoutPairs(n), d)}
                              \cup {Call("commit_key_value", m, d) : m \in Elems(n)}
        BY <1>0, <2>1, <2>2, ValueItems
      <3>2. WithoutPairs(n) \subseteq doc[n].span
        BY DEF WithoutPairs
      <3>3. \A m \in Elems(n) : doc[m].pair \cup doc[m].span \subseteq doc[n].span
        BY <2>1, <2>2, ElementReach DEF IsContainer
      <3> HIDE DEF n, d
      <3> QED
        BY <1>d, <1>e, <2>1, <3>1, <3>2, <3>3
    <2>3. CASE doc[n].kind = "Array" /\ doc[n].elems # << >>
      <3>1. Items(calls) = {Commit(doc[n].span, d), Commit(WithoutValues(n), d),
                            CommitEach(Separators(n), d)}
                              \cup {Call("commit_value", m, d) : m \in Elems(n)}
        BY <1>0, <2>1, <2>3, ValueItems
      <3>2. WithoutValues(n) \subseteq doc[n].span /\ Separators(n) \subseteq doc[n].span
        BY DEF WithoutValues, Separators
      <3>3. \A m \in Elems(n) : doc[m].span \subseteq doc[n].span
        BY <2>1, <2>3, ElementReach DEF IsContainer
      <3> HIDE DEF n, d
      <3> QED
        BY <1>d, <1>e, <2>1, <3>1, <3>2, <3>3
    <2>4. CASE doc[n].kind = "Array" /\ doc[n].elems = << >>
      <3>1. Items(calls) = {Commit(doc[n].span, d)}
        BY <1>0, <2>1, <2>4, ValueItems
      <3> HIDE DEF n, d
      <3> QED
        BY <1>d, <1>e, <2>1, <3>1
    <2>5. CASE doc[n].kind \in {"Primitive", "Redacted"}
      <3>1. Items(calls) \subseteq {Commit(doc[n].span, d)}
        BY <1>0, <2>1, <2>5, ValueItems
      <3> HIDE DEF n, d
      <3> QED
        BY <1>d, <1>e, <2>1, <3>1
    <2> QED
      BY <2>1, <2>2, <2>3, <2>4, <2>5
  <1>4. CASE c.routine = "commit_key_value"
    <2>1. /\ calls = KeyValueCalls(n, d) /\ n \in DOMAIN doc
          /\ Reaches(c) = doc[n].pair \cup doc[n].span
      BY <1>0, <1>4 DEF Expands, Reaches, Routines
    <2>2. Items(calls) = {Commit(WithoutValue(n), d), Call("commit_value", n, d)}
      BY <1>0, <2>1, PairCallsMade
    <2>3. WithoutValue(n) \subseteq doc[n].pair
      BY DEF WithoutValue
    <2> HIDE DEF n, d
    <2> QED
      BY <1>d, <1>e, <2>1, <2>2, <2>3
  <1>5. CASE c.routine = "commit_each" /\ c.ranges = {}
    <2>1. calls = << >>
      BY <1>5 DEF Expands
    <2> QED
      BY <2>1, ItemsOfNone
  <1>6. CASE c.routine = "commit_each" /\ c.ranges # {}
    <2>1. /\ calls = <<Commit(FirstRange(c.ranges), d), CommitEach(c.ranges \ FirstRange(c.ranges), d)>>
          /\ Reaches(c) = c.ranges
      BY <1>6 DEF Expands, Reaches
    <2>2. Items(calls) = {Commit(FirstRange(c.ranges), d), CommitEach(c.ranges \ FirstRange(c.ranges), d)}
      BY <1>0, <1>6, <2>1, EachCallsMade
    <2>3. FirstRange(c.ranges) \subseteq c.ranges
      BY <1>0, <1>6, FirstRangeFacts
    <2> HIDE DEF d
    <2> QED
      BY <1>d, <1>e, <2>1, <2>2, <2>3
  <1> QED
    BY <1>1, <1>2, <1>3, <1>4, <1>5, <1>6 DEF Expands

-------------------------------------------------------------------------------
(* A call stays inside the value it is called on. *)
CalledBytes(d) == UNION {doc[c.node].span : c \in {e \in called : e.direction = d}}

AgendaInside == \A c \in Items(agenda) : Reaches(c) \subseteq CalledBytes(c.direction)

InsideInv == Typed /\ AgendaInside /\ StaysInside

LEMMA InsideInit == Init => InsideInv
PROOF
  <1> SUFFICES ASSUME Init PROVE InsideInv
    OBVIOUS
  <1>1. Items(agenda) = {}
    BY ItemsOfNone DEF Init
  <1>2. \A d \in Direction : Committed(d) = {}
    BY DEF Init, Committed
  <1> QED
    BY <1>1, <1>2, TypedInit DEF InsideInv, AgendaInside, StaysInside

LEMMA InsideCall ==
    ASSUME InsideInv, NEW routine \in {"commit_structure", "commit_value"},
           NEW n \in DOMAIN doc, NEW d \in Direction, CallCommitter(routine, n, d)
    PROVE  InsideInv'
PROOF
  <1> DEFINE c == Call(routine, n, d)
  <1>1. Typed'
    BY TypedCall DEF InsideInv
  <1>2. /\ doc' = doc /\ committed' = committed /\ agenda' = <<c>> /\ called' = called \cup {c}
    BY DEF CallCommitter
  <1>3. c.node = n /\ c.direction = d /\ Reaches(c) = doc[n].span
    BY ReachesOfCall DEF Call
  <1>4. Items(<<c>>) = {c}
    BY ItemsOfOne
  <1> HIDE DEF c
  <1>5. \A e \in Direction : CalledBytes(e) \subseteq CalledBytes(e)'
    BY <1>2 DEF CalledBytes
  <1>6. doc[n].span \subseteq CalledBytes(d)'
    BY <1>2, <1>3 DEF CalledBytes
  <1>7. AgendaInside'
    <2>1. Items(agenda)' = {c}
      BY <1>2, <1>4
    <2>2. Reaches(c)' = Reaches(c)
      BY <1>2 DEF Reaches
    <2> QED
      BY <1>3, <1>6, <2>1, <2>2 DEF AgendaInside
  <1>8. StaysInside'
    <2>1. \A e \in Direction : Committed(e)' = Committed(e)
      BY <1>2 DEF Committed
    <2>2. \A e \in Direction : Committed(e) \subseteq CalledBytes(e)
      BY DEF InsideInv, StaysInside, CalledBytes
    <2> QED
      BY <1>5, <2>1, <2>2 DEF StaysInside, CalledBytes
  <1> QED
    BY <1>1, <1>7, <1>8 DEF InsideInv

(* What the builder accepts is added to what is committed in the direction. *)
LEMMA AcceptsCommits ==
    ASSUME NEW c, Accepts(c)
    PROVE  /\ Committed(c.direction)' = Committed(c.direction) \cup c.ranges
           /\ \A d : d # c.direction => Committed(d)' = Committed(d)
PROOF
  <1> DEFINE new == <<c.direction, c.ranges>>
             In(S, d, i) == \E e \in S : e[1] = d /\ i \in e[2]
  <1>1. committed' = committed \cup {new} /\ new[1] = c.direction /\ new[2] = c.ranges
    BY DEF Accepts
  <1>2. \A d, i : i \in Committed(d) <=> In(committed, d, i)
    BY DEF Committed
  <1>3. \A d, i : i \in Committed(d)' <=> In(committed', d, i)
    BY DEF Committed
  <1> HIDE DEF new
  <1>4. \A d, i : In(committed', d, i) <=>
            In(committed, d, i) \/ (d = c.direction /\ i \in c.ranges)
    BY <1>1
  <1> HIDE DEF In
  <1>5. \A i : i \in Committed(c.direction)' <=> i \in Committed(c.direction) \cup c.ranges
    BY <1>2, <1>3, <1>4
  <1>6. \A d, i : d # c.direction => (i \in Committed(d)' <=> i \in Committed(d))
    BY <1>2, <1>3, <1>4
  <1>7. ASSUME NEW d, d # c.direction
        PROVE  Committed(d)' = Committed(d)
    BY <1>6, <1>7
  <1> QED
    BY <1>5, <1>7

LEMMA InsideStep ==
    ASSUME InsideInv, JsonStep, UNCHANGED <<calling, called, completed>>
    PROVE  InsideInv'
PROOF
  <1>1. Typed' /\ Typed
    BY TypedStep DEF InsideInv
  <1>2. agenda # << >> /\ doc' = doc
    BY StepCases DEF Becomes, Fails, Accepts
  <1>3. \A d : CalledBytes(d)' = CalledBytes(d)
    BY <1>2 DEF CalledBytes
  <1>4. \A c : Reaches(c)' = Reaches(c)
    BY <1>2 DEF Reaches
  <1>5. Head(agenda) \in Item /\ Items(agenda) = {Head(agenda)} \cup Items(Tail(agenda))
    BY <1>1, <1>2, ItemsOfHead DEF Typed, TypeOK
  <1>6. Reaches(Head(agenda)) \subseteq CalledBytes(Head(agenda).direction)
    BY <1>5 DEF InsideInv, AgendaInside
  <1>7. CASE \E calls : Expands(Head(agenda), calls) /\ Becomes(calls)
    <2>1. PICK calls : Expands(Head(agenda), calls) /\ Becomes(calls)
      BY <1>7
    <2>2. Items(agenda)' = Items(calls) \cup Items(Tail(agenda))
      BY <1>1, <1>2, <2>1, AgendaItems DEF Typed
    <2>3. \A x \in Items(calls) : Follows(x, Head(agenda))
      BY <1>1, <1>5, <2>1, ExpandsReach DEF Typed
    <2>4. \A x \in Items(calls) : Reaches(x) \subseteq CalledBytes(x.direction)
      BY <1>6, <2>3 DEF Follows
    <2>5. AgendaInside'
      BY <1>3, <1>4, <1>5, <2>2, <2>4 DEF AgendaInside, InsideInv
    <2>6. StaysInside'
      BY <1>2, <2>1 DEF InsideInv, StaysInside, Committed, Becomes
    <2> QED
      BY <1>1, <2>5, <2>6 DEF InsideInv
  <1>8. CASE Fails
    <2>1. Items(agenda)' = {}
      BY <1>8, ItemsOfNone DEF Fails
    <2>2. StaysInside'
      BY <1>8 DEF InsideInv, StaysInside, Committed, Fails
    <2> QED
      BY <1>1, <2>1, <2>2 DEF InsideInv, AgendaInside
  <1>9. CASE Accepts(Head(agenda))
    <2>1. Items(agenda)' = Items(Tail(agenda))
      BY <1>9 DEF Accepts
    <2>2. AgendaInside'
      BY <1>3, <1>4, <1>5, <2>1 DEF InsideInv, AgendaInside
    <2>3. Head(agenda).ranges \subseteq CalledBytes(Head(agenda).direction)
      BY <1>6, <1>9 DEF Accepts, Reaches
    <2>4. \A d \in Direction : Committed(d) \subseteq CalledBytes(d)
      BY DEF InsideInv, StaysInside, CalledBytes
    <2>5. \A d \in Direction : Committed(d)' \subseteq CalledBytes(d)'
      BY <1>3, <1>9, <2>3, <2>4, AcceptsCommits
    <2>6. StaysInside'
      BY <2>5 DEF StaysInside, CalledBytes
    <2> QED
      BY <1>1, <2>2, <2>6 DEF InsideInv
  <1> QED
    BY <1>7, <1>8, <1>9, StepCases

LEMMA InsideNext == InsideInv /\ [Next]_vars => InsideInv'
PROOF
  <1> SUFFICES ASSUME InsideInv, [Next]_vars PROVE InsideInv'
    OBVIOUS
  <1>1. CASE UNCHANGED vars
    <2>1. Typed'
      BY <1>1, TypedNext DEF InsideInv
    <2> QED
      BY <1>1, <2>1 DEF vars, InsideInv, AgendaInside, StaysInside, Committed, CalledBytes, Reaches
  <1>2. CASE Return
    <2>1. Typed'
      BY <1>2, TypedReturn DEF InsideInv
    <2> QED
      BY <1>2, <2>1 DEF Return, InsideInv, AgendaInside, StaysInside, Committed, CalledBytes, Reaches
  <1> QED
    BY <1>1, <1>2, InsideCall, InsideStep DEF Next, Step

(* Nothing outside of the values the caller named is ever committed, on     *)
(* either side, also when calls fail half-way.                              *)
THEOREM CallsStayInside == Spec => []StaysInside
PROOF
  <1>1. InsideInv => StaysInside
    BY DEF InsideInv
  <1> QED
    BY InsideInit, InsideNext, <1>1, PTL DEF Spec

-------------------------------------------------------------------------------
(* The parts that make up the structure hold no byte of a primitive value. *)
LEMMA PartsHide ==
    ASSUME doc \in Documents, NEW n \in DOMAIN doc, NEW l \in Leaves
    PROVE  /\ WithoutValue(n) \cap doc[l].span = {}
           /\ doc[n].kind = "Object" => WithoutPairs(n) \cap doc[l].span = {}
           /\ doc[n].kind = "Array" => WithoutValues(n) \cap doc[l].span = {}
           /\ doc[n].kind = "Array" => Separators(n) \cap doc[l].span = {}
PROOF
  <1>0. l \in DOMAIN doc /\ ~ IsContainer(doc, l)
    BY DEF Leaves
  <1>1. n \in DOMAIN doc /\ doc[n].span \in SUBSET Nat
    BY PartsArePositions
  <1>2. doc[l].span \cap (doc[n].pair \ doc[n].span) = {}
    BY <1>0, DocumentFacts DEF LeavesApart
  <1>3. IsContainer(doc, n) => \/ doc[l].span \cap doc[n].span = {}
                               \/ \E m \in Elems(n) : doc[l].span \subseteq doc[m].span
    BY <1>0, DocumentFacts, ElemsFacts DEF LeavesInElements
  <1>4. \A m \in Elems(n) : ElementInside(n, m)
    BY DocumentFacts, ElemsFacts DEF ElementsInside, ElementInside
  <1> QED
    BY <1>0, <1>1, <1>2, <1>3, <1>4, StructureParts

(* A primitive value lies in a value or apart from it. *)
LEMMA LeafInOrOut ==
    ASSUME doc \in Documents, NEW n \in DOMAIN doc, NEW l \in Leaves
    PROVE  doc[l].span \subseteq doc[n].span \/ doc[l].span \cap doc[n].span = {}
PROOF
  <1>0. l \in DOMAIN doc /\ ~ IsContainer(doc, l)
    BY DEF Leaves
  <1>1. CASE IsContainer(doc, n)
    <2>1. \/ doc[l].span \cap doc[n].span = {}
          \/ \E m \in Elems(n) : doc[l].span \subseteq doc[m].span
      BY <1>0, <1>1, DocumentFacts, ElemsFacts DEF LeavesInElements
    <2>2. \A m \in Elems(n) : doc[m].span \subseteq doc[n].span
      BY <1>1, ElementReach
    <2> QED
      BY <2>1, <2>2
  <1>2. CASE ~ IsContainer(doc, n)
    BY <1>0, <1>2, DocumentFacts DEF LeavesApart
  <1> QED
    BY <1>1, <1>2

-------------------------------------------------------------------------------
(* Structure hides: a call that is not a commit_value around l, nor made by *)
(* one, leaves l alone.                                                     *)
Asked(l, d) ==
    \E c \in called : /\ c.routine = "commit_value" /\ c.direction = d
                      /\ doc[l].span \subseteq doc[c.node].span

Spares(c, l) ==
    \/ c.routine \in {"commit_structure", "pair_structure"}
    \/ Reaches(c) \cap doc[l].span = {}

Spared(l, d) ==
    /\ doc[l].span \cap Committed(d) = {}
    /\ \A c \in Items(agenda) : c.direction = d => Spares(c, l)

HidesInv == Typed /\ \A l \in Leaves, d \in Direction : Asked(l, d) \/ Spared(l, d)

LEMMA HidesMeans == HidesInv => StructureHides
  BY DEF HidesInv, StructureHides, Asked, Spared

(* The calls of a call that spares l spare it, too. *)
LEMMA ExpandsSpares ==
    ASSUME doc \in Documents, NEW c \in Item, NEW calls, Expands(c, calls),
           NEW l \in Leaves, Spares(c, l)
    PROVE  \A x \in Items(calls) : Spares(x, l)
PROOF
  <1> DEFINE n == c.node
             d == c.direction
  <1>0. /\ d \in Direction
        /\ c.routine \in Routines => n \in DOMAIN doc
    BY ItemFacts
  <1>1. CASE Reaches(c) \cap doc[l].span = {}
    BY <1>1, ExpandsReach DEF Follows, Spares
  <1>2. CASE c.routine = "pair_structure"
    <2>1. calls = PairStructureCalls(n, d) /\ n \in DOMAIN doc
      BY <1>0, <1>2 DEF Expands, Routines
    <2>2. Items(calls) = {Commit(WithoutValue(n), d), Call("commit_structure", n, d)}
      BY <1>0, <2>1, PairCallsMade
    <2>3. Spares(Commit(WithoutValue(n), d), l)
      BY <2>1, PartsHide, ReachesOfCall DEF Spares
    <2>4. Spares(Call("commit_structure", n, d), l)
      BY DEF Spares, Call
    <2> QED
      BY <2>2, <2>3, <2>4
  <1>3. CASE c.routine = "commit_structure"
    <2>1. calls = StructureCalls(n, d) /\ n \in DOMAIN doc
      BY <1>0, <1>3 DEF Expands, Routines
    <2>2. \A m : Spares(Call("pair_structure", m, d), l) /\ Spares(Call("commit_structure", m, d), l)
      BY DEF Spares, Call
    <2>3. CASE doc[n].kind = "Object"
      <3>1. Items(calls) = {Commit(WithoutPairs(n), d)}
                              \cup {Call("pair_structure", m, d) : m \in Elems(n)}
        BY <1>0, <2>1, <2>3, StructureItems
      <3>2. Spares(Commit(WithoutPairs(n), d), l)
        BY <2>1, <2>3, PartsHide, ReachesOfCall DEF Spares
      <3> QED
        BY <2>2, <3>1, <3>2
    <2>4. CASE doc[n].kind = "Array"
      <3>1. Items(calls) = {Commit(WithoutValues(n), d), Commit(Separators(n), d)}
                              \cup {Call("commit_structure", m, d) : m \in Elems(n)}
        BY <1>0, <2>1, <2>4, StructureItems
      <3>2. Spares(Commit(WithoutValues(n), d), l)
        BY <2>1, <2>4, PartsHide, ReachesOfCall DEF Spares
      <3>3. Spares(Commit(Separators(n), d), l)
        BY <2>1, <2>4, PartsHide, ReachesOfCall DEF Spares
      <3> QED
        BY <2>2, <3>1, <3>2, <3>3
    <2>5. CASE ~ IsContainer(doc, n)
      BY <1>0, <2>1, <2>5, StructureItems
    <2> QED
      BY <2>3, <2>4, <2>5 DEF IsContainer
  <1> QED
    BY <1>1, <1>2, <1>3 DEF Spares

LEMMA HidesInit == Init => HidesInv
PROOF
  <1> SUFFICES ASSUME Init PROVE HidesInv
    OBVIOUS
  <1>1. Items(agenda) = {}
    BY ItemsOfNone DEF Init
  <1>2. \A d \in Direction : Committed(d) = {}
    BY DEF Init, Committed
  <1> QED
    BY <1>1, <1>2, TypedInit DEF HidesInv, Spared

LEMMA HidesCall ==
    ASSUME HidesInv, NEW routine \in {"commit_structure", "commit_value"},
           NEW n \in DOMAIN doc, NEW e \in Direction, CallCommitter(routine, n, e)
    PROVE  HidesInv'
PROOF
  <1> DEFINE c == Call(routine, n, e)
  <1>1. Typed' /\ doc \in Documents
    BY TypedCall DEF HidesInv, Typed
  <1>2. /\ doc' = doc /\ committed' = committed /\ agenda' = <<c>> /\ called' = called \cup {c}
    BY DEF CallCommitter
  <1>3. /\ c.routine = routine /\ c.node = n /\ c.direction = e /\ Reaches(c) = doc[n].span
    BY ReachesOfCall DEF Call
  <1>4. Items(<<c>>) = {c}
    BY ItemsOfOne
  <1> HIDE DEF c
  <1>5. Items(agenda)' = {c}
    BY <1>2, <1>4
  <1>6. ASSUME NEW l \in Leaves, NEW d \in Direction
        PROVE  Asked(l, d)' \/ Spared(l, d)'
    <2>1. Asked(l, d) => Asked(l, d)'
      BY <1>2 DEF Asked
    <2>2. CASE Spared(l, d)
      <3>1. Committed(d)' = Committed(d)
        BY <1>2 DEF Committed
      <3>2. CASE d # e \/ Spares(c, l)
        <4>1. Spares(c, l)' = Spares(c, l)
          BY <1>2 DEF Spares, Reaches
        <4> QED
          BY <1>2, <1>3, <1>5, <2>2, <3>1, <3>2, <4>1 DEF Spared
      <3>3. CASE d = e /\ ~ Spares(c, l)
        <4>1. routine = "commit_value" /\ doc[n].span \cap doc[l].span # {}
          BY <1>3, <3>3 DEF Spares
        <4>2. doc[l].span \subseteq doc[n].span
          BY <1>1, <4>1, LeafInOrOut
        <4>3. Asked(l, d)'
          BY <1>2, <1>3, <3>3, <4>1, <4>2 DEF Asked
        <4> QED
          BY <4>3
      <3> QED
        BY <3>2, <3>3
    <2> QED
      BY <2>1, <2>2 DEF HidesInv
  <1>7. Leaves' = Leaves
    BY <1>2 DEF Leaves, IsContainer
  <1> QED
    BY <1>1, <1>6, <1>7 DEF HidesInv

LEMMA HidesStep ==
    ASSUME HidesInv, JsonStep, UNCHANGED <<calling, called, completed>>
    PROVE  HidesInv'
PROOF
  <1>1. Typed' /\ Typed /\ doc \in Documents
    BY TypedStep DEF HidesInv, Typed
  <1>2. agenda # << >> /\ doc' = doc
    BY StepCases DEF Becomes, Fails, Accepts
  <1>3. \A l, d : Asked(l, d)' = Asked(l, d)
    BY <1>2 DEF Asked
  <1>4. \A c, l : Spares(c, l)' = Spares(c, l)
    BY <1>2 DEF Spares, Reaches
  <1>5. Head(agenda) \in Item /\ Items(agenda) = {Head(agenda)} \cup Items(Tail(agenda))
    BY <1>1, <1>2, ItemsOfHead DEF Typed, TypeOK
  <1>6. Leaves' = Leaves
    BY <1>2 DEF Leaves, IsContainer
  <1>7. ASSUME NEW l \in Leaves, NEW d \in Direction, Spared(l, d)
        PROVE  Spared(l, d)'
    <2>1. CASE \E calls : Expands(Head(agenda), calls) /\ Becomes(calls)
      <3>1. PICK calls : Expands(Head(agenda), calls) /\ Becomes(calls)
        BY <2>1
      <3>2. Items(agenda)' = Items(calls) \cup Items(Tail(agenda))
        BY <1>1, <1>2, <3>1, AgendaItems DEF Typed
      <3>3. \A x \in Items(calls) : x.direction = Head(agenda).direction
        BY <1>1, <1>5, <3>1, ExpandsReach DEF Follows
      <3>4. Head(agenda).direction = d => Spares(Head(agenda), l)
        BY <1>5, <1>7 DEF Spared
      <3>5. \A x \in Items(calls) : x.direction = d => Spares(x, l)
        BY <1>1, <1>5, <3>1, <3>3, <3>4, ExpandsSpares
      <3>6. Committed(d)' = Committed(d)
        BY <3>1 DEF Becomes, Committed
      <3>7. \A x \in Items(agenda)' : x.direction = d => Spares(x, l)'
        BY <1>4, <1>5, <1>7, <3>2, <3>5 DEF Spared
      <3> QED
        BY <1>2, <1>7, <3>6, <3>7 DEF Spared
    <2>2. CASE Fails
      <3>1. Items(agenda)' = {}
        BY <2>2, ItemsOfNone DEF Fails
      <3>2. Committed(d)' = Committed(d)
        BY <2>2 DEF Fails, Committed
      <3> QED
        BY <1>2, <1>7, <3>1, <3>2 DEF Spared
    <2>3. CASE Accepts(Head(agenda))
      <3>1. Items(agenda)' = Items(Tail(agenda))
        BY <2>3 DEF Accepts
      <3>2. \A x \in Items(agenda)' : x.direction = d => Spares(x, l)'
        BY <1>4, <1>5, <1>7, <3>1 DEF Spared
      <3>3. CASE Head(agenda).direction # d
        <4>1. Committed(d)' = Committed(d)
          BY <2>3, <3>3, AcceptsCommits
        <4> QED
          BY <1>2, <1>7, <3>2, <4>1 DEF Spared
      <3>4. CASE Head(agenda).direction = d
        <4>1. Spares(Head(agenda), l)
          BY <1>5, <1>7, <3>4 DEF Spared
        <4>2. Head(agenda).ranges \cap doc[l].span = {}
          BY <2>3, <4>1 DEF Spares, Accepts, Reaches
        <4>3. Committed(d)' = Committed(d) \cup Head(agenda).ranges
          BY <2>3, <3>4, AcceptsCommits
        <4> QED
          BY <1>2, <1>7, <3>2, <4>2, <4>3 DEF Spared
      <3> QED
        BY <3>3, <3>4
    <2> QED
      BY <2>1, <2>2, <2>3, StepCases
  <1> QED
    BY <1>1, <1>3, <1>6, <1>7 DEF HidesInv

LEMMA HidesNext == HidesInv /\ [Next]_vars => HidesInv'
PROOF
  <1> SUFFICES ASSUME HidesInv, [Next]_vars PROVE HidesInv'
    OBVIOUS
  <1>1. CASE UNCHANGED vars \/ Return
    <2>1. Typed'
      BY <1>1, TypedNext, TypedReturn DEF HidesInv
    <2>2. /\ doc' = doc /\ committed' = committed /\ agenda' = agenda /\ called' = called
      BY <1>1 DEF vars, Return
    <2>3. Leaves' = Leaves
      BY <2>2 DEF Leaves, IsContainer
    <2>4. \A l, d : Asked(l, d)' = Asked(l, d) /\ Spared(l, d)' = Spared(l, d)
      BY <2>2 DEF Asked, Spared, Spares, Reaches, Committed
    <2> QED
      BY <2>1, <2>3, <2>4 DEF HidesInv
  <1> QED
    BY <1>1, HidesCall, HidesStep DEF Next, Step

(* No byte of a primitive value, on either side, gets into any commitment   *)
(* unless commit_value was called on a value around it.                     *)
THEOREM StructureSaysNothing == Spec => []StructureHides
PROOF
  <1> QED
    BY HidesInit, HidesNext, HidesMeans, PTL DEF Spec

-------------------------------------------------------------------------------
(* What a call will make openable. *)
LEMMA PartsHideBytes ==
    ASSUME doc \in Documents, NEW n \in DOMAIN doc, NEW kept \in SUBSET Leaves
    PROVE  /\ WithoutValue(n) \cap BytesOf(kept) = {}
           /\ doc[n].kind = "Object" => WithoutPairs(n) \cap BytesOf(kept) = {}
           /\ doc[n].kind = "Array" => WithoutValues(n) \cap BytesOf(kept) = {}
           /\ doc[n].kind = "Array" => Separators(n) \cap BytesOf(kept) = {}
  BY PartsHide DEF BytesOf

LEMMA SelectionOfDocument ==
    ASSUME doc \in Documents, NEW kept \in SUBSET Leaves
    PROVE  /\ Selective(DOMAIN doc, BytesOf(kept))
           /\ kept = Leaves => LeavesHidden(DOMAIN doc, BytesOf(kept))
PROOF
  <1>1. ASSUME NEW n \in DOMAIN doc, doc[n].kind = "Array", doc[n].elems = << >>
        PROVE  doc[n].span \cap BytesOf(kept) = {}
    <2>1. \A m : m \notin Elems(n)
      BY <1>1 DEF Elems
    <2>2. \A l \in kept : doc[l].span \cap doc[n].span = {}
      BY <1>1, <2>1, DocumentFacts, ElemsFacts DEF LeavesInElements, Leaves, IsContainer
    <2> QED
      BY <2>2 DEF BytesOf
  <1>2. ASSUME NEW n \in DOMAIN doc, doc[n].kind = "Primitive"
        PROVE  doc[n].span \subseteq BytesOf(kept) \/ doc[n].span \cap BytesOf(kept) = {}
    <2>1. CASE n \in kept
      BY <2>1 DEF BytesOf
    <2>2. CASE n \notin kept
      <3>1. \A l \in kept : doc[l].span \cap doc[n].span = {}
        BY <1>2, <2>2, DocumentFacts DEF LeavesApart, Leaves, IsContainer
      <3> QED
        BY <3>1 DEF BytesOf
    <2> QED
      BY <2>1, <2>2
  <1>3. Selective(DOMAIN doc, BytesOf(kept))
    BY <1>1, <1>2, DocumentFacts, PartsHideBytes DEF Selective, Shaped
  <1>4. kept = Leaves => LeavesHidden(DOMAIN doc, BytesOf(kept))
    BY DEF LeavesHidden, Leaves, BytesOf
  <1> QED
    BY <1>3, <1>4

-------------------------------------------------------------------------------
(* The sets of primitive values a call promises to be able to leave out:    *)
(* commit_value any of them, commit_structure only all of them together.    *)
LeftOut(c) == IF c.routine = "commit_value" THEN SUBSET Leaves ELSE {Leaves}

Provided(c, i, H) ==
    \/ i \in Openable(c.direction, H)
    \/ \E x \in Items(agenda) : x.direction = c.direction /\ Carries(DOMAIN doc, x, i, H)

Underway ==
    calling # None /\ ~ failed =>
        \A kept \in LeftOut(calling) : \A i \in doc[calling.node].span \ BytesOf(kept) :
            Provided(calling, i, BytesOf(kept))

Finished ==
    \A c \in completed : \A kept \in LeftOut(c) :
        doc[c.node].span \ BytesOf(kept) \subseteq Openable(c.direction, BytesOf(kept))

OpensInv == Typed /\ Underway /\ Finished

LEMMA LeftOutFacts ==
    ASSUME NEW c
    PROVE  LeftOut(c) \subseteq SUBSET Leaves /\ Leaves \in LeftOut(c)
  BY DEF LeftOut

LEMMA OpensMeans == OpensInv => StructureOpens /\ SelectionOpens
PROOF
  <1> SUFFICES ASSUME OpensInv PROVE StructureOpens /\ SelectionOpens
    OBVIOUS
  <1>1. StructureOpens
    BY LeftOutFacts DEF OpensInv, Finished, StructureOpens
  <1>2. SelectionOpens
    BY DEF OpensInv, Finished, SelectionOpens, LeftOut
  <1> QED
    BY <1>1, <1>2

LEMMA OpensInit == Init => OpensInv
  BY TypedInit DEF Init, OpensInv, Underway, Finished

LEMMA OpensCall ==
    ASSUME OpensInv, NEW routine \in {"commit_structure", "commit_value"},
           NEW n \in DOMAIN doc, NEW d \in Direction, CallCommitter(routine, n, d)
    PROVE  OpensInv'
PROOF
  <1> DEFINE c == Call(routine, n, d)
  <1>1. Typed'
    BY TypedCall DEF OpensInv
  <1>2. /\ doc' = doc /\ committed' = committed /\ completed' = completed
        /\ agenda' = <<c>> /\ calling' = c
    BY DEF CallCommitter
  <1>3. /\ c.routine = routine /\ c.node = n /\ c.direction = d /\ Items(<<c>>) = {c}
    BY ItemsOfOne DEF Call
  <1>4. /\ Leaves' = Leaves /\ \A kept : BytesOf(kept)' = BytesOf(kept)
        /\ \A e : LeftOut(e)' = LeftOut(e)
        /\ \A e, H : Openable(e, H)' = Openable(e, H)
        /\ \A x, i, H : Carries(DOMAIN doc, x, i, H)' = Carries(DOMAIN doc, x, i, H)
    BY <1>2 DEF Leaves, IsContainer, BytesOf, LeftOut, Openable, Carries, Reaches, LeavesHidden
  <1>5. ASSUME NEW kept \in LeftOut(c), NEW i \in doc[n].span
        PROVE  Carries(DOMAIN doc, c, i, BytesOf(kept))
    <2>1. CASE routine = "commit_value"
      BY <2>1, CarriesOfCall
    <2>2. CASE routine = "commit_structure"
      <3>1. kept = Leaves
        BY <1>3, <2>2 DEF LeftOut
      <3>2. LeavesHidden(DOMAIN doc, BytesOf(kept))
        BY <3>1, SelectionOfDocument DEF OpensInv, Typed
      <3> QED
        BY <2>2, <3>2, CarriesOfCall
    <2> QED
      BY <2>1, <2>2
  <1> HIDE DEF c
  <1>6. Items(agenda)' = {c}
    BY <1>2, <1>3
  <1>7. Underway'
    BY <1>2, <1>3, <1>4, <1>5, <1>6 DEF Underway, Provided
  <1>8. Finished'
    BY <1>2, <1>4 DEF OpensInv, Finished
  <1> QED
    BY <1>1, <1>7, <1>8 DEF OpensInv

LEMMA AcceptsOpens ==
    ASSUME NEW c, Accepts(c)
    PROVE  /\ \A d, H : Openable(d, H) \subseteq Openable(d, H)'
           /\ \A H : c.ranges \cap H = {} => c.ranges \subseteq Openable(c.direction, H)'
PROOF
  <1>1. /\ committed' = committed \cup {<<c.direction, c.ranges>>}
        /\ <<c.direction, c.ranges>>[1] = c.direction /\ <<c.direction, c.ranges>>[2] = c.ranges
    BY DEF Accepts
  <1>2. \A d, H : Openable(d, H) \subseteq Openable(d, H)'
    BY <1>1 DEF Openable
  <1>3. ASSUME NEW H, c.ranges \cap H = {}
        PROVE  c.ranges \subseteq Openable(c.direction, H)'
    <2>1. <<c.direction, c.ranges>> \in {e \in committed' : e[1] = c.direction /\ e[2] \cap H = {}}
      BY <1>1, <1>3
    <2> QED
      BY <1>1, <2>1 DEF Openable
  <1> QED
    BY <1>2, <1>3

LEMMA OpensStep ==
    ASSUME OpensInv, JsonStep, UNCHANGED <<calling, called, completed>>
    PROVE  OpensInv'
PROOF
  <1>1. Typed' /\ Typed /\ doc \in Documents
    BY TypedStep DEF OpensInv, Typed
  <1>2. agenda # << >> /\ doc' = doc /\ calling' = calling /\ completed' = completed
    BY StepCases DEF Becomes, Fails, Accepts
  <1>3. calling # None /\ ~ failed
    BY <1>1, <1>2 DEF Typed, TypeOK
  <1>4. /\ Leaves' = Leaves /\ \A kept : BytesOf(kept)' = BytesOf(kept)
        /\ \A e : LeftOut(e)' = LeftOut(e)
        /\ \A x, i, H : Carries(DOMAIN doc, x, i, H)' = Carries(DOMAIN doc, x, i, H)
    BY <1>2 DEF Leaves, IsContainer, BytesOf, LeftOut, Carries, Reaches, LeavesHidden
  <1>5. \A d, H : Openable(d, H) \subseteq Openable(d, H)'
    <2>1. CASE UNCHANGED committed
      BY <2>1 DEF Openable
    <2>2. CASE Accepts(Head(agenda))
      BY <2>2, AcceptsOpens
    <2> QED
      BY <2>1, <2>2, StepCases DEF Becomes, Fails
  <1>6. Finished'
    BY <1>2, <1>4, <1>5 DEF OpensInv, Finished
  <1>7. Head(agenda) \in Item /\ Items(agenda) = {Head(agenda)} \cup Items(Tail(agenda))
    BY <1>1, <1>2, ItemsOfHead DEF Typed, TypeOK
  <1>8. ASSUME NEW kept \in LeftOut(calling), ~ failed',
               NEW i \in doc[calling.node].span \ BytesOf(kept)
        PROVE  Provided(calling, i, BytesOf(kept))'
    <2>a. PICK H : H = BytesOf(kept)
      OBVIOUS
    <2>b. PICK e : e = calling
      OBVIOUS
    <2>0. kept \in SUBSET Leaves /\ i \notin H /\ BytesOf(kept)' = H /\ calling' = e
      BY <1>2, <1>4, <1>8, <2>a, <2>b, LeftOutFacts
    <2>1. Provided(e, i, H)
      BY <1>3, <2>a, <2>b DEF OpensInv, Underway
    <2>2. ASSUME i \in Openable(e.direction, H)
          PROVE  Provided(e, i, H)'
      <3>1. i \in Openable(e.direction, H)'
        BY <1>5, <2>2
      <3> QED
        BY <3>1 DEF Provided
    <2>3. ASSUME NEW x \in Items(agenda), x.direction = e.direction, Carries(DOMAIN doc, x, i, H)
          PROVE  Provided(e, i, H)'
      <3>0. ASSUME NEW y \in Items(agenda)', y.direction = e.direction, Carries(DOMAIN doc, y, i, H)
            PROVE  Provided(e, i, H)'
        BY <1>4, <3>0 DEF Provided
      <3>1. CASE \E calls : Expands(Head(agenda), calls) /\ Becomes(calls)
        <4>1. PICK calls : Expands(Head(agenda), calls) /\ Becomes(calls)
          BY <3>1
        <4>2. Items(agenda)' = Items(calls) \cup Items(Tail(agenda))
          BY <1>1, <1>2, <4>1, AgendaItems DEF Typed
        <4>3. CASE x = Head(agenda)
          <5>1. \E y \in Items(calls) : y.direction = x.direction /\ Carries(DOMAIN doc, y, i, H)
            BY <1>1, <1>7, <2>a, <2>0, <2>3, <4>1, <4>3, SelectionOfDocument, ExpandsCarries
          <5> QED
            BY <2>3, <3>0, <4>2, <5>1
        <4>4. CASE x \in Items(Tail(agenda))
          BY <2>3, <3>0, <4>2, <4>4
        <4> QED
          BY <1>7, <4>3, <4>4
      <3>2. CASE Accepts(Head(agenda))
        <4>1. Items(agenda)' = Items(Tail(agenda))
          BY <3>2 DEF Accepts
        <4>2. CASE x = Head(agenda)
          <5>1. i \in x.ranges /\ x.ranges \cap H = {}
            BY <2>3, <3>2, <4>2 DEF Carries, Reaches, Accepts
          <5>2. x.ranges \subseteq Openable(x.direction, H)'
            BY <3>2, <4>2, <5>1, AcceptsOpens
          <5>3. i \in Openable(e.direction, H)'
            BY <2>3, <5>1, <5>2
          <5> QED
            BY <5>3 DEF Provided
        <4>3. CASE x \in Items(Tail(agenda))
          BY <2>3, <3>0, <4>1, <4>3
        <4> QED
          BY <1>7, <4>2, <4>3
      <3>3. CASE Fails
        BY <1>8, <3>3 DEF Fails
      <3> QED
        BY <3>1, <3>2, <3>3, StepCases
    <2>4. Provided(e, i, H)'
      BY <2>1, <2>2, <2>3 DEF Provided
    <2> QED
      BY <2>0, <2>4
  <1>9. Underway'
    BY <1>2, <1>4, <1>8 DEF Underway
  <1> QED
    BY <1>1, <1>6, <1>9 DEF OpensInv

LEMMA OpensReturn ==
    ASSUME OpensInv, Return
    PROVE  OpensInv'
PROOF
  <1>1. Typed'
    BY TypedReturn DEF OpensInv
  <1>2. /\ doc' = doc /\ committed' = committed /\ calling' = None
        /\ calling # None /\ agenda = << >>
    BY DEF Return
  <1>3. /\ Leaves' = Leaves /\ \A kept : BytesOf(kept)' = BytesOf(kept)
        /\ \A e : LeftOut(e)' = LeftOut(e)
        /\ \A e, H : Openable(e, H)' = Openable(e, H)
    BY <1>2 DEF Leaves, IsContainer, BytesOf, LeftOut, Openable
  <1>4. Items(agenda) = {}
    BY <1>2, ItemsOfNone
  <1>5. ASSUME NEW c \in completed', NEW kept \in LeftOut(c)
        PROVE  doc[c.node].span \ BytesOf(kept) \subseteq Openable(c.direction, BytesOf(kept))
    <2>1. CASE c \in completed
      BY <1>5, <2>1 DEF OpensInv, Finished
    <2>2. CASE c = calling /\ ~ failed
      BY <1>2, <1>4, <1>5, <2>2 DEF OpensInv, Underway, Provided
    <2> QED
      BY <2>1, <2>2 DEF Return
  <1>6. Finished'
    BY <1>2, <1>3, <1>5 DEF Finished
  <1>7. Underway'
    BY <1>2 DEF Underway
  <1> QED
    BY <1>1, <1>6, <1>7 DEF OpensInv

LEMMA OpensNext == OpensInv /\ [Next]_vars => OpensInv'
PROOF
  <1> SUFFICES ASSUME OpensInv, [Next]_vars PROVE OpensInv'
    OBVIOUS
  <1>1. CASE UNCHANGED vars
    <2>1. Typed'
      BY <1>1, TypedNext DEF OpensInv
    <2>2. /\ doc' = doc /\ agenda' = agenda /\ committed' = committed /\ failed' = failed
          /\ calling' = calling /\ completed' = completed
      BY <1>1 DEF vars
    <2>3. /\ Items(agenda)' = Items(agenda)
          /\ \A kept : BytesOf(kept)' = BytesOf(kept)
          /\ \A e : LeftOut(e)' = LeftOut(e)
          /\ \A e, H : Openable(e, H)' = Openable(e, H)
          /\ \A x, i, H : Carries(DOMAIN doc, x, i, H)' = Carries(DOMAIN doc, x, i, H)
      BY <2>2 DEF Leaves, IsContainer, BytesOf, LeftOut, Openable, Carries, Reaches, LeavesHidden
    <2>4. \A e, i, H : Provided(e, i, H)' <=> Provided(e, i, H)
      BY <2>3 DEF Provided
    <2>5. Underway'
      BY <2>2, <2>3, <2>4 DEF OpensInv, Underway
    <2>6. Finished'
      BY <2>2, <2>3 DEF OpensInv, Finished
    <2> QED
      BY <2>1, <2>5, <2>6 DEF OpensInv
  <1> QED
    BY <1>1, OpensCall, OpensStep, OpensReturn DEF Next, Step

(* After either call returned, the structure of the value can be opened     *)
(* without any primitive value in it.                                       *)
THEOREM StructureCanBeOpened == Spec => []StructureOpens
PROOF
  <1>1. OpensInv => StructureOpens
    BY OpensMeans
  <1> QED
    BY OpensInit, OpensNext, <1>1, PTL DEF Spec

(* After commit_value returned, whatever primitive values are to stay       *)
(* hidden, every other byte of the value can be opened.                     *)
THEOREM SelectionCanBeOpened == Spec => []SelectionOpens
PROOF
  <1>1. OpensInv => SelectionOpens
    BY OpensMeans
  <1> QED
    BY OpensInit, OpensNext, <1>1, PTL DEF Spec

-------------------------------------------------------------------------------
(* A call that will come to the primitive value l, and fail if it was       *)
(* redacted.                                                                *)
Pursues(x, l) ==
    /\ x.routine \in {"commit_value", "commit_key_value"}
    /\ doc[l].span \subseteq doc[x.node].span

Holds(c, l) ==
    /\ c.routine = "commit_value" /\ doc[l].kind = "Redacted"
    /\ doc[l].span \subseteq doc[c.node].span

Pursued ==
    calling # None /\ ~ failed =>
        \A l \in Leaves : Holds(calling, l) => \E x \in Items(agenda) : Pursues(x, l)

RedactedInv == Typed /\ Pursued /\ RedactedFails

LEMMA ExpandsPursues ==
    ASSUME doc \in Documents, NEW c \in Item, NEW calls, Expands(c, calls),
           NEW l \in Leaves, doc[l].kind = "Redacted", Pursues(c, l)
    PROVE  \E x \in Items(calls) : Pursues(x, l)
PROOF
  <1> DEFINE n == c.node
             d == c.direction
  <1>0. d \in Direction /\ n \in DOMAIN doc /\ l \in DOMAIN doc
    BY ItemFacts DEF Pursues, Leaves, Routines
  <1>1. doc[l].span # {} /\ doc[l].span \subseteq doc[n].span
    BY <1>0, DocumentFacts DEF Shaped, Pursues
  <1>2. \A m : /\ Pursues(Call("commit_value", m, d), l) <=> doc[l].span \subseteq doc[m].span
               /\ Pursues(Call("commit_key_value", m, d), l) <=> doc[l].span \subseteq doc[m].span
    BY DEF Pursues, Call
  <1>3. CASE c.routine = "commit_key_value"
    <2>1. Items(calls) = {Commit(WithoutValue(n), d), Call("commit_value", n, d)}
      BY <1>0, <1>3, PairCallsMade DEF Expands
    <2> QED
      BY <1>1, <1>2, <2>1
  <1>4. CASE c.routine = "commit_value"
    <2>1. calls = ValueCalls(n, d) /\ doc[n].kind # "Redacted"
      BY <1>4 DEF Expands
    <2>2. CASE IsContainer(doc, n)
      <3>1. PICK m \in Elems(n) : doc[l].span \subseteq doc[m].span
        BY <1>0, <1>1, <2>2, DocumentFacts, ElemsFacts DEF LeavesInElements, Leaves
      <3>2. doc[n].elems # << >>
        BY <3>1 DEF Elems
      <3>3. \/ Call("commit_key_value", m, d) \in Items(calls)
            \/ Call("commit_value", m, d) \in Items(calls)
        BY <1>0, <2>1, <2>2, <3>1, <3>2, ValueItems DEF IsContainer
      <3> QED
        BY <1>2, <3>1, <3>3
    <2>3. CASE ~ IsContainer(doc, n)
      <3>1. doc[n].span \cap doc[l].span = {}
        BY <1>0, <2>1, <2>3, DocumentFacts DEF LeavesApart, Leaves
      <3> QED
        BY <1>1, <3>1
    <2> QED
      BY <2>2, <2>3
  <1> QED
    BY <1>3, <1>4 DEF Pursues

LEMMA RedactedInit == Init => RedactedInv
  BY TypedInit DEF Init, RedactedInv, Pursued, RedactedFails

LEMMA RedactedStep ==
    ASSUME RedactedInv, JsonStep, UNCHANGED <<calling, called, completed>>
    PROVE  RedactedInv'
PROOF
  <1>1. Typed' /\ Typed /\ doc \in Documents
    BY TypedStep DEF RedactedInv, Typed
  <1>2. agenda # << >> /\ doc' = doc /\ calling' = calling /\ completed' = completed
    BY StepCases DEF Becomes, Fails, Accepts
  <1>3. calling # None /\ ~ failed
    BY <1>1, <1>2 DEF Typed, TypeOK
  <1>4. /\ Leaves' = Leaves /\ RedactedFails'
        /\ \A c, l : Holds(c, l)' = Holds(c, l)
        /\ \A x, l : Pursues(x, l)' = Pursues(x, l)
    BY <1>2 DEF RedactedInv, RedactedFails, Leaves, IsContainer, Holds, Pursues
  <1>5. Head(agenda) \in Item /\ Items(agenda) = {Head(agenda)} \cup Items(Tail(agenda))
    BY <1>1, <1>2, ItemsOfHead DEF Typed, TypeOK
  <1>6. ASSUME ~ failed', NEW l \in Leaves, Holds(calling, l)
        PROVE  \E x \in Items(agenda)' : Pursues(x, l)
    <2>1. PICK x \in Items(agenda) : Pursues(x, l)
      BY <1>3, <1>6 DEF RedactedInv, Pursued
    <2>2. CASE \E calls : Expands(Head(agenda), calls) /\ Becomes(calls)
      <3>1. PICK calls : Expands(Head(agenda), calls) /\ Becomes(calls)
        BY <2>2
      <3>2. Items(agenda)' = Items(calls) \cup Items(Tail(agenda))
        BY <1>1, <1>2, <3>1, AgendaItems DEF Typed
      <3>3. CASE x = Head(agenda)
        BY <1>1, <1>5, <1>6, <2>1, <3>1, <3>2, <3>3, ExpandsPursues DEF Holds
      <3>4. CASE x \in Items(Tail(agenda))
        BY <2>1, <3>2, <3>4
      <3> QED
        BY <1>5, <3>3, <3>4
    <2>3. CASE Accepts(Head(agenda))
      <3>1. Items(agenda)' = Items(Tail(agenda)) /\ x # Head(agenda)
        BY <2>1, <2>3 DEF Accepts, Pursues
      <3> QED
        BY <1>5, <2>1, <3>1
    <2>4. CASE Fails
      BY <1>6, <2>4 DEF Fails
    <2> QED
      BY <2>2, <2>3, <2>4, StepCases
  <1>7. Pursued'
    BY <1>2, <1>4, <1>6 DEF Pursued
  <1> QED
    BY <1>1, <1>4, <1>7 DEF RedactedInv

LEMMA RedactedCall ==
    ASSUME RedactedInv, NEW routine \in {"commit_structure", "commit_value"},
           NEW n \in DOMAIN doc, NEW d \in Direction, CallCommitter(routine, n, d)
    PROVE  RedactedInv'
PROOF
  <1> DEFINE c == Call(routine, n, d)
  <1>1. Typed'
    BY TypedCall DEF RedactedInv
  <1>2. doc' = doc /\ completed' = completed /\ agenda' = <<c>> /\ calling' = c
    BY DEF CallCommitter
  <1>3. Items(<<c>>) = {c} /\ \A l : Holds(c, l) => Pursues(c, l)
    BY ItemsOfOne DEF Holds, Pursues
  <1> HIDE DEF c
  <1>4. /\ Leaves' = Leaves /\ RedactedFails' /\ Items(agenda)' = {c}
        /\ \A x, l : Holds(x, l)' = Holds(x, l)
        /\ \A x, l : Pursues(x, l)' = Pursues(x, l)
    BY <1>2, <1>3 DEF RedactedInv, RedactedFails, Leaves, IsContainer, Holds, Pursues
  <1>5. Pursued'
    BY <1>2, <1>3, <1>4 DEF Pursued
  <1> QED
    BY <1>1, <1>4, <1>5 DEF RedactedInv

LEMMA RedactedReturn ==
    ASSUME RedactedInv, Return
    PROVE  RedactedInv'
PROOF
  <1>1. Typed'
    BY TypedReturn DEF RedactedInv
  <1>2. /\ doc' = doc /\ calling' = None /\ calling # None /\ agenda = << >>
        /\ Items(agenda) = {}
    BY ItemsOfNone DEF Return
  <1>3. Leaves' = Leaves
    BY <1>2 DEF Leaves, IsContainer
  <1>4. ASSUME NEW c \in completed', NEW l \in Leaves
        PROVE  ~ Holds(c, l)
    <2>1. CASE c \in completed
      BY <1>4, <2>1 DEF RedactedInv, RedactedFails, Holds
    <2>2. CASE c = calling /\ ~ failed
      BY <1>2, <1>4, <2>2 DEF RedactedInv, Pursued
    <2> QED
      BY <2>1, <2>2 DEF Return
  <1>5. RedactedFails'
    BY <1>2, <1>3, <1>4 DEF RedactedFails, Holds
  <1>6. Pursued'
    BY <1>2 DEF Pursued
  <1> QED
    BY <1>1, <1>5, <1>6 DEF RedactedInv

LEMMA RedactedNext == RedactedInv /\ [Next]_vars => RedactedInv'
PROOF
  <1> SUFFICES ASSUME RedactedInv, [Next]_vars PROVE RedactedInv'
    OBVIOUS
  <1>1. CASE UNCHANGED vars
    <2>1. Typed'
      BY <1>1, TypedNext DEF RedactedInv
    <2>2. /\ doc' = doc /\ agenda' = agenda /\ failed' = failed
          /\ calling' = calling /\ completed' = completed
      BY <1>1 DEF vars
    <2>3. Pursued' /\ RedactedFails'
      BY <2>2 DEF RedactedInv, Pursued, RedactedFails, Holds, Pursues, Leaves, IsContainer, Items
    <2> QED
      BY <2>1, <2>3 DEF RedactedInv
  <1> QED
    BY <1>1, RedactedCall, RedactedStep, RedactedReturn DEF Next, Step

(* commit_value returns Ok on no value that holds a redacted value.         *)
THEOREM NoRedactedValueIsCommitted == Spec => []RedactedFails
PROOF
  <1>1. RedactedInv => RedactedFails
    BY DEF RedactedInv
  <1> QED
    BY RedactedInit, RedactedNext, <1>1, PTL DEF Spec

===============================================================================
