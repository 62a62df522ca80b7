---------------------------- MODULE JsonValues_proofs ----------------------------
(***************************************************************************)
(* Proofs about JsonValues, for values of any size and depth that the       *)
(* parser laid out in order.  A call of offset and a traversal make the     *)
(* same calls, on values, pairs and keys: every one of them is made by one  *)
(* call only, so none is made twice and none is left out.                   *)
(***************************************************************************)
EXTENDS JsonValues, FiniteSetTheorems, FunctionTheorems, SequenceTheorems, WellFoundedInduction, TLAPS

(* The routines of offset and of the visitor. *)
Routine(mode, part) ==
    CASE part = "value" -> IF mode = "Offset" THEN "offset" ELSE "visit_value"
      [] part = "pair" -> IF mode = "Offset" THEN "offset_pair" ELSE "visit_key_value"
      [] part = "key" -> IF mode = "Offset" THEN "offset_key" ELSE "visit_key"

PartCall(mode, part, n) == Call(Routine(mode, part), n)

Paired == {n \in DOMAIN nodes : nodes[n].pair # {}}

CallsOf(mode) ==
    {PartCall(mode, "value", n) : n \in DOMAIN nodes}
    \cup {PartCall(mode, "pair", n) : n \in Paired}
    \cup {PartCall(mode, "key", n) : n \in Paired}

ElemPart(n) == IF nodes[n].type = "Object" THEN "pair" ELSE "value"

(* The calls that call c makes. *)
Makes(mode, c) ==
    CASE c.routine = Routine(mode, "value") -> CallEach(Routine(mode, ElemPart(c.node)), c.node)
      [] c.routine = Routine(mode, "pair") ->
            <<PartCall(mode, "key", c.node), PartCall(mode, "value", c.node)>>
      [] OTHER -> << >>

Root(mode) == PartCall(mode, "value", 1)
Return == Call("return", 1)
InAgenda(todo) == {todo[k] : k \in DOMAIN todo}

(* The calls D were made, and those that they make were made or are still   *)
(* to do; no call is there twice, and none without having been made by      *)
(* another.                                                                 *)
Tidy(mode, D, todo) ==
    /\ D \subseteq CallsOf(mode)
    /\ todo \in Seq(CallsOf(mode) \cup {Return})
    /\ \A i, j \in DOMAIN todo : todo[i] = todo[j] => i = j
    /\ InAgenda(todo) \cap D = {}
    /\ \A c \in D \cup InAgenda(todo) : c \notin {Root(mode), Return} =>
          \E p \in D : \E k \in DOMAIN Makes(mode, p) : Makes(mode, p)[k] = c
    /\ \A p \in D : \A k \in DOMAIN Makes(mode, p) : Makes(mode, p)[k] \in D \cup InAgenda(todo)
    /\ Root(mode) \in D \/ (D = {} /\ todo # << >> /\ todo[1] = Root(mode))

Pending == InAgenda(agenda)
Work(mode, D) == Tidy(mode, D, agenda)

-------------------------------------------------------------------------------
(* A non-empty set of nodes has a first one. *)
LEMMA LeastNode ==
    ASSUME NEW S \in SUBSET Nat, S # {}
    PROVE  \E m \in S : \A k \in S : m <= k
PROOF
  <1> DEFINE R == OpToRel(<, Nat)
  <1>1. \A x, y \in Nat : x < y => <<x, y>> \in R
    BY DEF OpToRel
  <1>2. IsWellFoundedOn(R, Nat)
    BY NatLessThanWellFounded
  <1> HIDE DEF R
  <1>3. PICK m \in S : \A k \in S : ~ (<<k, m>> \in R)
    BY <1>2, WFMin
  <1>4. ASSUME NEW k \in S PROVE m <= k
    <2>1. k \in Nat /\ m \in Nat /\ ~ (k < m)
      BY <1>1, <1>3
    <2> QED
      BY <2>1
  <1> QED
    BY <1>3, <1>4

LEMMA TreeFacts ==
    ASSUME nodes \in Values
    PROVE  \E N \in Nat :
              /\ N >= 1 /\ DOMAIN nodes = 1 .. N
              /\ \A n \in 1 .. N : nodes[n].elems \in Seq(n + 1 .. N)
              /\ \A m \in 2 .. N : \E n \in 1 .. N : \E k \in DOMAIN nodes[n].elems :
                    nodes[n].elems[k] = m
              /\ \A n, l \in 1 .. N : \A i \in DOMAIN nodes[n].elems : \A j \in DOMAIN nodes[l].elems :
                    nodes[n].elems[i] = nodes[l].elems[j] => n = l /\ i = j
PROOF
  <1>1. IsTree(nodes)
    BY ValuesAssumption
  <1>2. PICK T : nodes \in Seq(T) /\ nodes # << >>
    BY <1>1 DEF IsTree
  <1>3. PICK N \in Nat : N = Len(nodes) /\ DOMAIN nodes = 1 .. N /\ N # 0
    BY <1>2, LenProperties, EmptySeq
  <1>4. /\ \A n \in 1 .. N : nodes[n].elems \in Seq(n + 1 .. N)
        /\ \A m \in 2 .. N : \E n \in 1 .. N : \E k \in DOMAIN nodes[n].elems :
              nodes[n].elems[k] = m
    BY <1>1, <1>3 DEF IsTree
  <1>5. \A n, l \in 1 .. N : \A i \in DOMAIN nodes[n].elems : \A j \in DOMAIN nodes[l].elems :
          nodes[n].elems[i] = nodes[l].elems[j] => n = l /\ i = j
    <2>1. \A n, l \in DOMAIN nodes : \A i \in DOMAIN nodes[n].elems : \A j \in DOMAIN nodes[l].elems :
            nodes[n].elems[i] = nodes[l].elems[j] => n = l /\ i = j
      BY <1>1, Zenon DEF IsTree
    <2> QED
      BY <1>3, <2>1
  <1>6. N >= 1
    BY <1>3
  <1> QED
    BY <1>3, <1>4, <1>5, <1>6

(* An element is a node behind the one it is in, and is laid out so. *)
LEMMA ElemFacts ==
    ASSUME nodes \in Values, NEW n \in DOMAIN nodes, NEW k \in DOMAIN nodes[n].elems,
           NEW m, m = nodes[n].elems[k]
    PROVE  /\ n \in Nat /\ m \in Nat /\ n < m /\ 1 <= n /\ m \in DOMAIN nodes
           /\ k \in Nat
           /\ nodes[n].type = "Object" => InPair(nodes[m])
           /\ nodes[n].type # "Object" => Alone(nodes[m])
           /\ Extent(nodes[m]) \subseteq nodes[n].span
           /\ \A l \in DOMAIN nodes[n].elems :
                 k < l => Before(Extent(nodes[m]), Extent(nodes[nodes[n].elems[l]]))
PROOF
  <1>1. LaidOutInOrder(nodes)
    BY ValuesAssumption
  <1>2. PICK N \in Nat : DOMAIN nodes = 1 .. N /\ nodes[n].elems \in Seq(n + 1 .. N)
    BY TreeFacts
  <1>3. PICK elems : elems = nodes[n].elems
    OBVIOUS
  <1>4. m \in n + 1 .. N /\ k \in Nat
    <2>1. PICK S : S = n + 1 .. N
      OBVIOUS
    <2>2. elems \in Seq(S)
      BY <1>2, <1>3, <2>1
    <2>3. DOMAIN elems = 1 .. Len(elems) /\ Len(elems) \in Nat
      BY <2>2, LenProperties
    <2>4. k \in 1 .. Len(elems) /\ m = elems[k]
      BY <1>3, <2>3
    <2>5. elems[k] \in S
      BY <2>2, <2>4, ElementOfSeq
    <2>6. k \in Nat
      BY <2>3, <2>4
    <2> QED
      BY <2>1, <2>4, <2>5, <2>6
  <1>5. n \in 1 .. N
    BY <1>2
  <1> QED
    BY <1>1, <1>2, <1>4, <1>5 DEF LaidOutInOrder

(* A node that is no element of an object has no key. *)
LEMMA PairedOrAlone ==
    ASSUME nodes \in Values, NEW n \in DOMAIN nodes
    PROVE  /\ n \in Paired => n # 1 /\ InPair(nodes[n])
           /\ n \notin Paired => Alone(nodes[n])
           /\ Extent(nodes[n]) \subseteq Nat
PROOF
  <1>1. LaidOutInOrder(nodes)
    BY ValuesAssumption
  <1>2. Extent(nodes[n]) \subseteq Nat /\ Alone(nodes[1])
    BY <1>1 DEF LaidOutInOrder
  <1>3. CASE n = 1
    BY <1>2, <1>3 DEF Paired, Alone
  <1>4. CASE n # 1
    <2>1. PICK N \in Nat : DOMAIN nodes = 1 .. N
            /\ \A m \in 2 .. N : \E l \in 1 .. N : \E k \in DOMAIN nodes[l].elems :
                  nodes[l].elems[k] = m
      BY TreeFacts
    <2>2. n \in 2 .. N
      BY <1>4, <2>1
    <2>3. PICK l \in DOMAIN nodes : \E k \in DOMAIN nodes[l].elems : nodes[l].elems[k] = n
      BY <2>1, <2>2
    <2>4. InPair(nodes[n]) \/ Alone(nodes[n])
      BY <2>3, ElemFacts
    <2> QED
      BY <1>2, <1>4, <2>4 DEF InPair, Alone, Paired
  <1> QED
    BY <1>3, <1>4

(* Everything is inside of the root. *)
LEMMA InsideRoot ==
    ASSUME nodes \in Values, NEW n \in DOMAIN nodes, n # 1
    PROVE  Extent(nodes[n]) \subseteq nodes[1].span
PROOF
  <1> DEFINE S == {m \in DOMAIN nodes : m # 1 /\ ~ (Extent(nodes[m]) \subseteq nodes[1].span)}
  <1> SUFFICES ASSUME S # {} PROVE FALSE
    OBVIOUS
  <1>1. PICK N \in Nat : DOMAIN nodes = 1 .. N
          /\ \A m \in 2 .. N : \E l \in 1 .. N : \E k \in DOMAIN nodes[l].elems :
                nodes[l].elems[k] = m
    BY TreeFacts
  <1>2. S \in SUBSET Nat
    BY <1>1
  <1>3. PICK m \in S : \A l \in S : m <= l
    BY <1>2, LeastNode
  <1>4. m \in 2 .. N
    BY <1>1
  <1>5. PICK l \in DOMAIN nodes : \E k \in DOMAIN nodes[l].elems : nodes[l].elems[k] = m
    BY <1>1, <1>4
  <1>6. l \in Nat /\ l < m /\ Extent(nodes[m]) \subseteq nodes[l].span
    BY <1>5, ElemFacts
  <1>7. l \notin S
    BY <1>2, <1>3, <1>6
  <1>8. l = 1 \/ nodes[l].span \subseteq nodes[1].span
    BY <1>5, <1>7 DEF Extent
  <1> QED
    BY <1>3, <1>6, <1>8

-------------------------------------------------------------------------------
Modes == {"Offset", "Visit"}

LEMMA CallFields ==
    ASSUME NEW mode \in Modes
    PROVE  /\ \A part, n : /\ PartCall(mode, part, n).routine = Routine(mode, part)
                          /\ PartCall(mode, part, n).node = n
           /\ \A p, q \in Parts : \A n, m : PartCall(mode, p, n) = PartCall(mode, q, m) => p = q /\ n = m
           /\ \A p \in Parts : \A n : PartCall(mode, p, n) # Return
           /\ Return.routine = "return"
PROOF
  <1>1. \A r, n : Call(r, n).routine = r /\ Call(r, n).node = n
    BY DEF Call
  <1>2. \A p, q \in Parts : Routine(mode, p) = Routine(mode, q) => p = q
    BY DEF Parts, Routine, Modes
  <1>3. \A p \in Parts : Routine(mode, p) # "return"
    BY DEF Parts, Routine, Modes
  <1> QED
    BY <1>1, <1>2, <1>3 DEF PartCall, Return

(* The calls that are made, one by one. *)
LEMMA MakesOfCall ==
    ASSUME nodes \in Values, NEW mode \in Modes, NEW n \in DOMAIN nodes
    PROVE  /\ Makes(mode, PartCall(mode, "value", n))
                = [k \in DOMAIN nodes[n].elems |-> PartCall(mode, ElemPart(n), nodes[n].elems[k])]
           /\ Makes(mode, PartCall(mode, "pair", n))
                = <<PartCall(mode, "key", n), PartCall(mode, "value", n)>>
           /\ Makes(mode, PartCall(mode, "key", n)) = << >>
PROOF
  <1>1. /\ Routine(mode, "value") # Routine(mode, "pair")
        /\ Routine(mode, "value") # Routine(mode, "key")
        /\ Routine(mode, "pair") # Routine(mode, "key")
    BY DEF Routine, Modes
  <1>2. \A part : PartCall(mode, part, n).routine = Routine(mode, part) /\ PartCall(mode, part, n).node = n
    BY CallFields
  <1>3. Makes(mode, PartCall(mode, "value", n)) = CallEach(Routine(mode, ElemPart(n)), n)
    BY <1>1, <1>2 DEF Makes
  <1>4. Makes(mode, PartCall(mode, "pair", n)) = <<PartCall(mode, "key", n), PartCall(mode, "value", n)>>
    BY <1>1, <1>2 DEF Makes
  <1>5. Makes(mode, PartCall(mode, "key", n)) = << >>
    BY <1>1, <1>2 DEF Makes
  <1> QED
    BY <1>3, <1>4, <1>5 DEF CallEach, PartCall

LEMMA MadeShape ==
    ASSUME nodes \in Values, NEW mode \in Modes, NEW c \in CallsOf(mode),
           NEW made, made = Makes(mode, c)
    PROVE  /\ \E T : made \in Seq(T)
           /\ \A k \in DOMAIN made :
                 \/ \E n \in DOMAIN nodes :
                       /\ c = PartCall(mode, "value", n) /\ k \in DOMAIN nodes[n].elems
                       /\ made[k] = PartCall(mode, ElemPart(n), nodes[n].elems[k])
                 \/ \E n \in Paired :
                       /\ c = PartCall(mode, "pair", n) /\ k \in {1, 2}
                       /\ made[k] = PartCall(mode, IF k = 1 THEN "key" ELSE "value", n)
PROOF
  <1>1. CASE \E n \in DOMAIN nodes : c = PartCall(mode, "value", n)
    <2>1. PICK n \in DOMAIN nodes : c = PartCall(mode, "value", n)
      BY <1>1
    <2>2. PICK elems : elems = nodes[n].elems
      OBVIOUS
    <2>3. made = [k \in DOMAIN elems |-> PartCall(mode, ElemPart(n), elems[k])]
      BY <2>1, <2>2, MakesOfCall
    <2>4. PICK N \in Nat : N = Len(elems) /\ DOMAIN elems = 1 .. N
      <3>1. PICK B \in Nat : DOMAIN nodes = 1 .. B /\ \A l \in 1 .. B : nodes[l].elems \in Seq(l + 1 .. B)
        BY TreeFacts
      <3>2. elems \in Seq(n + 1 .. B)
        BY <2>1, <2>2, <3>1
      <3> QED
        BY <3>2, LenProperties
    <2>5. \E T : made \in Seq(T)
      <3>1. PICK T : T = {PartCall(mode, ElemPart(n), elems[k]) : k \in 1 .. N}
        OBVIOUS
      <3>2. made \in [1 .. N -> T]
        BY <2>3, <2>4, <3>1
      <3> QED
        BY <2>4, <3>2, SeqDef
    <2> QED
      BY <2>1, <2>2, <2>3, <2>5
  <1>2. CASE \E n \in Paired : c = PartCall(mode, "pair", n)
    <2>1. PICK n \in Paired : c = PartCall(mode, "pair", n) /\ n \in DOMAIN nodes
      BY <1>2 DEF Paired
    <2>2. PICK a, b : a = PartCall(mode, "key", n) /\ b = PartCall(mode, "value", n)
      OBVIOUS
    <2>3. made = <<a, b>>
      BY <2>1, <2>2, MakesOfCall
    <2>4. made \in Seq({a, b}) /\ DOMAIN made = {1, 2} /\ made[1] = a /\ made[2] = b
      BY <2>3
    <2> QED
      BY <2>1, <2>2, <2>4
  <1>3. CASE \E n \in Paired : c = PartCall(mode, "key", n)
    <2>1. made = << >>
      BY <1>3, MakesOfCall DEF Paired
    <2>2. made \in Seq({}) /\ DOMAIN made = {}
      BY <2>1
    <2> QED
      BY <2>2
  <1> QED
    BY <1>1, <1>2, <1>3 DEF CallsOf

LEMMA MadeCalls ==
    ASSUME nodes \in Values, NEW mode \in Modes, NEW c \in CallsOf(mode),
           NEW made, made = Makes(mode, c)
    PROVE  /\ made \in Seq(CallsOf(mode))
           /\ \A k \in DOMAIN made : made[k] \notin {Root(mode), Return}
PROOF
  <1>1. ASSUME NEW k \in DOMAIN made
        PROVE  made[k] \in CallsOf(mode) /\ made[k] \notin {Root(mode), Return}
    <2>1. ASSUME NEW n \in DOMAIN nodes, k \in DOMAIN nodes[n].elems,
                 made[k] = PartCall(mode, ElemPart(n), nodes[n].elems[k])
          PROVE  made[k] \in CallsOf(mode) /\ made[k] \notin {Root(mode), Return}
      <3>1. PICK m : m = nodes[n].elems[k]
        OBVIOUS
      <3>2. m \in DOMAIN nodes /\ m # 1 /\ (nodes[n].type = "Object" => InPair(nodes[m]))
        BY <2>1, <3>1, ElemFacts
      <3>3. ElemPart(n) \in Parts /\ "value" \in Parts
        BY DEF ElemPart, Parts
      <3>4. made[k] \notin {Root(mode), Return}
        BY <2>1, <3>1, <3>2, <3>3, CallFields DEF Root
      <3>5. made[k] \in CallsOf(mode)
        <4>1. CASE nodes[n].type = "Object"
          BY <2>1, <3>1, <3>2, <4>1 DEF CallsOf, ElemPart, Paired, InPair
        <4>2. CASE nodes[n].type # "Object"
          BY <2>1, <3>1, <3>2, <4>2 DEF CallsOf, ElemPart
        <4> QED
          BY <4>1, <4>2
      <3> QED
        BY <3>4, <3>5
    <2>2. ASSUME NEW n \in Paired, made[k] = PartCall(mode, IF k = 1 THEN "key" ELSE "value", n)
          PROVE  made[k] \in CallsOf(mode) /\ made[k] \notin {Root(mode), Return}
      <3>1. n \in DOMAIN nodes /\ n # 1
        BY PairedOrAlone DEF Paired
      <3>2. {"key", "value"} \subseteq Parts
        BY DEF Parts
      <3>3. made[k] \notin {Root(mode), Return}
        BY <2>2, <3>1, <3>2, CallFields DEF Root
      <3>4. made[k] \in CallsOf(mode)
        BY <2>2, <3>1 DEF CallsOf
      <3> QED
        BY <3>3, <3>4
    <2> QED
      BY <2>1, <2>2, MadeShape
  <1>2. PICK T : made \in Seq(T)
    BY MadeShape
  <1>3. made \in Seq(CallsOf(mode))
    <2>1. PICK N \in Nat : N = Len(made) /\ DOMAIN made = 1 .. N /\ made \in [1 .. N -> T]
      BY <1>2, LenProperties, SeqDef
    <2>2. made \in [1 .. N -> CallsOf(mode)]
      BY <1>1, <2>1
    <2> QED
      BY <2>2, SeqDef
  <1> QED
    BY <1>1, <1>3

(* Every call is made by one call only, and once. *)
LEMMA MadeOnce ==
    ASSUME nodes \in Values, NEW mode \in Modes,
           NEW c \in CallsOf(mode), NEW d \in CallsOf(mode),
           NEW k \in DOMAIN Makes(mode, c), NEW l \in DOMAIN Makes(mode, d),
           Makes(mode, c)[k] = Makes(mode, d)[l]
    PROVE  c = d /\ k = l
PROOF
  <1>1. {"value", "pair", "key"} \subseteq Parts /\ \A n : ElemPart(n) \in {"value", "pair"}
    BY DEF Parts, ElemPart
  <1>2. ASSUME NEW n \in DOMAIN nodes, NEW i \in DOMAIN nodes[n].elems, NEW m \in Paired,
               PartCall(mode, ElemPart(n), nodes[n].elems[i]) = PartCall(mode, "value", m)
        PROVE  FALSE
    <2>1. ElemPart(n) = "value" /\ nodes[n].elems[i] = m
      BY <1>1, <1>2, CallFields
    <2>2. nodes[n].type # "Object"
      BY <2>1 DEF ElemPart
    <2>3. Alone(nodes[m])
      BY <2>1, <2>2, ElemFacts
    <2> QED
      BY <2>3 DEF Alone, Paired
  <1>3. ASSUME NEW n \in DOMAIN nodes, NEW i \in DOMAIN nodes[n].elems, NEW m \in Paired, NEW j \in {1, 2},
               PartCall(mode, ElemPart(n), nodes[n].elems[i])
                 = PartCall(mode, IF j = 1 THEN "key" ELSE "value", m)
        PROVE  FALSE
    <2>1. CASE j = 1
      <3>1. ElemPart(n) = "key"
        BY <1>1, <1>3, <2>1, CallFields
      <3> QED
        BY <1>1, <3>1
    <2>2. CASE j = 2
      BY <1>2, <1>3, <2>2
    <2> QED
      BY <2>1, <2>2
  <1>4. ASSUME NEW n \in DOMAIN nodes, c = PartCall(mode, "value", n), k \in DOMAIN nodes[n].elems,
               Makes(mode, c)[k] = PartCall(mode, ElemPart(n), nodes[n].elems[k])
        PROVE  c = d /\ k = l
    <2>1. ASSUME NEW m \in DOMAIN nodes, d = PartCall(mode, "value", m), l \in DOMAIN nodes[m].elems,
                 Makes(mode, d)[l] = PartCall(mode, ElemPart(m), nodes[m].elems[l])
          PROVE  c = d /\ k = l
      <3>1. nodes[n].elems[k] = nodes[m].elems[l]
        BY <1>1, <1>4, <2>1, CallFields
      <3>2. n = m /\ k = l
        <4>1. PICK N \in Nat : DOMAIN nodes = 1 .. N
                /\ \A a, b \in 1 .. N : \A i \in DOMAIN nodes[a].elems : \A j \in DOMAIN nodes[b].elems :
                      nodes[a].elems[i] = nodes[b].elems[j] => a = b /\ i = j
          BY TreeFacts
        <4> QED
          BY <1>4, <2>1, <3>1, <4>1
      <3> QED
        BY <1>4, <2>1, <3>2
    <2> QED
      BY <1>3, <1>4, <2>1, MadeShape
  <1>5. ASSUME NEW n \in Paired, c = PartCall(mode, "pair", n), k \in {1, 2},
               Makes(mode, c)[k] = PartCall(mode, IF k = 1 THEN "key" ELSE "value", n)
        PROVE  c = d /\ k = l
    <2>1. ASSUME NEW m \in DOMAIN nodes, d = PartCall(mode, "value", m), l \in DOMAIN nodes[m].elems,
                 Makes(mode, d)[l] = PartCall(mode, ElemPart(m), nodes[m].elems[l])
          PROVE  FALSE
      BY <1>3, <1>5, <2>1
    <2>2. ASSUME NEW m \in Paired, d = PartCall(mode, "pair", m), l \in {1, 2},
                 Makes(mode, d)[l] = PartCall(mode, IF l = 1 THEN "key" ELSE "value", m)
          PROVE  c = d /\ k = l
      <3>1. n = m /\ (IF k = 1 THEN "key" ELSE "value") = (IF l = 1 THEN "key" ELSE "value")
        BY <1>1, <1>5, <2>2, CallFields
      <3>2. k = l
        BY <1>5, <2>2, <3>1
      <3> QED
        BY <1>5, <2>2, <3>1, <3>2
    <2> QED
      BY <2>1, <2>2, MadeShape
  <1> QED
    BY <1>4, <1>5, MadeShape

-------------------------------------------------------------------------------
(* The head of todo, which has N elements, was replaced by the L of made. *)
Replaced(todo, made, next, L, N) ==
    /\ N >= 1 /\ DOMAIN todo = 1 .. N /\ DOMAIN made = 1 .. L
    /\ Len(todo) = N /\ Len(next) = L + N - 1 /\ DOMAIN next = 1 .. L + N - 1
    /\ Head(todo) = todo[1]
    /\ \A i \in 1 .. L : next[i] = made[i]
    /\ \A i \in L + 1 .. L + N - 1 : i - L + 1 \in 2 .. N /\ next[i] = todo[i - L + 1]
    /\ \A q \in 2 .. N : q + L - 1 \in L + 1 .. L + N - 1 /\ next[q + L - 1] = todo[q]

LEMMA HeadReplaced ==
    ASSUME NEW X, NEW todo \in Seq(X), todo # << >>, NEW made \in Seq(X),
           NEW next, next = made \o Tail(todo)
    PROVE  next \in Seq(X) /\ \E L, N \in Nat : Replaced(todo, made, next, L, N)
PROOF
  <1>1. PICK L \in Nat : L = Len(made) /\ DOMAIN made = 1 .. L
    BY LenProperties
  <1>2. PICK N \in Nat : N = Len(todo) /\ DOMAIN todo = 1 .. N /\ N >= 1
    BY LenProperties, EmptySeq
  <1>3. PICK rest : rest = Tail(todo)
    OBVIOUS
  <1>4. rest \in Seq(X) /\ Len(rest) = N - 1 /\ \A i \in 1 .. N - 1 : rest[i] = todo[i + 1]
    BY <1>2, <1>3, HeadTailProperties
  <1>5. /\ next \in Seq(X) /\ Len(next) = L + (N - 1)
        /\ \A i \in 1 .. L + (N - 1) : next[i] = IF i <= L THEN made[i] ELSE rest[i - L]
    <2>1. PICK R : R = Len(rest) /\ R = N - 1
      BY <1>4
    <2>2. /\ next \in Seq(X) /\ Len(next) = L + R
          /\ \A i \in 1 .. L + R : next[i] = IF i <= L THEN made[i] ELSE rest[i - L]
      <3>1. next = made \o rest
        BY <1>3
      <3>2. rest \in Seq(X)
        BY <1>4
      <3>3. /\ next \in Seq(X) /\ Len(next) = Len(made) + Len(rest)
            /\ \A i \in 1 .. Len(made) + Len(rest) :
                  next[i] = IF i <= Len(made) THEN made[i] ELSE rest[i - Len(made)]
        BY <3>1, <3>2, ConcatProperties
      <3> QED
        BY <1>1, <2>1, <3>3
    <2> QED
      BY <2>1, <2>2
  <1>6. DOMAIN next = 1 .. L + N - 1
    BY <1>2, <1>5, LenProperties
  <1>7. Head(todo) = todo[1]
    BY <1>2
  <1>8. ASSUME NEW i \in 1 .. L PROVE next[i] = made[i]
    BY <1>2, <1>5, <1>8
  <1>9. ASSUME NEW i \in L + 1 .. L + N - 1
        PROVE  i - L + 1 \in 2 .. N /\ next[i] = todo[i - L + 1]
    <2>1. PICK j, q : j = i - L /\ j \in 1 .. N - 1 /\ q = j + 1 /\ q = i - L + 1 /\ q \in 2 .. N
      BY <1>2
    <2>2. next[i] = rest[j]
      BY <1>2, <1>5, <1>9, <2>1
    <2>3. rest[j] = todo[q]
      BY <1>4, <2>1
    <2> QED
      BY <1>2, <2>1, <2>2, <2>3
  <1>10. ASSUME NEW q \in 2 .. N
         PROVE  q + L - 1 \in L + 1 .. L + N - 1 /\ next[q + L - 1] = todo[q]
    <2>1. PICK i : i = q + L - 1 /\ i \in L + 1 .. L + N - 1 /\ i - L + 1 = q
      BY <1>2
    <2> QED
      BY <1>9, <2>1
  <1> QED
    BY <1>1, <1>2, <1>5, <1>6, <1>7, <1>8, <1>9, <1>10 DEF Replaced

(* The next call is none of those that were made, and what it makes is new. *)
LEMMA MadeIsNew ==
    ASSUME nodes \in Values, NEW mode \in Modes, NEW D, Work(mode, D),
           NEW c \in Pending, c \in CallsOf(mode),
           NEW k \in DOMAIN Makes(mode, c), NEW d, d = Makes(mode, c)[k]
    PROVE  d \notin D \cup Pending
PROOF
  <1>1. c \notin D /\ D \subseteq CallsOf(mode)
    BY DEF Work, Tidy, Pending
  <1>2. d \notin {Root(mode), Return}
    BY MadeCalls
  <1>3. ASSUME d \in D \cup Pending PROVE FALSE
    <2>1. PICK p \in D : \E l \in DOMAIN Makes(mode, p) : Makes(mode, p)[l] = d
      BY <1>2, <1>3 DEF Work, Tidy, Pending
    <2>2. p = c
      BY <1>1, <2>1, MadeOnce
    <2> QED
      BY <1>1, <2>1, <2>2
  <1> QED
    BY <1>3

LEMMA WorkLater ==
    ASSUME nodes' = nodes, NEW mode, NEW D, NEW todo, agenda' = todo, Tidy(mode, D, todo)
    PROVE  Work(mode, D)'
PROOF
  <1>1. CallsOf(mode)' = CallsOf(mode)
    BY DEF CallsOf, Paired
  <1>2. \A p : Makes(mode, p)' = Makes(mode, p)
    BY DEF Makes, CallEach, ElemPart
  <1> QED
    BY <1>1, <1>2 DEF Work, Tidy, InAgenda, Root, Return

LEMMA WorkStep ==
    ASSUME nodes \in Values, nodes' = nodes, NEW mode \in Modes, NEW D, Work(mode, D),
           agenda # << >>, NEW c \in CallsOf(mode), c = Head(agenda),
           agenda' = Makes(mode, c) \o Tail(agenda)
    PROVE  Work(mode, D \cup {c})'
PROOF
  <1> DEFINE X == CallsOf(mode) \cup {Return}
  <1>1. PICK made : made = Makes(mode, c)
    OBVIOUS
  <1>2. PICK next : next = agenda'
    OBVIOUS
  <1>3. /\ made \in Seq(CallsOf(mode)) /\ made \in Seq(X)
        /\ \A k \in DOMAIN made : made[k] \notin {Root(mode), Return}
    BY <1>1, MadeCalls
  <1>4. agenda \in Seq(X)
    BY DEF Work, Tidy, Pending
  <1>5. PICK L, N \in Nat :
              /\ next \in Seq(X)
              /\ N >= 1 /\ DOMAIN agenda = 1 .. N /\ DOMAIN made = 1 .. L
              /\ DOMAIN next = 1 .. L + N - 1 /\ Head(agenda) = agenda[1]
              /\ \A i \in 1 .. L : next[i] = made[i]
              /\ \A i \in L + 1 .. L + N - 1 : i - L + 1 \in 2 .. N /\ next[i] = agenda[i - L + 1]
              /\ \A q \in 2 .. N : q + L - 1 \in L + 1 .. L + N - 1 /\ next[q + L - 1] = agenda[q]
    <2>1. next \in Seq(X) /\ \E L, N \in Nat : Replaced(agenda, made, next, L, N)
      <3>1. next = made \o Tail(agenda)
        BY <1>1, <1>2
      <3> HIDE DEF X
      <3> QED
        BY <1>3, <1>4, <3>1, HeadReplaced
    <2> QED
      BY <2>1 DEF Replaced
  <1>6. /\ \A q \in 1 .. N : agenda[q] \in Pending
        /\ c = agenda[1] /\ c \in Pending
    <2>1. \A q \in DOMAIN agenda : agenda[q] \in Pending
      BY DEF Pending, InAgenda
    <2>2. 1 \in 1 .. N
      BY <1>5
    <2> QED
      BY <1>5, <2>1, <2>2
  <1>7. \A k \in DOMAIN made : made[k] \notin D \cup Pending
    BY <1>1, <1>6, MadeIsNew
  <1>8. \A i, j \in DOMAIN agenda : agenda[i] = agenda[j] => i = j
    BY DEF Work, Tidy, Pending
  <1>9. c \notin D /\ D \subseteq CallsOf(mode)
    BY <1>6 DEF Work, Tidy, Pending
  <1>10. PICK pending : pending = {next[i] : i \in DOMAIN next}
    OBVIOUS
  <1>11. /\ \A i \in DOMAIN made : made[i] \in pending
         /\ \A d \in Pending : d = c \/ d \in pending
    <2>1. ASSUME NEW i \in DOMAIN made PROVE made[i] \in pending
      <3>1. i \in DOMAIN next /\ next[i] = made[i]
        BY <1>5, <2>1
      <3> QED
        BY <1>10, <3>1
    <2>2. ASSUME NEW q \in 1 .. N PROVE agenda[q] = c \/ agenda[q] \in pending
      <3>1. q = 1 \/ q \in 2 .. N
        BY <1>5
      <3>2. CASE q \in 2 .. N
        <4>1. PICK i : i = q + L - 1 /\ i \in DOMAIN next /\ next[i] = agenda[q]
          BY <1>5, <3>2
        <4> QED
          BY <1>10, <4>1
      <3> QED
        BY <1>6, <3>1, <3>2
    <2> QED
      BY <1>5, <2>1, <2>2 DEF Pending, InAgenda
  <1>12. \A i \in DOMAIN next :
            \/ i \in 1 .. L /\ next[i] = made[i]
            \/ i \in L + 1 .. L + N - 1 /\ i - L + 1 \in 2 .. N /\ next[i] = agenda[i - L + 1]
    <2>1. \A i \in 1 .. L + N - 1 : i \in 1 .. L \/ i \in L + 1 .. L + N - 1
      BY <1>5
    <2> QED
      BY <1>5, <2>1
  <1>13. \A d \in pending : (\E k \in DOMAIN made : d = made[k]) \/ (d \in Pending /\ d # c)
    <2>1. ASSUME NEW q \in 2 .. N PROVE agenda[q] \in Pending /\ agenda[q] # c
      <3>1. q \in 1 .. N /\ 1 \in 1 .. N /\ q # 1
        BY <1>5
      <3> QED
        BY <1>5, <1>6, <1>8, <3>1
    <2> QED
      BY <1>5, <1>10, <1>12, <2>1
  <1>14. \A i, j \in DOMAIN next : next[i] = next[j] => i = j
    <2>1. ASSUME NEW i \in 1 .. L, NEW j \in 1 .. L, made[i] = made[j] PROVE i = j
      BY <1>1, <1>5, <2>1, MadeOnce
    <2>2. ASSUME NEW i \in 1 .. L, NEW q \in 2 .. N, made[i] = agenda[q] PROVE FALSE
      <3>1. q \in 1 .. N
        BY <1>5
      <3> QED
        BY <1>5, <1>6, <1>7, <2>2, <3>1
    <2>3. ASSUME NEW i \in L + 1 .. L + N - 1, NEW j \in L + 1 .. L + N - 1,
                 agenda[i - L + 1] = agenda[j - L + 1]
          PROVE  i = j
      <3>1. PICK q \in 2 .. N : q = i - L + 1
        BY <1>5, <2>3
      <3>2. PICK r \in 2 .. N : r = j - L + 1
        BY <1>5, <2>3
      <3>3. q \in DOMAIN agenda /\ r \in DOMAIN agenda /\ agenda[q] = agenda[r]
        BY <1>5, <2>3, <3>1, <3>2
      <3>4. q = r
        BY <1>8, <3>3
      <3> QED
        BY <1>5, <3>1, <3>2, <3>4
    <2>4. ASSUME NEW i \in DOMAIN next, NEW j \in DOMAIN next, next[i] = next[j] PROVE i = j
      <3>1. CASE i \in 1 .. L /\ next[i] = made[i]
        BY <1>12, <2>1, <2>2, <2>4, <3>1
      <3>2. CASE i \in L + 1 .. L + N - 1 /\ i - L + 1 \in 2 .. N /\ next[i] = agenda[i - L + 1]
        <4>1. CASE j \in 1 .. L /\ next[j] = made[j]
          BY <2>2, <2>4, <3>2, <4>1
        <4>2. CASE j \in L + 1 .. L + N - 1 /\ next[j] = agenda[j - L + 1]
          BY <2>3, <2>4, <3>2, <4>2
        <4> QED
          BY <1>12, <4>1, <4>2
      <3> QED
        BY <1>12, <3>1, <3>2
    <2> QED
      BY <2>4
  <1>15. pending \cap (D \cup {c}) = {}
    <2>1. \A d \in Pending : d \notin D
      BY DEF Work, Tidy, Pending
    <2> QED
      BY <1>6, <1>7, <1>13, <2>1
  <1>16. ASSUME NEW d \in (D \cup {c}) \cup pending, d \notin {Root(mode), Return}
         PROVE  \E p \in D \cup {c} : \E k \in DOMAIN Makes(mode, p) : Makes(mode, p)[k] = d
    <2>1. CASE d \in D \cup Pending
      BY <1>16, <2>1 DEF Work, Tidy, Pending
    <2>2. CASE \E k \in DOMAIN made : d = made[k]
      BY <1>1, <2>2
    <2> QED
      BY <1>6, <1>13, <1>16, <2>1, <2>2
  <1>17. ASSUME NEW p \in D \cup {c}, NEW k \in DOMAIN Makes(mode, p)
         PROVE  Makes(mode, p)[k] \in (D \cup {c}) \cup pending
    <2>1. CASE p \in D
      <3>1. Makes(mode, p)[k] \in D \cup Pending
        BY <2>1 DEF Work, Tidy, Pending
      <3> QED
        BY <1>11, <3>1
    <2>2. CASE p = c
      BY <1>1, <1>11, <2>2
    <2> QED
      BY <2>1, <2>2
  <1>18. Root(mode) \in D \cup {c}
    BY <1>6 DEF Work, Tidy, Pending
  <1>19. D \cup {c} \subseteq CallsOf(mode)
    BY <1>9
  <1>20. next \in Seq(CallsOf(mode) \cup {Return})
    BY <1>5
  <1>21. PICK done : done = D \cup {c}
    OBVIOUS
  <1>22. Tidy(mode, done, next)
    <2>1. pending = InAgenda(next)
      BY <1>10 DEF InAgenda
    <2> QED
      BY <1>14, <1>15, <1>16, <1>17, <1>18, <1>19, <1>20, <1>21, <2>1 DEF Tidy
  <1>23. Work(mode, done)'
    BY <1>2, <1>22, WorkLater
  <1> QED
    BY <1>21, <1>23

(* A call with nothing made yet. *)
LEMMA WorkBegins ==
    ASSUME nodes \in Values, nodes' = nodes, NEW mode \in Modes,
           agenda' \in {<<Root(mode)>>, <<Root(mode), Return>>}
    PROVE  Work(mode, {})'
PROOF
  <1>1. PICK todo : todo = agenda'
    OBVIOUS
  <1>2. PICK root, return : root = Root(mode) /\ return = Return
    OBVIOUS
  <1>3. root # return
    <2>1. "value" \in Parts
      BY DEF Parts
    <2> QED
      BY <1>2, <2>1, CallFields DEF Root
  <1>4. root \in CallsOf(mode)
    <2>1. 1 \in DOMAIN nodes
      BY TreeFacts
    <2> QED
      BY <1>2, <2>1 DEF CallsOf, Root
  <1>5. todo = <<root>> \/ todo = <<root, return>>
    BY <1>1, <1>2
  <1>6. /\ todo \in Seq(CallsOf(mode) \cup {return})
        /\ todo # << >> /\ todo[1] = root
        /\ \A k \in DOMAIN todo : todo[k] \in {root, return}
        /\ \A i, j \in DOMAIN todo : todo[i] = todo[j] => i = j
    <2>1. CASE todo = <<root>>
      <3>1. DOMAIN todo = {1} /\ todo[1] = root /\ todo # << >>
        BY <2>1
      <3>2. todo \in Seq(CallsOf(mode) \cup {return})
        BY <1>4, <2>1
      <3> QED
        BY <3>1, <3>2
    <2>2. CASE todo = <<root, return>>
      <3>1. DOMAIN todo = {1, 2} /\ todo[1] = root /\ todo[2] = return /\ todo # << >>
        BY <2>2
      <3>2. todo \in Seq(CallsOf(mode) \cup {return})
        BY <1>4, <2>2
      <3> QED
        BY <1>3, <3>1, <3>2
    <2> QED
      BY <1>5, <2>1, <2>2
  <1>7. PICK pending : pending = {todo[k] : k \in DOMAIN todo}
    OBVIOUS
  <1>8. pending \subseteq {root, return}
    BY <1>6, <1>7
  <1>9. /\ \A c \in {} \cup pending : c \notin {Root(mode), Return} =>
              \E p \in {} : \E k \in DOMAIN Makes(mode, p) : Makes(mode, p)[k] = c
        /\ {} \subseteq CallsOf(mode) /\ pending \cap {} = {}
    BY <1>2, <1>8
  <1>10. /\ todo \in Seq(CallsOf(mode) \cup {Return})
         /\ todo # << >> /\ todo[1] = Root(mode)
    BY <1>2, <1>6
  <1>11. PICK done : done = {}
    OBVIOUS
  <1>12. \A p \in done : \A k \in DOMAIN Makes(mode, p) : Makes(mode, p)[k] \in done \cup pending
    BY <1>11
  <1>13. Tidy(mode, done, todo)
    <2>1. pending = InAgenda(todo)
      BY <1>7 DEF InAgenda
    <2> QED
      BY <1>6, <1>9, <1>10, <1>11, <1>12, <2>1 DEF Tidy
  <1>14. Work(mode, done)'
    BY <1>1, <1>13, WorkLater
  <1> QED
    BY <1>11, <1>14

(* When nothing is left to do, every call was made. *)
LEMMA WorkDone ==
    ASSUME nodes \in Values, NEW mode \in Modes, NEW D, Work(mode, D), Pending \subseteq {Return}
    PROVE  D = CallsOf(mode)
PROOF
  <1>1. {"value", "pair", "key"} \subseteq Parts /\ \A n : ElemPart(n) \in {"value", "pair"}
    BY DEF Parts, ElemPart
  <1>2. \A p \in D : \A k \in DOMAIN Makes(mode, p) : Makes(mode, p)[k] \in D
    <2>1. ASSUME NEW p \in D, NEW k \in DOMAIN Makes(mode, p) PROVE Makes(mode, p)[k] # Return
      <3>1. p \in CallsOf(mode)
        BY DEF Work, Tidy, Pending
      <3> QED
        BY <3>1, MadeCalls
    <2> QED
      BY <2>1 DEF Work, Tidy, Pending
  <1>3. Root(mode) \in D
    <2>1. ASSUME agenda # << >>, agenda[1] = Root(mode) PROVE FALSE
      <3>1. 1 \in DOMAIN agenda
        <4>1. agenda \in Seq(CallsOf(mode) \cup {Return})
          BY DEF Work, Tidy, Pending
        <4>2. PICK N \in Nat : N = Len(agenda) /\ DOMAIN agenda = 1 .. N /\ N # 0
          BY <2>1, <4>1, LenProperties, EmptySeq
        <4> QED
          BY <4>2
      <3>2. Root(mode) = Return
        BY <2>1, <3>1 DEF Pending, InAgenda
      <3> QED
        BY <1>1, <3>2, CallFields DEF Root
    <2> QED
      BY <2>1 DEF Work, Tidy, Pending
  <1>4. \A n \in Paired : PartCall(mode, "pair", n) \in D =>
            PartCall(mode, "key", n) \in D /\ PartCall(mode, "value", n) \in D
    <2>1. ASSUME NEW n \in Paired, PartCall(mode, "pair", n) \in D
          PROVE  PartCall(mode, "key", n) \in D /\ PartCall(mode, "value", n) \in D
      <3>1. PICK made : made = Makes(mode, PartCall(mode, "pair", n))
        OBVIOUS
      <3>2. PICK a, b : a = PartCall(mode, "key", n) /\ b = PartCall(mode, "value", n)
        OBVIOUS
      <3>3. made = <<a, b>>
        BY <3>1, <3>2, MakesOfCall DEF Paired
      <3>4. {1, 2} = DOMAIN made /\ made[1] = a /\ made[2] = b
        BY <3>3
      <3>5. \A k \in DOMAIN made : made[k] \in D
        BY <1>2, <2>1, <3>1
      <3> QED
        BY <3>2, <3>4, <3>5
    <2> QED
      BY <2>1
  <1>5. ASSUME NEW l \in DOMAIN nodes, PartCall(mode, "value", l) \in D, NEW k \in DOMAIN nodes[l].elems,
               NEW m, m = nodes[l].elems[k]
        PROVE  /\ PartCall(mode, "value", m) \in D
               /\ m \in Paired => PartCall(mode, "pair", m) \in D
    <2>1. PartCall(mode, ElemPart(l), m) \in D
      <3>1. PICK made : made = Makes(mode, PartCall(mode, "value", l))
        OBVIOUS
      <3>2. k \in DOMAIN made /\ made[k] = PartCall(mode, ElemPart(l), m)
        BY <1>5, <3>1, MakesOfCall
      <3> QED
        BY <1>2, <1>5, <3>1, <3>2
    <2>2. CASE nodes[l].type = "Object"
      <3>1. m \in Paired
        BY <1>5, <2>2, ElemFacts DEF Paired, InPair
      <3> QED
        BY <1>4, <2>1, <2>2, <3>1 DEF ElemPart
    <2>3. CASE nodes[l].type # "Object"
      <3>1. m \notin Paired
        BY <1>5, <2>3, ElemFacts DEF Paired, Alone
      <3> QED
        BY <2>1, <2>3, <3>1 DEF ElemPart
    <2> QED
      BY <2>2, <2>3
  <1>6. PICK N \in Nat : DOMAIN nodes = 1 .. N /\ N >= 1
          /\ \A m \in 2 .. N : \E l \in 1 .. N : \E k \in DOMAIN nodes[l].elems :
                nodes[l].elems[k] = m
    BY TreeFacts
  <1>7. \A n \in DOMAIN nodes : PartCall(mode, "value", n) \in D
    <2> DEFINE S == {n \in DOMAIN nodes : PartCall(mode, "value", n) \notin D}
    <2> SUFFICES ASSUME S # {} PROVE FALSE
      OBVIOUS
    <2>1. S \in SUBSET Nat
      BY <1>6
    <2>2. PICK m \in S : \A l \in S : m <= l
      BY <2>1, LeastNode
    <2>3. m # 1
      BY <1>3 DEF Root
    <2>4. m \in 2 .. N
      BY <1>6, <2>3
    <2>5. PICK l \in DOMAIN nodes : \E k \in DOMAIN nodes[l].elems : nodes[l].elems[k] = m
      BY <1>6, <2>4
    <2>6. l \in Nat /\ m \in Nat /\ l < m
      BY <2>5, ElemFacts
    <2>7. l \notin S
      BY <2>2, <2>6
    <2> QED
      BY <1>5, <2>5, <2>7
  <1>8. ASSUME NEW n \in Paired
        PROVE  PartCall(mode, "pair", n) \in D /\ PartCall(mode, "key", n) \in D
    <2>1. n \in DOMAIN nodes /\ n # 1
      BY PairedOrAlone DEF Paired
    <2>2. n \in 2 .. N
      BY <1>6, <2>1
    <2>3. PICK l \in DOMAIN nodes : \E k \in DOMAIN nodes[l].elems : nodes[l].elems[k] = n
      BY <1>6, <2>2
    <2> QED
      BY <1>4, <1>5, <1>7, <2>3
  <1>9. D \subseteq CallsOf(mode)
    BY DEF Work, Tidy, Pending
  <1> QED
    BY <1>7, <1>8, <1>9 DEF CallsOf

-------------------------------------------------------------------------------
Shifted(S, distance) == {i + distance : i \in S}

(* How far a part was moved when the calls D of offset were made. *)
MovedBy(D, part, n) == IF PartCall("Offset", part, n) \in D THEN base + by ELSE base

Moved(D) ==
    /\ spans \in [Parts -> [DOMAIN nodes -> SUBSET Nat]]
    /\ \A part \in Parts : \A n \in DOMAIN nodes :
          spans[part][n] = Shifted(ParsedSpans(nodes)[part][n], MovedBy(D, part, n))

(* The shift of the whole value did not overflow. *)
Room(D) == Root("Offset") \in D => \A i \in nodes[1].span : i + base + by + 1 <= MaxUsize

Offsetting(D) ==
    /\ Work("Offset", D) /\ Moved(D) /\ Room(D)
    /\ \E N \in Nat : N = Len(agenda) /\ N >= 1 /\ agenda[N] = Return
    /\ visited = << >>

Idle == agenda = << >> /\ Moved({}) /\ visited = << >>

Numbers == base \in Nat /\ by \in Nat

LEMMA PartOfExtent ==
    ASSUME nodes \in Values, NEW part \in Parts, NEW n \in DOMAIN nodes,
           NEW S, S = ParsedSpans(nodes)[part][n]
    PROVE  /\ S \subseteq Nat /\ S \subseteq Extent(nodes[n])
           /\ part = "value" => S = nodes[n].span
           /\ part = "key" => S = nodes[n].keySpan
           /\ part = "pair" => S = nodes[n].pair
           /\ part # "value" /\ n \notin Paired => S = {}
           /\ n # 1 => S \subseteq nodes[1].span
PROOF
  <1>1. S = CASE part = "value" -> nodes[n].span
              [] part = "key" -> nodes[n].keySpan
              [] part = "pair" -> nodes[n].pair
    BY DEF ParsedSpans
  <1>2. CASE part = "value"
    <2>1. S = nodes[n].span
      BY <1>1, <1>2
    <2> QED
      BY <1>2, <2>1, PairedOrAlone, InsideRoot DEF Extent
  <1>3. CASE part = "key"
    <2>1. S = nodes[n].keySpan
      BY <1>1, <1>3
    <2> QED
      BY <1>3, <2>1, PairedOrAlone, InsideRoot DEF Extent, Alone
  <1>4. CASE part = "pair"
    <2>1. S = nodes[n].pair
      BY <1>1, <1>4
    <2> QED
      BY <1>4, <2>1, PairedOrAlone, InsideRoot DEF Extent, Alone
  <1> QED
    BY <1>2, <1>3, <1>4 DEF Parts

LEMMA MovedStep ==
    ASSUME nodes \in Values, UNCHANGED <<nodes, base, by>>, Numbers, NEW D, Moved(D),
           NEW part \in Parts, NEW n \in DOMAIN nodes,
           NEW c, c = PartCall("Offset", part, n), c \notin D,
           spans' = [spans EXCEPT ![part][n] = {i + by : i \in @}]
    PROVE  Moved(D \cup {c})'
PROOF
  <1>1. spans \in [Parts -> [DOMAIN nodes -> SUBSET Nat]]
    BY DEF Moved
  <1>2. PICK moved : moved = {i + by : i \in spans[part][n]}
    OBVIOUS
  <1>3. moved \in SUBSET Nat
    <2>1. spans[part][n] \in SUBSET Nat
      BY <1>1
    <2> QED
      BY <1>2, <2>1 DEF Numbers
  <1>4. /\ spans' \in [Parts -> [DOMAIN nodes -> SUBSET Nat]]
        /\ \A p \in Parts : \A m \in DOMAIN nodes :
              spans'[p][m] = IF p = part /\ m = n THEN moved ELSE spans[p][m]
    BY <1>1, <1>2, <1>3
  <1>5. moved = Shifted(ParsedSpans(nodes)[part][n], base + by)
    <2>1. PICK S : S = ParsedSpans(nodes)[part][n]
      OBVIOUS
    <2>2. S \subseteq Nat
      BY <2>1, PartOfExtent
    <2>3. spans[part][n] = Shifted(S, base)
      BY <2>1 DEF Moved, MovedBy
    <2>4. \A i \in S : (i + base) + by = i + (base + by)
      BY <2>2 DEF Numbers
    <2> QED
      BY <1>2, <2>1, <2>3, <2>4 DEF Shifted
  <1>6. "Offset" \in Modes
    BY DEF Modes
  <1>7. PICK done : done = D \cup {c}
    OBVIOUS
  <1>8. ASSUME NEW p \in Parts, NEW m \in DOMAIN nodes
        PROVE  spans'[p][m] = Shifted(ParsedSpans(nodes)[p][m], MovedBy(done, p, m))
    <2>1. CASE p = part /\ m = n
      <3>1. MovedBy(done, p, m) = base + by
        BY <1>7, <2>1 DEF MovedBy
      <3> QED
        BY <1>4, <1>5, <2>1, <3>1
    <2>2. CASE ~ (p = part /\ m = n)
      <3>1. PartCall("Offset", p, m) # c
        BY <1>6, <2>2, CallFields
      <3>2. spans'[p][m] = Shifted(ParsedSpans(nodes)[p][m], MovedBy(D, p, m))
        BY <1>4, <2>2 DEF Moved
      <3>3. MovedBy(done, p, m) = MovedBy(D, p, m)
        BY <1>7, <3>1 DEF MovedBy
      <3> QED
        BY <3>2, <3>3
    <2> QED
      BY <2>1, <2>2
  <1>9. ParsedSpans(nodes)' = ParsedSpans(nodes)
    BY DEF ParsedSpans
  <1>10. \A p, m : MovedBy(done, p, m)' = MovedBy(done, p, m)
    BY DEF MovedBy
  <1>11. Moved(done)'
    <2>1. spans' \in [Parts -> [DOMAIN nodes' -> SUBSET Nat]]
      BY <1>4
    <2>2. \A p \in Parts : \A m \in DOMAIN nodes' :
            spans'[p][m] = Shifted(ParsedSpans(nodes)'[p][m], MovedBy(done, p, m)')
      BY <1>8, <1>9, <1>10
    <2> QED
      BY <2>1, <2>2 DEF Moved
  <1> QED
    BY <1>7, <1>11

LEMMA MovedStays ==
    ASSUME UNCHANGED <<nodes, spans, base>>, Moved({})
    PROVE  Moved({})'
PROOF
  <1>1. ParsedSpans(nodes)' = ParsedSpans(nodes)
    BY DEF ParsedSpans
  <1>2. PICK none : none = {}
    OBVIOUS
  <1>3. \A part, n : MovedBy(none, part, n)' = MovedBy(none, part, n)
    BY <1>2 DEF MovedBy
  <1>4. Moved(none)'
    BY <1>1, <1>2, <1>3 DEF Moved
  <1> QED
    BY <1>2, <1>4

LEMMA NextCall ==
    ASSUME NEW mode \in Modes, NEW D, Work(mode, D), agenda # << >>, NEW c, c = Head(agenda)
    PROVE  /\ c \in Pending /\ c \notin D
           /\ c = agenda[1] /\ 1 \in DOMAIN agenda
           /\ c = Return \/ c \in CallsOf(mode)
           /\ Root(mode) \in D \/ (D = {} /\ c = Root(mode))
PROOF
  <1>1. agenda \in Seq(CallsOf(mode) \cup {Return})
    BY DEF Work, Tidy
  <1>2. PICK N \in Nat : N = Len(agenda) /\ DOMAIN agenda = 1 .. N /\ N # 0
    BY <1>1, LenProperties, EmptySeq
  <1>3. 1 \in DOMAIN agenda /\ c = agenda[1]
    BY <1>2
  <1>4. c \in Pending
    BY <1>3 DEF Pending, InAgenda
  <1>5. c = Return \/ c \in CallsOf(mode)
    BY <1>1, <1>2, <1>3, ElementOfSeq
  <1> QED
    BY <1>3, <1>4, <1>5 DEF Work, Tidy, Pending

(* A call by its routine, and which calls it makes. *)
LEMMA RoutineOf ==
    ASSUME nodes \in Values, NEW mode \in Modes, NEW c \in CallsOf(mode)
    PROVE  /\ c.node \in DOMAIN nodes
           /\ c.routine # "return"
           /\ \E part \in Parts : c = PartCall(mode, part, c.node) /\ (part # "value" => c.node \in Paired)
           /\ \A part \in Parts : c.routine = Routine(mode, part) => c = PartCall(mode, part, c.node)
PROOF
  <1>1. {"value", "pair", "key"} \subseteq Parts
    BY DEF Parts
  <1>2. PICK part \in Parts, n \in DOMAIN nodes :
          c = PartCall(mode, part, n) /\ (part # "value" => n \in Paired)
    BY <1>1 DEF CallsOf, Paired
  <1>3. c.node = n /\ c.routine = Routine(mode, part)
    BY <1>2, CallFields
  <1>4. \A p, q \in Parts : Routine(mode, p) = Routine(mode, q) => p = q
    BY DEF Parts, Routine, Modes
  <1>5. Routine(mode, part) # "return"
    BY DEF Parts, Routine, Modes
  <1> QED
    BY <1>2, <1>3, <1>4, <1>5

(* One call of Span::offset: it panics at the whole value, before anything  *)
(* was shifted, or not at all.                                              *)
LEMMA ShiftStep ==
    ASSUME nodes \in Values, Numbers, UNCHANGED <<nodes, base, by, visited>>,
           NEW D, Offsetting(D), agenda # << >>, NEW c \in CallsOf("Offset"), c = Head(agenda),
           NEW part \in Parts, NEW n \in DOMAIN nodes, c = PartCall("Offset", part, n),
           Shift(part, n, Makes("Offset", c))
    PROVE  Idle' \/ Offsetting(D \cup {c})'
PROOF
  <1>1. "Offset" \in Modes
    BY DEF Modes
  <1>2. Work("Offset", D) /\ Moved(D) /\ Room(D) /\ visited = << >>
    BY DEF Offsetting
  <1>3. /\ c \notin D /\ c = agenda[1] /\ c \in Pending
        /\ Root("Offset") \in D \/ (D = {} /\ c = Root("Offset"))
    BY <1>1, <1>2, NextCall
  <1>4. PICK S : S = ParsedSpans(nodes)[part][n]
    OBVIOUS
  <1>5. S \subseteq Nat /\ spans[part][n] = {i + base : i \in S}
    BY <1>2, <1>3, <1>4, PartOfExtent DEF Moved, MovedBy, Shifted
  <1>6. CASE /\ \E i \in spans[part][n] : i + 1 + by > MaxUsize
             /\ panicked' = TRUE /\ agenda' = << >>
             /\ UNCHANGED spans
    <2>1. ASSUME Root("Offset") \in D PROVE FALSE
      <3>1. PICK i \in S : (i + base) + 1 + by > MaxUsize
        BY <1>5, <1>6
      <3>2. n # 1
        <4>1. CASE part = "value"
          BY <1>3, <2>1, <4>1 DEF Root
        <4>2. CASE part # "value"
          BY <1>4, <3>1, <4>2, PartOfExtent, PairedOrAlone
        <4> QED
          BY <4>1, <4>2
      <3>3. i \in nodes[1].span
        BY <1>4, <3>1, <3>2, PartOfExtent
      <3>4. i + base + by + 1 <= MaxUsize
        BY <1>2, <2>1, <3>3 DEF Room
      <3> QED
        BY <1>5, <3>1, <3>4, NumbersAssumption DEF Numbers
    <2>2. D = {}
      BY <1>3, <2>1
    <2>3. Moved({})'
      BY <1>2, <1>6, <2>2, MovedStays
    <2> QED
      BY <1>2, <1>6, <2>3 DEF Idle
  <1>7. CASE /\ \A i \in spans[part][n] : i + 1 + by <= MaxUsize
             /\ spans' = [spans EXCEPT ![part][n] = {i + by : i \in @}]
             /\ agenda' = Makes("Offset", c) \o Tail(agenda)
             /\ UNCHANGED panicked
    <2>1. PICK done : done = D \cup {c}
      OBVIOUS
    <2>2. Work("Offset", done)'
      BY <1>1, <1>2, <1>7, <2>1, WorkStep
    <2>3. Moved(done)'
      BY <1>2, <1>3, <1>7, <2>1, MovedStep
    <2>4. \A i \in nodes[1].span : i + base + by + 1 <= MaxUsize
      <3>1. CASE Root("Offset") \in D
        BY <1>2, <3>1 DEF Room
      <3>2. CASE c = Root("Offset")
        <4>1. part = "value" /\ n = 1
          <5>1. "value" \in Parts
            BY DEF Parts
          <5> QED
            BY <1>1, <3>2, <5>1, CallFields DEF Root
        <4>2. S = nodes[1].span
          BY <1>4, <4>1, PartOfExtent
        <4>3. \A i \in S : (i + base) + 1 + by <= MaxUsize
          BY <1>5, <1>7
        <4> QED
          BY <1>5, <4>2, <4>3 DEF Numbers
      <3> QED
        BY <1>3, <3>1, <3>2
    <2>5. Room(done)'
      BY <2>4 DEF Room
    <2>6. \E M \in Nat : M = Len(agenda') /\ M >= 1 /\ agenda'[M] = Return
      <3>1. PICK X : X = CallsOf("Offset") \cup {Return}
        OBVIOUS
      <3>2. PICK made, next : made = Makes("Offset", c) /\ next = agenda' /\ next = made \o Tail(agenda)
        BY <1>7
      <3>3. agenda \in Seq(X) /\ made \in Seq(CallsOf("Offset"))
        BY <1>1, <1>2, <3>1, <3>2, MadeCalls DEF Work, Tidy
      <3>4. made \in Seq(X)
        BY <3>1, <3>3
      <3>5. PICK L, N \in Nat : Replaced(agenda, made, next, L, N)
        BY <3>2, <3>3, <3>4, HeadReplaced
      <3>6. N = Len(agenda) /\ N >= 1 /\ agenda[N] = Return
        BY <3>5 DEF Offsetting, Replaced
      <3>7. N # 1
        <4>1. c # Return
          BY <1>1, CallFields
        <4> QED
          BY <1>3, <3>6, <4>1
      <3>8. PICK M \in Nat : M = N + L - 1 /\ M = L + N - 1 /\ M >= 1
        BY <3>6, <3>7
      <3>9. next[M] = agenda[N] /\ Len(next) = M
        <4>1. N \in 2 .. N
          BY <3>6, <3>7
        <4> QED
          BY <3>5, <3>8, <4>1 DEF Replaced
      <3> QED
        BY <3>2, <3>6, <3>8, <3>9
    <2>7. Offsetting(done)'
      BY <1>2, <2>2, <2>3, <2>5, <2>6 DEF Offsetting, Return, Call
    <2> QED
      BY <2>1, <2>7
  <1> QED
    BY <1>6, <1>7 DEF Shift

-------------------------------------------------------------------------------
(* What the visitor is shown itself, and where a call is in the source now. *)
ShowsItself(c) ==
    c.routine = "visit_key" \/ (c.routine = "visit_value" /\ ~ IsContainer(c.node))

ShownBy(D) == {c \in D : ShowsItself(c)}

ParsedOf(c) ==
    CASE c.routine = "visit_value" -> nodes[c.node].span
      [] c.routine = "visit_key" -> nodes[c.node].keySpan
      [] OTHER -> nodes[c.node].pair

PlaceOf(c) == Shifted(ParsedOf(c), base)

(* The visitor was shown what the calls D show, in order, and all that is   *)
(* to do is behind it, in order.                                            *)
InOrder(D, todo, seen) ==
    /\ seen \in Seq(SUBSET Nat)
    /\ IsFiniteSet(ShownBy(D)) /\ Len(seen) = Cardinality(ShownBy(D))
    /\ \A c \in ShownBy(D) : \E k \in DOMAIN seen : seen[k] = PlaceOf(c)
    /\ \A k, l \in DOMAIN seen : k < l => Before(seen[k], seen[l])
    /\ \A k \in DOMAIN seen : \A i \in DOMAIN todo : Before(seen[k], PlaceOf(todo[i]))
    /\ \A i, j \in DOMAIN todo : i < j => Before(PlaceOf(todo[i]), PlaceOf(todo[j]))

Visiting(D) ==
    /\ Work("Visit", D) /\ Return \notin Pending /\ Moved({})
    /\ InOrder(D, agenda, visited)

LEMMA InOrderLater ==
    ASSUME UNCHANGED <<nodes, base>>, NEW D, NEW todo, NEW seen, agenda' = todo, visited' = seen,
           InOrder(D, todo, seen)
    PROVE  InOrder(D, agenda, visited)'
PROOF
  <1>1. ShownBy(D)' = ShownBy(D)
    BY DEF ShownBy, ShowsItself, IsContainer
  <1>2. \A c : PlaceOf(c)' = PlaceOf(c)
    BY DEF PlaceOf, ParsedOf, Shifted
  <1> QED
    BY <1>1, <1>2 DEF InOrder

LEMMA ShiftedOrder ==
    ASSUME NEW S \in SUBSET Nat, NEW T \in SUBSET Nat, NEW distance \in Nat
    PROVE  /\ Shifted(S, distance) \in SUBSET Nat
           /\ S \subseteq T => Shifted(S, distance) \subseteq Shifted(T, distance)
           /\ Before(S, T) => Before(Shifted(S, distance), Shifted(T, distance))
PROOF
  <1>1. \A i \in S : \A j \in T : i < j => i + distance < j + distance
    OBVIOUS
  <1>2. Before(S, T) => Before(Shifted(S, distance), Shifted(T, distance))
    BY <1>1 DEF Before, Shifted
  <1> QED
    BY <1>2 DEF Shifted

LEMMA PlaceOfPart ==
    ASSUME nodes \in Values, NEW part \in Parts, NEW n \in DOMAIN nodes
    PROVE  /\ ParsedOf(PartCall("Visit", part, n)) = ParsedSpans(nodes)[part][n]
           /\ ParsedOf(PartCall("Visit", part, n)) \in SUBSET Nat
PROOF
  <1>1. PICK c : c = PartCall("Visit", part, n)
    OBVIOUS
  <1>2. c.routine = Routine("Visit", part) /\ c.node = n
    BY <1>1, CallFields DEF Modes
  <1>3. ParsedSpans(nodes)[part][n] =
            CASE part = "value" -> nodes[n].span
              [] part = "key" -> nodes[n].keySpan
              [] part = "pair" -> nodes[n].pair
    BY DEF ParsedSpans
  <1>4. ParsedOf(c) = ParsedSpans(nodes)[part][n]
    <2>1. CASE part = "value"
      BY <1>2, <1>3, <2>1 DEF ParsedOf, Routine
    <2>2. CASE part = "key"
      BY <1>2, <1>3, <2>2 DEF ParsedOf, Routine
    <2>3. CASE part = "pair"
      BY <1>2, <1>3, <2>3 DEF ParsedOf, Routine
    <2> QED
      BY <2>1, <2>2, <2>3 DEF Parts
  <1>5. ParsedSpans(nodes)[part][n] \subseteq Nat
    BY PartOfExtent
  <1> QED
    BY <1>1, <1>4, <1>5

(* The calls that a call makes are inside of its place, in order. *)
LEMMA MadeInside ==
    ASSUME nodes \in Values, base \in Nat, NEW c \in CallsOf("Visit"),
           NEW made, made = Makes("Visit", c)
    PROVE  /\ PlaceOf(c) \in SUBSET Nat
           /\ \A k \in DOMAIN made : PlaceOf(made[k]) \in SUBSET Nat /\ PlaceOf(made[k]) \subseteq PlaceOf(c)
           /\ \A k, l \in DOMAIN made : k < l => Before(PlaceOf(made[k]), PlaceOf(made[l]))
PROOF
  <1>1. "Visit" \in Modes /\ {"value", "key", "pair"} \subseteq Parts
    BY DEF Modes, Parts
  <1>2. \A d \in CallsOf("Visit") : ParsedOf(d) \in SUBSET Nat
    BY <1>1, PlaceOfPart DEF CallsOf, Paired
  <1>3. \A k \in DOMAIN made : made[k] \in CallsOf("Visit")
    BY <1>1, MadeCalls, LenProperties
  <1>4. /\ \A k \in DOMAIN made : ParsedOf(made[k]) \subseteq ParsedOf(c)
        /\ \A k, l \in DOMAIN made : k < l => Before(ParsedOf(made[k]), ParsedOf(made[l]))
    <2>1. ASSUME NEW n \in DOMAIN nodes, c = PartCall("Visit", "value", n)
          PROVE  /\ \A k \in DOMAIN made : ParsedOf(made[k]) \subseteq ParsedOf(c)
                 /\ \A k, l \in DOMAIN made : k < l => Before(ParsedOf(made[k]), ParsedOf(made[l]))
      <3>1. /\ DOMAIN made = DOMAIN nodes[n].elems
            /\ \A k \in DOMAIN made : made[k] = PartCall("Visit", ElemPart(n), nodes[n].elems[k])
        BY <1>1, <2>1, MakesOfCall
      <3>2. ParsedOf(c) = nodes[n].span
        BY <1>1, <2>1, PlaceOfPart, PartOfExtent
      <3>3. ASSUME NEW k \in DOMAIN made
            PROVE  ParsedOf(made[k]) \subseteq Extent(nodes[nodes[n].elems[k]])
        <4>1. PICK m : m = nodes[n].elems[k]
          OBVIOUS
        <4>2. m \in DOMAIN nodes
          BY <3>1, <4>1, ElemFacts
        <4>3. ElemPart(n) \in Parts
          BY DEF ElemPart, Parts
        <4>4. ParsedOf(made[k]) = ParsedSpans(nodes)[ElemPart(n)][m]
          BY <3>1, <4>1, <4>2, <4>3, PlaceOfPart
        <4> QED
          BY <4>1, <4>2, <4>3, <4>4, PartOfExtent
      <3>4. \A k \in DOMAIN made : Extent(nodes[nodes[n].elems[k]]) \subseteq nodes[n].span
        BY <3>1, ElemFacts
      <3>5. \A k, l \in DOMAIN made : k < l =>
              Before(Extent(nodes[nodes[n].elems[k]]), Extent(nodes[nodes[n].elems[l]]))
        BY <3>1, ElemFacts
      <3>6. \A k, l \in DOMAIN made : k < l => Before(ParsedOf(made[k]), ParsedOf(made[l]))
        BY <3>3, <3>5 DEF Before
      <3> QED
        BY <3>2, <3>3, <3>4, <3>6
    <2>2. ASSUME NEW n \in Paired, c = PartCall("Visit", "pair", n)
          PROVE  /\ \A k \in DOMAIN made : ParsedOf(made[k]) \subseteq ParsedOf(c)
                 /\ \A k, l \in DOMAIN made : k < l => Before(ParsedOf(made[k]), ParsedOf(made[l]))
      <3>1. n \in DOMAIN nodes /\ InPair(nodes[n])
        BY PairedOrAlone DEF Paired
      <3>2. PICK a, b : a = PartCall("Visit", "key", n) /\ b = PartCall("Visit", "value", n)
        OBVIOUS
      <3>3. made = <<a, b>>
        BY <1>1, <2>2, <3>1, <3>2, MakesOfCall
      <3>4. DOMAIN made = {1, 2} /\ made[1] = a /\ made[2] = b
        BY <3>3
      <3>5. ParsedOf(c) = nodes[n].pair /\ ParsedOf(a) = nodes[n].keySpan /\ ParsedOf(b) = nodes[n].span
        BY <1>1, <2>2, <3>1, <3>2, PlaceOfPart, PartOfExtent
      <3> QED
        BY <3>1, <3>4, <3>5 DEF InPair
    <2>3. ASSUME NEW n \in Paired, c = PartCall("Visit", "key", n)
          PROVE  /\ \A k \in DOMAIN made : ParsedOf(made[k]) \subseteq ParsedOf(c)
                 /\ \A k, l \in DOMAIN made : k < l => Before(ParsedOf(made[k]), ParsedOf(made[l]))
      <3>1. made = << >>
        BY <1>1, <2>3, MakesOfCall DEF Paired
      <3> QED
        BY <3>1
    <2> QED
      BY <2>1, <2>2, <2>3 DEF CallsOf
  <1> QED
    BY <1>2, <1>3, <1>4, ShiftedOrder DEF PlaceOf

(* One call of the traversal: it shows what it is, or makes others. *)
LEMMA VisitStep ==
    ASSUME nodes \in Values, Numbers, UNCHANGED <<nodes, spans, base>>,
           NEW D, Visiting(D), agenda # << >>, NEW c \in CallsOf("Visit"), c = Head(agenda),
           agenda' = Makes("Visit", c) \o Tail(agenda),
           visited' = IF ShowsItself(c) THEN Append(visited, PlaceOf(c)) ELSE visited
    PROVE  Visiting(D \cup {c})'
PROOF
  <1>1. "Visit" \in Modes
    BY DEF Modes
  <1>2. Work("Visit", D) /\ Return \notin Pending /\ Moved({}) /\ InOrder(D, agenda, visited)
    BY DEF Visiting
  <1>3. c \notin D /\ c = agenda[1] /\ 1 \in DOMAIN agenda
    BY <1>1, <1>2, NextCall
  <1>4. PICK X, made, next, seen : /\ X = CallsOf("Visit") \cup {Return} /\ made = Makes("Visit", c)
                                   /\ next = agenda' /\ seen = visited'
    OBVIOUS
  <1>5. next = made \o Tail(agenda) /\ agenda \in Seq(X) /\ made \in Seq(CallsOf("Visit"))
    BY <1>1, <1>2, <1>4, MadeCalls DEF Work, Tidy
  <1>6. made \in Seq(X)
    BY <1>4, <1>5
  <1>7. PICK L, N \in Nat : Replaced(agenda, made, next, L, N)
    BY <1>5, <1>6, HeadReplaced
  <1>8. \A i \in DOMAIN next :
           \/ i \in DOMAIN made /\ next[i] = made[i]
           \/ \E q \in DOMAIN agenda : 1 < q /\ q = i - L + 1 /\ i > L /\ next[i] = agenda[q]
    <2>1. ASSUME NEW i \in 1 .. L + N - 1
          PROVE  \/ i \in 1 .. L /\ next[i] = made[i]
                 \/ \E q \in 1 .. N : 1 < q /\ q = i - L + 1 /\ i > L /\ next[i] = agenda[q]
      <3>1. CASE i \in 1 .. L
        BY <1>7, <3>1 DEF Replaced
      <3>2. CASE i \notin 1 .. L
        <4>1. i \in L + 1 .. L + N - 1
          BY <2>1, <3>2
        <4>2. PICK q : q = i - L + 1 /\ q \in 2 .. N /\ next[i] = agenda[q]
          BY <1>7, <4>1 DEF Replaced
        <4> QED
          BY <4>1, <4>2
      <3> QED
        BY <3>1, <3>2
    <2> QED
      BY <1>7, <2>1 DEF Replaced
  <1>9. \A i \in DOMAIN made : i \in Nat /\ i <= L
    BY <1>7 DEF Replaced
  <1>10. /\ PlaceOf(c) \in SUBSET Nat
         /\ \A k \in DOMAIN made : PlaceOf(made[k]) \subseteq PlaceOf(c)
         /\ \A k, l \in DOMAIN made : k < l => Before(PlaceOf(made[k]), PlaceOf(made[l]))
    BY <1>4, MadeInside DEF Numbers
  <1>11. \A q \in DOMAIN agenda : 1 < q => Before(PlaceOf(c), PlaceOf(agenda[q]))
    BY <1>2, <1>3 DEF InOrder
  <1>12. \A i, j \in DOMAIN next : i < j => Before(PlaceOf(next[i]), PlaceOf(next[j]))
    <2> SUFFICES ASSUME NEW i \in DOMAIN next, NEW j \in DOMAIN next, i < j
                 PROVE  Before(PlaceOf(next[i]), PlaceOf(next[j]))
      OBVIOUS
    <2>1. i \in Int /\ j \in Int
      BY <1>7 DEF Replaced
    <2>2. CASE i \in DOMAIN made /\ next[i] = made[i]
      <3>1. CASE j \in DOMAIN made /\ next[j] = made[j]
        BY <1>10, <2>2, <3>1
      <3>2. CASE \E q \in DOMAIN agenda : 1 < q /\ next[j] = agenda[q]
        <4>1. Before(PlaceOf(c), PlaceOf(next[j]))
          BY <1>11, <3>2
        <4>2. PlaceOf(next[i]) \subseteq PlaceOf(c)
          BY <1>10, <2>2
        <4> QED
          BY <4>1, <4>2 DEF Before
      <3> QED
        BY <1>8, <3>1, <3>2
    <2>3. CASE \E q \in DOMAIN agenda : 1 < q /\ q = i - L + 1 /\ i > L /\ next[i] = agenda[q]
      <3>1. j \notin DOMAIN made
        BY <1>9, <2>1, <2>3
      <3>2. PICK q \in DOMAIN agenda : q = i - L + 1 /\ next[i] = agenda[q]
        BY <2>3
      <3>3. PICK r \in DOMAIN agenda : r = j - L + 1 /\ next[j] = agenda[r]
        BY <1>8, <3>1
      <3>4. q < r
        BY <1>7, <2>1, <3>2, <3>3
      <3> QED
        BY <1>2, <3>2, <3>3, <3>4 DEF InOrder
    <2> QED
      BY <1>8, <2>2, <2>3
  <1>13. \A k \in DOMAIN visited : /\ Before(visited[k], PlaceOf(c))
                                   /\ \A i \in DOMAIN next : Before(visited[k], PlaceOf(next[i]))
    <2> SUFFICES ASSUME NEW k \in DOMAIN visited
                 PROVE  /\ Before(visited[k], PlaceOf(c))
                        /\ \A i \in DOMAIN next : Before(visited[k], PlaceOf(next[i]))
      OBVIOUS
    <2>1. \A q \in DOMAIN agenda : Before(visited[k], PlaceOf(agenda[q]))
      BY <1>2 DEF InOrder
    <2>2. Before(visited[k], PlaceOf(c))
      BY <1>3, <2>1
    <2>3. \A l \in DOMAIN made : Before(visited[k], PlaceOf(made[l]))
      BY <1>10, <2>2 DEF Before
    <2> QED
      BY <1>8, <2>1, <2>2, <2>3
  <1>14. PICK done : done = D \cup {c}
    OBVIOUS
  <1>15. InOrder(done, next, seen)
    <2>1. PICK V \in Nat : V = Len(visited) /\ DOMAIN visited = 1 .. V
      BY <1>2, LenProperties DEF InOrder
    <2>2. CASE ~ ShowsItself(c)
      <3>1. ShownBy(done) = ShownBy(D) /\ seen = visited
        BY <1>4, <1>14, <2>2 DEF ShownBy
      <3> QED
        BY <1>2, <1>12, <1>13, <3>1 DEF InOrder
    <2>3. CASE ShowsItself(c)
      <3>1. seen = Append(visited, PlaceOf(c))
        BY <1>4, <2>3
      <3>2. ShownBy(done) = ShownBy(D) \cup {c} /\ c \notin ShownBy(D)
        BY <1>3, <1>14, <2>3 DEF ShownBy
      <3>3. /\ seen \in Seq(SUBSET Nat) /\ Len(seen) = V + 1
            /\ \A k \in 1 .. V : seen[k] = visited[k]
            /\ seen[V + 1] = PlaceOf(c)
        BY <1>2, <1>10, <2>1, <3>1, AppendProperties DEF InOrder
      <3>4. DOMAIN seen = 1 .. V + 1
        BY <3>3, LenProperties
      <3>5. IsFiniteSet(ShownBy(done)) /\ Cardinality(ShownBy(done)) = V + 1
        <4>1. PICK S : S = ShownBy(D) /\ IsFiniteSet(S) /\ Cardinality(S) = V
          BY <1>2, <2>1 DEF InOrder
        <4>2. IsFiniteSet(S \cup {c}) /\ Cardinality(S \cup {c}) = V + 1
          BY <3>2, <4>1, FS_AddElement
        <4> QED
          BY <3>2, <4>1, <4>2
      <3>6. made = << >>
        <4>1. CASE c.routine = "visit_key"
          <5>1. c = PartCall("Visit", "key", c.node) /\ c.node \in DOMAIN nodes
            BY <1>1, <4>1, RoutineOf DEF Routine, Parts
          <5> QED
            BY <1>1, <1>4, <5>1, MakesOfCall
        <4>2. CASE c.routine = "visit_value" /\ ~ IsContainer(c.node)
          <5>1. c = PartCall("Visit", "value", c.node) /\ c.node \in DOMAIN nodes
            BY <1>1, <4>2, RoutineOf DEF Routine, Parts
          <5>2. nodes[c.node].elems = << >>
            <6>1. LaidOutInOrder(nodes)
              BY ValuesAssumption
            <6> QED
              BY <4>2, <5>1, <6>1 DEF LaidOutInOrder, IsContainer
          <5>3. DOMAIN made = {}
            BY <1>1, <1>4, <5>1, <5>2, MakesOfCall
          <5> QED
            BY <1>7, <5>3, <1>5, EmptySeq DEF Replaced
        <4> QED
          BY <2>3, <4>1, <4>2 DEF ShowsItself
      <3>7. \A i \in DOMAIN next : Before(PlaceOf(c), PlaceOf(next[i]))
        BY <1>8, <1>11, <3>6
      <3>8. \A k \in DOMAIN seen : \A i \in DOMAIN next : Before(seen[k], PlaceOf(next[i]))
        <4>1. \A k \in 1 .. V + 1 : k \in 1 .. V \/ k = V + 1
          OBVIOUS
        <4> QED
          BY <1>13, <2>1, <3>3, <3>4, <3>7, <4>1
      <3>9. \A k, l \in DOMAIN seen : k < l => Before(seen[k], seen[l])
        <4>1. \A k, l \in 1 .. V + 1 : k < l => k \in 1 .. V /\ (l \in 1 .. V \/ l = V + 1)
          OBVIOUS
        <4>2. \A k, l \in 1 .. V : k < l => Before(visited[k], visited[l])
          BY <1>2, <2>1 DEF InOrder
        <4> QED
          BY <1>13, <2>1, <3>3, <3>4, <4>1, <4>2
      <3>10. \A d \in ShownBy(done) : \E k \in DOMAIN seen : seen[k] = PlaceOf(d)
        <4>1. \A d \in ShownBy(D) : \E k \in 1 .. V : visited[k] = PlaceOf(d)
          BY <1>2, <2>1 DEF InOrder
        <4>2. V + 1 \in 1 .. V + 1 /\ 1 .. V \subseteq 1 .. V + 1
          OBVIOUS
        <4> QED
          BY <3>2, <3>3, <3>4, <4>1, <4>2
      <3> QED
        BY <1>12, <3>3, <3>5, <3>8, <3>9, <3>10 DEF InOrder
    <2> QED
      BY <2>2, <2>3
  <1>16. InOrder(done, agenda, visited)'
    BY <1>4, <1>15, InOrderLater
  <1>17. Work("Visit", done)'
    BY <1>1, <1>2, <1>14, WorkStep
  <1>18. Moved({})'
    BY <1>2, MovedStays
  <1>19. \A i \in DOMAIN next : next[i] # Return
    <2>1. \A q \in DOMAIN agenda : agenda[q] # Return
      BY <1>2 DEF Pending, InAgenda
    <2>2. \A k \in DOMAIN made : made[k] # Return
      BY <1>1, <1>4, MadeCalls
    <2> QED
      BY <1>8, <2>1, <2>2
  <1>20. (Return \notin Pending)'
    BY <1>4, <1>19 DEF Pending, InAgenda, Return, Call
  <1>21. Visiting(done)'
    BY <1>16, <1>17, <1>18, <1>20 DEF Visiting
  <1> QED
    BY <1>14, <1>21

-------------------------------------------------------------------------------
IInv ==
    /\ nodes \in Values /\ Numbers
    /\ \/ Idle
       \/ \E D \in SUBSET CallsOf("Offset") : Offsetting(D)
       \/ \E D \in SUBSET CallsOf("Visit") : Visiting(D)

LEMMA InitInv ==
    ASSUME Init
    PROVE  IInv
PROOF
  <1>1. nodes \in Values /\ Numbers
    BY DEF Init, Numbers
  <1>2. \A part \in Parts : \A n \in DOMAIN nodes :
          ParsedSpans(nodes)[part][n] \in SUBSET Nat
    BY <1>1, PartOfExtent
  <1>3. ASSUME NEW S \in SUBSET Nat PROVE Shifted(S, 0) = S
    <2>1. \A i \in S : i + 0 = i
      OBVIOUS
    <2> QED
      BY <2>1 DEF Shifted
  <1>4. spans \in [Parts -> [DOMAIN nodes -> SUBSET Nat]]
    <2>1. spans = ParsedSpans(nodes)
      BY DEF Init
    <2>2. \A part \in Parts : ParsedSpans(nodes)[part] \in [DOMAIN nodes -> SUBSET Nat]
      BY <1>2 DEF ParsedSpans
    <2>3. ParsedSpans(nodes) \in [Parts -> [DOMAIN nodes -> SUBSET Nat]]
      BY <2>2 DEF ParsedSpans
    <2> QED
      BY <2>1, <2>3
  <1>5. Moved({})
    BY <1>2, <1>3, <1>4 DEF Moved, MovedBy, Init
  <1> QED
    BY <1>1, <1>5 DEF IInv, Idle, Init

LEMMA AtRest ==
    ASSUME IInv, agenda = << >>
    PROVE  Moved({})
PROOF
  <1>1. ASSUME NEW D, Offsetting(D) PROVE FALSE
    <2>1. PICK N \in Nat : N = Len(agenda) /\ N >= 1
      BY <1>1 DEF Offsetting
    <2> QED
      BY <2>1
  <1> QED
    BY <1>1 DEF IInv, Idle, Visiting

LEMMA CallOffsetKeeps ==
    ASSUME IInv, CallOffset
    PROVE  IInv'
PROOF
  <1>1. /\ nodes \in Values /\ UNCHANGED <<nodes, spans, base>> /\ base \in Nat /\ by' \in Nat
        /\ agenda = << >> /\ agenda' = <<Call("offset", 1), Call("return", 1)>> /\ visited' = << >>
    BY NumbersAssumption DEF IInv, Numbers, CallOffset
  <1>2. Root("Offset") = Call("offset", 1)
    BY DEF Root, PartCall, Routine
  <1>3. PICK none : none = {}
    OBVIOUS
  <1>4. Work("Offset", none)'
    BY <1>1, <1>2, <1>3, WorkBegins DEF Modes, Return
  <1>5. Moved(none)'
    BY <1>1, <1>3, AtRest, MovedStays
  <1>6. Room(none)'
    BY <1>3 DEF Room
  <1>7. \E N \in Nat : N = Len(agenda') /\ N >= 1 /\ agenda'[N] = Call("return", 1)
    <2>1. Len(agenda') = 2 /\ agenda'[2] = Call("return", 1)
      BY <1>1
    <2> QED
      BY <2>1
  <1>8. Offsetting(none)'
    BY <1>1, <1>4, <1>5, <1>6, <1>7 DEF Offsetting, Return
  <1> QED
    BY <1>1, <1>3, <1>8 DEF IInv, Numbers

LEMMA CallVisitorKeeps ==
    ASSUME IInv, CallVisitor
    PROVE  IInv'
PROOF
  <1>1. /\ nodes \in Values /\ UNCHANGED <<nodes, spans, base, by>> /\ Numbers
        /\ agenda = << >> /\ agenda' = <<Call("visit_value", 1)>> /\ visited' = << >>
    BY DEF IInv, CallVisitor
  <1>2. Root("Visit") = Call("visit_value", 1)
    BY DEF Root, PartCall, Routine
  <1>3. PICK none, root : none = {} /\ root = Call("visit_value", 1)
    OBVIOUS
  <1>4. Work("Visit", none)'
    BY <1>1, <1>2, <1>3, WorkBegins DEF Modes
  <1>5. Moved({})'
    BY <1>1, AtRest, MovedStays
  <1>6. (Return \notin Pending)'
    <2>1. DOMAIN agenda' = {1} /\ agenda'[1] = root
      BY <1>1, <1>3
    <2>2. root # Call("return", 1)
      BY <1>3 DEF Call
    <2> QED
      BY <2>1, <2>2 DEF Pending, InAgenda, Return
  <1>7. InOrder(none, agenda', << >>)
    <2>1. ShownBy(none) = {}
      BY <1>3 DEF ShownBy
    <2>2. << >> \in Seq(SUBSET Nat) /\ Len(<< >>) = 0 /\ DOMAIN << >> = {}
      OBVIOUS
    <2>3. DOMAIN agenda' = {1}
      BY <1>1
    <2>4. \A i, j \in DOMAIN agenda' : ~ (i < j)
      BY <2>3
    <2> QED
      BY <2>1, <2>2, <2>4, FS_EmptySet DEF InOrder
  <1>8. InOrder(none, agenda, visited)'
    BY <1>1, <1>7, InOrderLater
  <1>9. Visiting(none)'
    BY <1>4, <1>5, <1>6, <1>8 DEF Visiting
  <1> QED
    BY <1>1, <1>3, <1>9 DEF IInv, Numbers

(* A call on the agenda says what is being done. *)
LEMMA Underway ==
    ASSUME IInv, NEW routine, NEW c \in NextCalls(routine)
    PROVE  /\ agenda # << >> /\ c = Head(agenda) /\ c.routine = routine
           /\ \/ /\ routine \in {"offset", "offset_pair", "offset_key"} /\ c \in CallsOf("Offset")
                 /\ \E D \in SUBSET CallsOf("Offset") : Offsetting(D)
              \/ /\ routine = "return" /\ c = Return
                 /\ \E D \in SUBSET CallsOf("Offset") : Offsetting(D)
              \/ /\ routine \in {"visit_value", "visit_key_value", "visit_key"} /\ c \in CallsOf("Visit")
                 /\ \E D \in SUBSET CallsOf("Visit") : Visiting(D)
PROOF
  <1>1. agenda # << >> /\ c = Head(agenda) /\ c.routine = routine
    BY DEF NextCalls
  <1>2. ASSUME NEW D \in SUBSET CallsOf("Offset"), Offsetting(D)
        PROVE  \/ routine \in {"offset", "offset_pair", "offset_key"} /\ c \in CallsOf("Offset")
               \/ routine = "return" /\ c = Return
    <2>1. "Offset" \in Modes /\ Work("Offset", D) /\ nodes \in Values
      BY <1>2 DEF Modes, Offsetting, IInv
    <2>2. c = Return \/ c \in CallsOf("Offset")
      BY <1>1, <2>1, NextCall
    <2>3. CASE c = Return
      BY <1>1, <2>1, <2>3, CallFields
    <2>4. CASE c \in CallsOf("Offset")
      <3>1. PICK part \in Parts : c = PartCall("Offset", part, c.node)
        BY <2>1, <2>4, RoutineOf
      <3>2. c.routine = Routine("Offset", part)
        BY <2>1, <3>1, CallFields
      <3> QED
        BY <1>1, <2>4, <3>2 DEF Parts, Routine
    <2> QED
      BY <2>2, <2>3, <2>4
  <1>3. ASSUME NEW D \in SUBSET CallsOf("Visit"), Visiting(D)
        PROVE  routine \in {"visit_value", "visit_key_value", "visit_key"} /\ c \in CallsOf("Visit")
    <2>1. "Visit" \in Modes /\ Work("Visit", D) /\ nodes \in Values /\ Return \notin Pending
      BY <1>3 DEF Modes, Visiting, IInv
    <2>2. c \in CallsOf("Visit")
      BY <1>1, <2>1, NextCall
    <2>3. PICK part \in Parts : c = PartCall("Visit", part, c.node)
      BY <2>1, <2>2, RoutineOf
    <2>4. c.routine = Routine("Visit", part)
      BY <2>1, <2>3, CallFields
    <2> QED
      BY <1>1, <2>2, <2>4 DEF Parts, Routine
  <1> QED
    BY <1>1, <1>2, <1>3 DEF IInv, Idle

LEMMA OffsetStepKeeps ==
    ASSUME IInv, OffsetStep
    PROVE  IInv'
PROOF
  <1>1. nodes \in Values /\ Numbers /\ UNCHANGED <<nodes, base, by, visited>>
    BY DEF IInv, OffsetStep
  <1>2. "Offset" \in Modes /\ {"value", "pair", "key"} \subseteq Parts
    BY DEF Modes, Parts
  <1>3. ASSUME NEW c, agenda # << >>, c = Head(agenda), c \in CallsOf("Offset"),
               NEW D \in SUBSET CallsOf("Offset"), Offsetting(D),
               NEW part \in Parts, c.routine = Routine("Offset", part),
               NEW made, made = Makes("Offset", c), Shift(part, c.node, made)
        PROVE  IInv'
    <2>1. c = PartCall("Offset", part, c.node) /\ c.node \in DOMAIN nodes
      BY <1>1, <1>2, <1>3, RoutineOf
    <2>2. Idle' \/ Offsetting(D \cup {c})'
      BY <1>1, <1>3, <2>1, ShiftStep
    <2>3. PICK done : done = D \cup {c}
      OBVIOUS
    <2>4. CallsOf("Offset")' = CallsOf("Offset")
      BY <1>1 DEF CallsOf, Paired
    <2>5. done \in SUBSET CallsOf("Offset")
      BY <1>3, <2>3
    <2>6. Idle' \/ Offsetting(done)'
      BY <2>2, <2>3
    <2> QED
      BY <1>1, <2>4, <2>5, <2>6 DEF IInv, Numbers
  <1>4. ASSUME NEW c \in NextCalls("offset"), Shift("value", c.node, ElementOffsets(c.node))
        PROVE  IInv'
    <2>1. PICK D \in SUBSET CallsOf("Offset") : Offsetting(D)
      BY <1>4, Underway
    <2>2. agenda # << >> /\ c = Head(agenda) /\ c.routine = "offset" /\ c \in CallsOf("Offset")
      BY <1>4, Underway
    <2>3. c = PartCall("Offset", "value", c.node) /\ c.node \in DOMAIN nodes
      BY <1>1, <1>2, <2>2, RoutineOf DEF Routine
    <2>4. Makes("Offset", c) = ElementOffsets(c.node)
      BY <2>2 DEF Makes, Routine, ElemPart, ElementOffsets
    <2> QED
      BY <1>2, <1>3, <1>4, <2>1, <2>2, <2>4 DEF Routine
  <1>5. ASSUME NEW c \in NextCalls("offset_pair"), Shift("pair", c.node, PairOffsets(c.node))
        PROVE  IInv'
    <2>1. PICK D \in SUBSET CallsOf("Offset") : Offsetting(D)
      BY <1>5, Underway
    <2>2. agenda # << >> /\ c = Head(agenda) /\ c.routine = "offset_pair" /\ c \in CallsOf("Offset")
      BY <1>5, Underway
    <2>3. Makes("Offset", c) = PairOffsets(c.node)
      BY <2>2 DEF Makes, Routine, PartCall, PairOffsets
    <2> QED
      BY <1>2, <1>3, <1>5, <2>1, <2>2, <2>3 DEF Routine
  <1>6. ASSUME NEW c \in NextCalls("offset_key"), Shift("key", c.node, << >>)
        PROVE  IInv'
    <2>1. PICK D \in SUBSET CallsOf("Offset") : Offsetting(D)
      BY <1>6, Underway
    <2>2. agenda # << >> /\ c = Head(agenda) /\ c.routine = "offset_key" /\ c \in CallsOf("Offset")
      BY <1>6, Underway
    <2>3. Makes("Offset", c) = << >>
      BY <2>2 DEF Makes, Routine
    <2> QED
      BY <1>2, <1>3, <1>6, <2>1, <2>2, <2>3 DEF Routine
  <1> QED
    BY <1>4, <1>5, <1>6 DEF OffsetStep

LEMMA OffsetReturnsKeeps ==
    ASSUME IInv, OffsetReturns
    PROVE  IInv'
PROOF
  <1>1. /\ nodes \in Values /\ Numbers /\ UNCHANGED <<nodes, spans, by, visited>>
        /\ agenda' = << >> /\ base' = base + by
    BY DEF IInv, OffsetReturns
  <1>2. PICK c \in NextCalls("return") : TRUE
    BY DEF OffsetReturns
  <1>3. PICK D \in SUBSET CallsOf("Offset") : Offsetting(D)
    BY <1>2, Underway
  <1>4. /\ agenda # << >> /\ c = Head(agenda) /\ c = Return /\ Work("Offset", D) /\ Moved(D)
        /\ visited = << >> /\ "Offset" \in Modes
    BY <1>2, <1>3, Underway DEF Offsetting, Modes
  <1>5. c = agenda[1] /\ 1 \in DOMAIN agenda
    BY <1>4, NextCall
  <1>6. PICK N \in Nat : N = Len(agenda) /\ N >= 1 /\ agenda[N] = Return
    BY <1>3 DEF Offsetting
  <1>7. DOMAIN agenda = 1 .. N /\ \A i, j \in DOMAIN agenda : agenda[i] = agenda[j] => i = j
    <2>1. agenda \in Seq(CallsOf("Offset") \cup {Return})
      BY <1>4 DEF Work, Tidy
    <2> QED
      BY <1>4, <1>6, <2>1, LenProperties DEF Work, Tidy
  <1>8. N = 1
    BY <1>4, <1>5, <1>6, <1>7
  <1>9. Pending \subseteq {Return}
    BY <1>4, <1>5, <1>7, <1>8 DEF Pending, InAgenda
  <1>10. D = CallsOf("Offset")
    BY <1>1, <1>4, <1>9, WorkDone
  <1>11. ASSUME NEW part \in Parts, NEW n \in DOMAIN nodes
         PROVE  spans[part][n] = Shifted(ParsedSpans(nodes)[part][n], base + by)
    <2>1. PICK S : S = ParsedSpans(nodes)[part][n]
      OBVIOUS
    <2>2. spans[part][n] = Shifted(S, MovedBy(D, part, n))
      BY <1>4, <2>1 DEF Moved
    <2>3. CASE part # "value" /\ n \notin Paired
      <3>1. S = {}
        BY <1>1, <2>1, <2>3, PartOfExtent
      <3> QED
        BY <2>1, <2>2, <3>1 DEF Shifted
    <2>4. CASE part = "value" \/ n \in Paired
      <3>1. PartCall("Offset", part, n) \in D
        BY <1>10, <2>4 DEF CallsOf, Parts
      <3> QED
        BY <2>1, <2>2, <3>1 DEF MovedBy
    <2> QED
      BY <2>3, <2>4
  <1>12. PICK none : none = {}
    OBVIOUS
  <1>13. \A part, n : MovedBy(none, part, n)' = base + by
    BY <1>1, <1>12 DEF MovedBy
  <1>14. ParsedSpans(nodes)' = ParsedSpans(nodes)
    BY <1>1 DEF ParsedSpans
  <1>15. Moved(none)'
    BY <1>1, <1>4, <1>11, <1>13, <1>14 DEF Moved
  <1>16. Idle'
    BY <1>1, <1>4, <1>12, <1>15 DEF Idle
  <1> QED
    BY <1>1, <1>16 DEF IInv, Numbers

LEMMA VisitKeeps ==
    ASSUME IInv, UNCHANGED <<nodes, spans, base, by>>,
           agenda # << >>, NEW c \in CallsOf("Visit"), c = Head(agenda),
           NEW D \in SUBSET CallsOf("Visit"), Visiting(D),
           agenda' = Makes("Visit", c) \o Tail(agenda),
           visited' = IF ShowsItself(c) THEN Append(visited, PlaceOf(c)) ELSE visited
    PROVE  IInv'
PROOF
  <1>1. PICK done : done = D \cup {c}
    OBVIOUS
  <1>2. nodes \in Values /\ Numbers
    BY DEF IInv
  <1>3. Visiting(D \cup {c})'
    BY <1>2, VisitStep
  <1>4. Visiting(done)'
    BY <1>1, <1>3
  <1>5. CallsOf("Visit")' = CallsOf("Visit")
    BY DEF CallsOf, Paired
  <1>6. done \in SUBSET CallsOf("Visit")
    BY <1>1
  <1> QED
    BY <1>2, <1>4, <1>5, <1>6 DEF IInv, Numbers

(* What is shown itself makes no calls, and is at its place. *)
LEMMA ShownKeeps ==
    ASSUME IInv, UNCHANGED <<nodes, spans, base, by>>,
           NEW part \in {"value", "key"}, NEW c \in NextCalls(Routine("Visit", part)),
           part = "value" => ~ IsContainer(c.node), Shown(part, c.node)
    PROVE  IInv'
PROOF
  <1>1. "Visit" \in Modes /\ part \in Parts /\ nodes \in Values
    BY DEF Modes, Parts, IInv
  <1>2. agenda # << >> /\ c = Head(agenda) /\ c.routine = Routine("Visit", part)
    BY Underway
  <1>3. Routine("Visit", part) \in {"visit_value", "visit_key"}
    BY DEF Routine
  <1>4. c \in CallsOf("Visit")
    BY <1>3, Underway
  <1>5. PICK D \in SUBSET CallsOf("Visit") : Visiting(D)
    BY <1>3, Underway
  <1>6. c = PartCall("Visit", part, c.node) /\ c.node \in DOMAIN nodes
    BY <1>1, <1>2, <1>4, RoutineOf
  <1>7. ShowsItself(c)
    BY <1>2 DEF ShowsItself, Routine
  <1>8. Makes("Visit", c) = << >>
    <2>1. CASE part = "key"
      BY <1>1, <1>6, <2>1, MakesOfCall
    <2>2. CASE part = "value"
      <3>1. LaidOutInOrder(nodes)
        BY <1>1, ValuesAssumption
      <3>2. nodes[c.node].elems = << >>
        BY <1>6, <2>2, <3>1 DEF LaidOutInOrder, IsContainer
      <3>3. Makes("Visit", c) = [k \in DOMAIN << >> |-> PartCall("Visit", ElemPart(c.node), (<< >>)[k])]
        BY <1>1, <1>6, <2>2, <3>2, MakesOfCall
      <3>4. PICK made : made = Makes("Visit", c)
        OBVIOUS
      <3>5. DOMAIN made = {}
        BY <3>3, <3>4
      <3>6. made \in Seq(CallsOf("Visit"))
        BY <1>1, <1>4, <3>4, MadeCalls
      <3>7. Len(made) \in Nat /\ DOMAIN made = 1 .. Len(made)
        BY <3>6, LenProperties
      <3>8. made = << >>
        <4>1. PICK N \in Nat : N = Len(made)
          BY <3>7
        <4>2. N = 0
          BY <3>5, <3>7, <4>1
        <4> QED
          BY <3>6, <4>1, <4>2, EmptySeq
      <3> QED
        BY <3>4, <3>8
    <2> QED
      BY <2>1, <2>2
  <1>9. spans[part][c.node] = PlaceOf(c)
    <2>1. ParsedOf(c) = ParsedSpans(nodes)[part][c.node]
      BY <1>1, <1>6, PlaceOfPart
    <2>2. PICK none : none = {} /\ Moved(none)
      BY <1>5 DEF Visiting
    <2>3. spans[part][c.node] = Shifted(ParsedSpans(nodes)[part][c.node], MovedBy(none, part, c.node))
      BY <1>1, <1>6, <2>2 DEF Moved
    <2>4. MovedBy(none, part, c.node) = base
      BY <2>2 DEF MovedBy
    <2> QED
      BY <2>1, <2>3, <2>4 DEF PlaceOf
  <1>10. agenda' = Makes("Visit", c) \o Tail(agenda)
    <2>1. agenda \in Seq(CallsOf("Visit") \cup {Return})
      BY <1>5 DEF Visiting, Work, Tidy
    <2>2. PICK rest : rest = Tail(agenda) /\ rest \in Seq(CallsOf("Visit") \cup {Return})
      BY <1>2, <2>1, HeadTailProperties
    <2>3. << >> \o rest = rest
      BY <2>2, ConcatEmptySeq
    <2> QED
      BY <1>8, <2>2, <2>3 DEF Shown
  <1>11. visited' = IF ShowsItself(c) THEN Append(visited, PlaceOf(c)) ELSE visited
    BY <1>7, <1>9 DEF Shown
  <1> QED
    BY <1>2, <1>4, <1>5, <1>10, <1>11, VisitKeeps

LEMMA VisitValueKeeps ==
    ASSUME IInv, VisitValue
    PROVE  IInv'
PROOF
  <1>1. UNCHANGED <<nodes, spans, base, by>>
    BY DEF VisitValue
  <1>2. PICK c \in NextCalls("visit_value") :
          \/ nodes[c.node].type = "Array" /\ Becomes(CallEach("visit_value", c.node))
          \/ nodes[c.node].type = "Object" /\ Becomes(CallEach("visit_key_value", c.node))
          \/ ~ IsContainer(c.node) /\ Shown("value", c.node)
    BY DEF VisitValue
  <1>3. agenda # << >> /\ c = Head(agenda) /\ c.routine = "visit_value" /\ c \in CallsOf("Visit")
    BY <1>2, Underway
  <1>4. PICK D \in SUBSET CallsOf("Visit") : Visiting(D)
    BY <1>2, Underway
  <1>5. CASE nodes[c.node].type \in {"Array", "Object"}
             /\ Becomes(CallEach(Routine("Visit", ElemPart(c.node)), c.node))
    <2>1. Makes("Visit", c) = CallEach(Routine("Visit", ElemPart(c.node)), c.node)
      BY <1>3 DEF Makes, Routine
    <2>2. ~ ShowsItself(c)
      BY <1>3, <1>5 DEF ShowsItself, IsContainer
    <2> QED
      BY <1>1, <1>3, <1>4, <1>5, <2>1, <2>2, VisitKeeps DEF Becomes
  <1>6. CASE ~ IsContainer(c.node) /\ Shown("value", c.node)
    <2>1. c \in NextCalls(Routine("Visit", "value"))
      BY <1>2 DEF Routine
    <2> QED
      BY <1>1, <1>6, <2>1, ShownKeeps
  <1>7. /\ nodes[c.node].type = "Array" => Routine("Visit", ElemPart(c.node)) = "visit_value"
        /\ nodes[c.node].type = "Object" => Routine("Visit", ElemPart(c.node)) = "visit_key_value"
    BY DEF Routine, ElemPart
  <1> QED
    BY <1>2, <1>5, <1>6, <1>7

LEMMA VisitKeyValueKeeps ==
    ASSUME IInv, VisitKeyValue
    PROVE  IInv'
PROOF
  <1>1. UNCHANGED <<nodes, spans, base, by>>
    BY DEF VisitKeyValue
  <1>2. PICK c \in NextCalls("visit_key_value") : Becomes(KeyValueVisits(c.node))
    BY DEF VisitKeyValue
  <1>3. agenda # << >> /\ c = Head(agenda) /\ c.routine = "visit_key_value" /\ c \in CallsOf("Visit")
    BY <1>2, Underway
  <1>4. PICK D \in SUBSET CallsOf("Visit") : Visiting(D)
    BY <1>2, Underway
  <1>5. Makes("Visit", c) = KeyValueVisits(c.node)
    BY <1>3 DEF Makes, Routine, PartCall, KeyValueVisits
  <1>6. ~ ShowsItself(c)
    BY <1>3 DEF ShowsItself
  <1> QED
    BY <1>1, <1>2, <1>3, <1>4, <1>5, <1>6, VisitKeeps DEF Becomes

LEMMA VisitKeyKeeps ==
    ASSUME IInv, VisitKey
    PROVE  IInv'
PROOF
  <1>1. UNCHANGED <<nodes, spans, base, by>>
    BY DEF VisitKey
  <1>2. PICK c \in NextCalls("visit_key") : Shown("key", c.node)
    BY DEF VisitKey
  <1>3. c \in NextCalls(Routine("Visit", "key"))
    BY <1>2 DEF Routine
  <1> QED
    BY <1>1, <1>2, <1>3, ShownKeeps

LEMMA StutterKeeps ==
    ASSUME IInv, UNCHANGED vars
    PROVE  IInv'
PROOF
  <1>1. UNCHANGED <<nodes, spans, base, agenda, by, visited>>
    BY DEF vars
  <1>2. CallsOf("Visit")' = CallsOf("Visit") /\ CallsOf("Offset")' = CallsOf("Offset")
    BY <1>1 DEF CallsOf, Paired
  <1>3. nodes' \in Values /\ Numbers'
    BY <1>1 DEF IInv, Numbers
  <1>4. \A mode, p : Makes(mode, p)' = Makes(mode, p)
    BY <1>1 DEF Makes, CallEach, ElemPart
  <1>5. ParsedSpans(nodes)' = ParsedSpans(nodes)
    BY <1>1 DEF ParsedSpans
  <1>6. \A D, part, n : MovedBy(D, part, n)' = MovedBy(D, part, n)
    BY <1>1 DEF MovedBy
  <1>7. ASSUME NEW D, Moved(D) PROVE Moved(D)'
    BY <1>1, <1>5, <1>6, <1>7 DEF Moved
  <1>8. ASSUME NEW D, NEW mode \in {"Offset", "Visit"}, Work(mode, D) PROVE Work(mode, D)'
    <2>1. PICK todo : todo = agenda
      OBVIOUS
    <2>2. Tidy(mode, D, todo) /\ agenda' = todo
      BY <1>1, <1>8, <2>1 DEF Work
    <2> QED
      BY <1>1, <2>2, WorkLater
  <1>9. CASE Idle
    <2>1. PICK none : none = {}
      OBVIOUS
    <2>2. Moved(none)'
      BY <1>7, <1>9, <2>1 DEF Idle
    <2> QED
      BY <1>1, <1>3, <1>9, <2>1, <2>2 DEF Idle, IInv
  <1>10. CASE \E D \in SUBSET CallsOf("Offset") : Offsetting(D)
    <2>1. PICK D \in SUBSET CallsOf("Offset") : Offsetting(D)
      BY <1>10
    <2>2. Work("Offset", D)' /\ Moved(D)'
      BY <1>7, <1>8, <2>1 DEF Offsetting
    <2>3. Room(D)'
      BY <1>1, <2>1 DEF Offsetting, Room, Root
    <2>4. Offsetting(D)'
      BY <1>1, <2>1, <2>2, <2>3 DEF Offsetting, Return
    <2> QED
      BY <1>2, <1>3, <2>4 DEF IInv
  <1>11. CASE \E D \in SUBSET CallsOf("Visit") : Visiting(D)
    <2>1. PICK D \in SUBSET CallsOf("Visit") : Visiting(D)
      BY <1>11
    <2>2. Work("Visit", D)' /\ Moved({})'
      BY <1>1, <1>8, <2>1, MovedStays DEF Visiting
    <2>3. InOrder(D, agenda, visited)'
      <3>1. PICK todo, seen : todo = agenda /\ seen = visited
        OBVIOUS
      <3>2. InOrder(D, todo, seen) /\ agenda' = todo /\ visited' = seen
        BY <1>1, <2>1, <3>1 DEF Visiting
      <3> QED
        BY <1>1, <3>2, InOrderLater
    <2>4. Visiting(D)'
      BY <1>1, <2>1, <2>2, <2>3 DEF Visiting, Pending, InAgenda, Return
    <2> QED
      BY <1>2, <1>3, <2>4 DEF IInv
  <1> QED
    BY <1>9, <1>10, <1>11 DEF IInv

(* The inductive invariant: a call of offset or of the visitor made every   *)
(* call that its agenda does not hold any more, and those only.             *)
THEOREM Calling == Spec => []IInv
PROOF
  <1>1. Init => IInv
    BY InitInv
  <1>2. IInv /\ [Next]_vars => IInv'
    BY CallOffsetKeeps, OffsetStepKeeps, OffsetReturnsKeeps, CallVisitorKeeps,
       VisitValueKeeps, VisitKeyValueKeeps, VisitKeyKeeps, StutterKeeps DEF Next
  <1> QED
    BY <1>1, <1>2, PTL DEF Spec

(* JsonValue::offset moves every part of a value of any size and depth by   *)
(* the same distance, or panics before it moved any: no part is moved twice *)
(* and none is left where it was.                                           *)
THEOREM OffsetMovesEveryPart == Spec => []NamesSource
PROOF
  <1>1. IInv => NamesSource
    <2> SUFFICES ASSUME IInv, agenda = << >>, NEW part \in Parts, NEW n \in DOMAIN nodes
                 PROVE  spans[part][n] = {i + base : i \in ParsedSpans(nodes)[part][n]}
      BY DEF NamesSource
    <2>1. PICK none : none = {} /\ Moved(none)
      BY AtRest
    <2>2. spans[part][n] = Shifted(ParsedSpans(nodes)[part][n], MovedBy(none, part, n))
      BY <2>1 DEF Moved
    <2>3. MovedBy(none, part, n) = base
      BY <2>1 DEF MovedBy
    <2> QED
      BY <2>2, <2>3 DEF Shifted
  <1> QED
    BY <1>1, Calling, PTL

LEMMA CallsOfNodes ==
    ASSUME NEW S, IsFiniteSet(S), NEW part \in Parts, NEW T, T = {PartCall("Visit", part, n) : n \in S}
    PROVE  IsFiniteSet(T) /\ Cardinality(T) = Cardinality(S)
PROOF
  <1> DEFINE call == [n \in S |-> PartCall("Visit", part, n)]
  <1>1. \A n, m \in S : call[n] = call[m] => n = m
    BY CallFields DEF Modes
  <1>2. call \in [S -> T] /\ \A c \in T : \E n \in S : call[n] = c
    OBVIOUS
  <1>3. call \in Bijection(S, T)
    BY <1>1, <1>2, Fun_IsBij
  <1>4. ExistsBijection(S, T)
    BY <1>3 DEF ExistsBijection
  <1> QED
    BY <1>4, FS_Bijection

(* What a traversal has shown at its end. *)
LEMMA AllShown ==
    ASSUME nodes \in Values, base \in Nat, NEW D, Visiting(D), agenda = << >>
    PROVE  /\ Len(visited) = Cardinality({n \in DOMAIN nodes : ~ IsContainer(n)})
                               + Cardinality({n \in DOMAIN nodes : nodes[n].pair # {}})
           /\ \A n \in DOMAIN nodes :
                 /\ IsContainer(n) \/ Shows(Shifted(nodes[n].span, base))
                 /\ nodes[n].pair = {} \/ Shows(Shifted(nodes[n].keySpan, base))
PROOF
  <1>1. "Visit" \in Modes /\ {"value", "key", "pair"} \subseteq Parts
    BY DEF Modes, Parts
  <1>2. D = CallsOf("Visit")
    <2>1. Pending = {}
      BY DEF Pending, InAgenda
    <2> QED
      BY <1>1, <2>1, WorkDone DEF Visiting
  <1>3. PICK literals, keys : /\ literals = {n \in DOMAIN nodes : ~ IsContainer(n)}
                              /\ keys = {n \in DOMAIN nodes : nodes[n].pair # {}}
    OBVIOUS
  <1>4. PICK A, B : /\ A = {PartCall("Visit", "value", n) : n \in literals}
                    /\ B = {PartCall("Visit", "key", n) : n \in keys}
    OBVIOUS
  <1>5. /\ \A n : ShowsItself(PartCall("Visit", "value", n)) <=> ~ IsContainer(n)
        /\ \A n : ShowsItself(PartCall("Visit", "key", n))
        /\ \A n : ~ ShowsItself(PartCall("Visit", "pair", n))
    <2>1. \A part, n : /\ PartCall("Visit", part, n).routine = Routine("Visit", part)
                       /\ PartCall("Visit", part, n).node = n
      BY <1>1, CallFields
    <2>2. /\ Routine("Visit", "value") = "visit_value" /\ Routine("Visit", "key") = "visit_key"
          /\ Routine("Visit", "pair") = "visit_key_value"
      BY DEF Routine
    <2> QED
      BY <2>1, <2>2 DEF ShowsItself
  <1>6. ShownBy(D) = A \cup B
    BY <1>2, <1>3, <1>4, <1>5 DEF ShownBy, CallsOf, Paired
  <1>7. A \cap B = {}
    BY <1>1, <1>4, CallFields
  <1>8. IsFiniteSet(literals) /\ IsFiniteSet(keys)
    <2>1. PICK N \in Nat : DOMAIN nodes = 1 .. N
      BY TreeFacts
    <2>2. IsFiniteSet(1 .. N)
      BY FS_Interval
    <2>3. literals \subseteq 1 .. N /\ keys \subseteq 1 .. N
      BY <1>3, <2>1
    <2> QED
      BY <2>2, <2>3, FS_Subset
  <1>9. /\ IsFiniteSet(A) /\ Cardinality(A) = Cardinality(literals)
        /\ IsFiniteSet(B) /\ Cardinality(B) = Cardinality(keys)
    BY <1>1, <1>4, <1>8, CallsOfNodes
  <1>10. Cardinality(A \cup B) = Cardinality(A) + Cardinality(B)
    <2>1. Cardinality(A \cup B) = Cardinality(A) + Cardinality(B) - Cardinality(A \cap B)
      BY <1>9, FS_Union
    <2>2. Cardinality(A \cap B) = 0
      BY <1>7, FS_EmptySet
    <2>3. Cardinality(A) \in Nat /\ Cardinality(B) \in Nat
      BY <1>9, FS_CardinalityType
    <2> QED
      BY <2>1, <2>2, <2>3
  <1>11. Len(visited) = Cardinality(literals) + Cardinality(keys)
    <2>1. Len(visited) = Cardinality(ShownBy(D))
      BY DEF Visiting, InOrder
    <2> QED
      BY <1>6, <1>9, <1>10, <2>1
  <1>12. \A c \in ShownBy(D) : Shows(PlaceOf(c))
    BY DEF Visiting, InOrder, Shows
  <1>13. ASSUME NEW n \in DOMAIN nodes
         PROVE  /\ IsContainer(n) \/ Shows(Shifted(nodes[n].span, base))
                /\ nodes[n].pair = {} \/ Shows(Shifted(nodes[n].keySpan, base))
    <2>1. ASSUME ~ IsContainer(n) PROVE Shows(Shifted(nodes[n].span, base))
      <3>1. PICK c : c = PartCall("Visit", "value", n) /\ c \in ShownBy(D)
        BY <1>3, <1>4, <1>6, <2>1
      <3>2. PlaceOf(c) = Shifted(nodes[n].span, base)
        BY <1>1, <3>1, PlaceOfPart, PartOfExtent DEF PlaceOf
      <3> QED
        BY <1>12, <3>1, <3>2
    <2>2. ASSUME nodes[n].pair # {} PROVE Shows(Shifted(nodes[n].keySpan, base))
      <3>1. PICK c : c = PartCall("Visit", "key", n) /\ c \in ShownBy(D)
        BY <1>3, <1>4, <1>6, <2>2
      <3>2. PlaceOf(c) = Shifted(nodes[n].keySpan, base)
        BY <1>1, <3>1, PlaceOfPart, PartOfExtent DEF PlaceOf
      <3> QED
        BY <1>12, <3>1, <3>2
    <2> QED
      BY <2>1, <2>2
  <1> QED
    BY <1>3, <1>11, <1>13

(* A traversal shows the visitor every key and every literal of a value of  *)
(* any size and depth once, where it is after all shifts, in the order of   *)
(* the source.                                                              *)
THEOREM VisitorSeesAllInOrder == Spec => []VisitsInOrder
PROOF
  <1>1. IInv => VisitsInOrder
    <2> SUFFICES ASSUME IInv PROVE VisitsInOrder
      OBVIOUS
    <2>1. CASE visited = << >>
      <3>1. DOMAIN visited = {}
        BY <2>1
      <3> QED
        BY <2>1, <3>1 DEF VisitsInOrder
    <2>2. CASE \E D \in SUBSET CallsOf("Visit") : Visiting(D)
      <3>1. PICK D : Visiting(D)
        BY <2>2
      <3>2. \A k, l \in DOMAIN visited : k < l => Before(visited[k], visited[l])
        BY <3>1 DEF Visiting, InOrder
      <3>3. ASSUME agenda = << >>
            PROVE  /\ Len(visited) = Cardinality({n \in DOMAIN nodes : ~ IsContainer(n)})
                                       + Cardinality({n \in DOMAIN nodes : nodes[n].pair # {}})
                   /\ \A n \in DOMAIN nodes :
                         /\ IsContainer(n) \/ Shows(Shifted(nodes[n].span, base))
                         /\ nodes[n].pair = {} \/ Shows(Shifted(nodes[n].keySpan, base))
        BY <3>1, <3>3, AllShown DEF IInv, Numbers
      <3> QED
        BY <3>2, <3>3 DEF VisitsInOrder, Shifted
    <2> QED
      BY <2>1, <2>2 DEF IInv, Idle, Offsetting
  <1> QED
    BY <1>1, Calling, PTL
-------------------------------------------------------------------------------
(* Lookup by path.  What one node makes of the contexts of the others, as   *)
(* in ContextOf.                                                            *)
ContextAt(context, n) ==
    CASE nodes[n].type = "Object" ->
           [is |-> "Object",
            members |-> [key \in Keys(nodes, n) |->
                           context[nodes[n].elems[Inserted(nodes, n, key)]]]]
      [] nodes[n].type = "Array" ->
           [is |-> "Array",
            elems |-> [k \in DOMAIN nodes[n].elems |-> context[nodes[n].elems[k]]]]
      [] OTHER -> LiteralContext(nodes[n])

AreContexts(context) == context = [n \in DOMAIN nodes |-> ContextAt(context, n)]

Contexts == CHOOSE context : AreContexts(context)

(* The last pair with a key is one of the elements, and has the key. *)
LEMMA LastPlace ==
    ASSUME nodes \in Values, NEW n \in DOMAIN nodes, NEW key \in Keys(nodes, n)
    PROVE  Inserted(nodes, n, key) \in Places(nodes, n, key)
PROOF
  <1>1. PICK N \in Nat : DOMAIN nodes = 1 .. N /\ nodes[n].elems \in Seq(n + 1 .. N)
    BY TreeFacts
  <1>2. PICK L \in Nat : DOMAIN nodes[n].elems = 1 .. L
    BY <1>1, LenProperties
  <1>3. PICK P : P = Places(nodes, n, key)
    OBVIOUS
  <1>4. P \subseteq 1 .. L /\ P # {}
    BY <1>2, <1>3 DEF Places, Keys
  <1> DEFINE S == {L - k : k \in P}
  <1>5. S \in SUBSET Nat /\ S # {}
    BY <1>4
  <1>6. PICK m \in S : \A j \in S : m <= j
    BY <1>5, LeastNode
  <1>7. PICK k \in P : m = L - k
    BY <1>6
  <1>8. \A j \in P : j <= k
    <2> SUFFICES ASSUME NEW j \in P PROVE j <= k
      OBVIOUS
    <2>1. m <= L - j
      BY <1>6
    <2> QED
      BY <1>4, <1>7, <2>1
  <1>9. Inserted(nodes, n, key) = CHOOSE i \in P : \A j \in P : j <= i
    BY <1>3 DEF Inserted
  <1> QED
    BY <1>3, <1>7, <1>8, <1>9

(* A node is told by its elements, which are behind it. *)
LEMMA ContextOfElements ==
    ASSUME nodes \in Values, NEW n \in DOMAIN nodes, NEW f, NEW g,
           \A m \in DOMAIN nodes : n < m => f[m] = g[m]
    PROVE  ContextAt(f, n) = ContextAt(g, n)
PROOF
  <1>1. \A k \in DOMAIN nodes[n].elems : f[nodes[n].elems[k]] = g[nodes[n].elems[k]]
    <2> SUFFICES ASSUME NEW k \in DOMAIN nodes[n].elems
                 PROVE  f[nodes[n].elems[k]] = g[nodes[n].elems[k]]
      OBVIOUS
    <2>1. PICK m : m = nodes[n].elems[k]
      OBVIOUS
    <2>2. m \in DOMAIN nodes /\ n < m
      BY <2>1, ElemFacts
    <2> QED
      BY <2>1, <2>2
  <1>2. \A key \in Keys(nodes, n) : Inserted(nodes, n, key) \in DOMAIN nodes[n].elems
    BY LastPlace DEF Places
  <1>3. [key \in Keys(nodes, n) |-> f[nodes[n].elems[Inserted(nodes, n, key)]]]
          = [key \in Keys(nodes, n) |-> g[nodes[n].elems[Inserted(nodes, n, key)]]]
    BY <1>1, <1>2
  <1>4. [k \in DOMAIN nodes[n].elems |-> f[nodes[n].elems[k]]]
          = [k \in DOMAIN nodes[n].elems |-> g[nodes[n].elems[k]]]
    BY <1>1
  <1> QED
    BY <1>3, <1>4 DEF ContextAt

(* ... so that there are contexts of all nodes, the last one first. *)
LEMMA ContextsExist ==
    ASSUME nodes \in Values
    PROVE  AreContexts(Contexts)
PROOF
  <1>1. PICK N \in Nat : DOMAIN nodes = 1 .. N
    BY TreeFacts
  <1> DEFINE From(j, f) == /\ f = [n \in 1 .. N |-> f[n]]
                           /\ \A n \in 1 .. N : N < n + j => f[n] = ContextAt(f, n)
             Missing == {j \in 0 .. N : \A f : ~ From(j, f)}
  <1>2. CASE Missing = {}
    <2>1. PICK f : From(N, f)
      BY <1>2
    <2>2. \A n \in 1 .. N : f[n] = ContextAt(f, n)
      BY <2>1
    <2>3. f = [n \in 1 .. N |-> ContextAt(f, n)]
      BY <2>1, <2>2, Zenon
    <2>4. AreContexts(f)
      BY <1>1, <2>3 DEF AreContexts
    <2> QED
      BY <2>4 DEF Contexts
  <1>3. CASE Missing # {}
    <2>0. Missing \in SUBSET Nat
      OBVIOUS
    <2>1. PICK j \in Missing : \A i \in Missing : j <= i
      <3> HIDE DEF Missing
      <3> QED
        BY <1>3, <2>0, LeastNode
    <2>2. j # 0
      <3>1. From(0, [n \in 1 .. N |-> 0])
        OBVIOUS
      <3> QED
        BY <2>1, <3>1
    <2>3. PICK f : From(j - 1, f)
      <3>1. j \in 1 .. N
        BY <2>1, <2>2
      <3>2. j - 1 \in 0 .. N
        BY <3>1
      <3>3. j - 1 \notin Missing
        <4> HIDE DEF Missing
        <4> QED
          BY <2>1, <3>1
      <3> QED
        BY <3>2, <3>3
    <2>4. PICK p : p = N + 1 - j /\ p \in 1 .. N
      BY <2>1, <2>2
    <2> DEFINE g == [f EXCEPT ![p] = ContextAt(f, p)]
    <2>5. \A n \in 1 .. N : g[n] = IF n = p THEN ContextAt(f, p) ELSE f[n]
      BY <2>3
    <2>6. g = [n \in 1 .. N |-> g[n]]
      BY <2>3
    <2>7. ASSUME NEW n \in 1 .. N, N < n + j PROVE g[n] = ContextAt(g, n)
      <3>1. p <= n
        BY <2>1, <2>4, <2>7
      <3>2. \A m \in DOMAIN nodes : n < m => f[m] = g[m]
        BY <1>1, <2>4, <2>5, <3>1
      <3>3. ContextAt(f, n) = ContextAt(g, n)
        BY <1>1, <3>2, ContextOfElements
      <3>4. g[n] = ContextAt(f, n)
        <4>1. CASE n = p
          BY <2>5, <4>1
        <4>2. CASE n # p
          <5>1. N < n + (j - 1)
            BY <2>1, <2>4, <3>1, <4>2
          <5> QED
            BY <2>3, <2>5, <4>2, <5>1
        <4> QED
          BY <4>1, <4>2
      <3> QED
        BY <3>3, <3>4
    <2>8. From(j, g)
      BY <2>6, <2>7, Zenon
    <2> QED
      BY <2>1, <2>8
  <1> QED
    BY <1>2, <1>3

LEMMA ContextOfRoot ==
    ContextOf(nodes) = Contexts[1]
PROOF
  BY Zenon DEF ContextOf, Contexts, AreContexts, ContextAt

LEMMA ContextFacts ==
    ASSUME nodes \in Values, NEW n \in DOMAIN nodes
    PROVE  Contexts[n] = ContextAt(Contexts, n)
PROOF
  BY ContextsExist DEF AreContexts

(* The steps that Get and Told take along a path. *)
Start(way) == IF way = "Get" THEN {1} ELSE {ContextOf(nodes)}
Onward(way, found, step) ==
    IF way = "Get" THEN UNION {Element(n, step) : n \in found}
    ELSE UNION {Members(c, step) : c \in found}

IsWalk(way, path, f) ==
    f = [k \in 0 .. Len(path) |-> IF k = 0 THEN Start(way) ELSE Onward(way, f[k - 1], path[k])]

LEMMA WalkExists ==
    ASSUME NEW way, NEW path, Len(path) \in Nat
    PROVE  \E f : IsWalk(way, path, f)
PROOF
  <1>1. PICK L \in Nat : L = Len(path)
    OBVIOUS
  <1> DEFINE UpTo(j, f) ==
               f = [k \in 0 .. j |-> IF k = 0 THEN Start(way) ELSE Onward(way, f[k - 1], path[k])]
             Missing == {j \in 0 .. L : \A f : ~ UpTo(j, f)}
  <1>2. CASE Missing = {}
    BY <1>1, <1>2 DEF IsWalk
  <1>3. CASE Missing # {}
    <2>0. Missing \in SUBSET Nat
      OBVIOUS
    <2>1. PICK j \in Missing : \A i \in Missing : j <= i
      <3> HIDE DEF Missing
      <3> QED
        BY <1>3, <2>0, LeastNode
    <2>2. j # 0
      <3>1. UpTo(0, [k \in 0 .. 0 |-> Start(way)])
        OBVIOUS
      <3> QED
        BY <2>1, <3>1
    <2>3. PICK f : UpTo(j - 1, f)
      <3>1. j \in 1 .. L
        BY <2>1, <2>2
      <3>2. j - 1 \in 0 .. L
        BY <3>1
      <3>3. j - 1 \notin Missing
        <4> HIDE DEF Missing
        <4> QED
          BY <2>1, <3>1
      <3> QED
        BY <3>2, <3>3
    <2> DEFINE g == [k \in 0 .. j |-> IF k = j THEN Onward(way, f[j - 1], path[j]) ELSE f[k]]
    <2>4. ASSUME NEW k \in 0 .. j
          PROVE  g[k] = IF k = 0 THEN Start(way) ELSE Onward(way, g[k - 1], path[k])
      <3>1. CASE k = j
        <4>1. g[k - 1] = f[j - 1]
          BY <2>1, <2>2, <3>1
        <4> QED
          BY <2>2, <3>1, <4>1
      <3>2. CASE k # j
        <4>1. k \in 0 .. j - 1 /\ g[k] = f[k]
          BY <2>1, <3>2
        <4>2. f[k] = IF k = 0 THEN Start(way) ELSE Onward(way, f[k - 1], path[k])
          BY <2>3, <4>1
        <4>3. k # 0 => g[k - 1] = f[k - 1]
          BY <2>1, <3>2
        <4> QED
          BY <4>1, <4>2, <4>3
      <3> QED
        BY <3>1, <3>2
    <2>5. UpTo(j, g)
      <3>1. g = [k \in 0 .. j |-> g[k]]
        OBVIOUS
      <3> HIDE DEF g
      <3> QED
        BY <2>4, <3>1
    <2> QED
      BY <2>1, <2>5
  <1> QED
    BY <1>2, <1>3

LEMMA OnwardOf ==
    ASSUME NEW found, NEW step
    PROVE  /\ Onward("Get", found, step) = UNION {Element(n, step) : n \in found}
           /\ Onward("Told", found, step) = UNION {Members(c, step) : c \in found}
PROOF
  BY DEF Onward

LEMMA OnwardOne ==
    ASSUME NEW x, NEW step
    PROVE  /\ Onward("Get", {x}, step) = Element(x, step)
           /\ Onward("Told", {x}, step) = Members(x, step)
PROOF
  <1>1. PICK E, M : E = Element(x, step) /\ M = Members(x, step)
    OBVIOUS
  <1>2. {Element(n, step) : n \in {x}} = {E} /\ {Members(c, step) : c \in {x}} = {M}
    BY <1>1
  <1>3. UNION {E} = E /\ UNION {M} = M
    OBVIOUS
  <1>4. /\ Onward("Get", {x}, step) = UNION {Element(n, step) : n \in {x}}
        /\ Onward("Told", {x}, step) = UNION {Members(c, step) : c \in {x}}
    BY OnwardOf, Zenon
  <1> QED
    BY <1>1, <1>2, <1>3, <1>4, Zenon

Walk(way, path) == CHOOSE f : IsWalk(way, path, f)

LEMMA WalkFacts ==
    ASSUME NEW way, NEW path, Len(path) \in Nat
    PROVE  /\ Walk(way, path)[0] = Start(way)
           /\ \A k \in 1 .. Len(path) :
                 Walk(way, path)[k] = Onward(way, Walk(way, path)[k - 1], path[k])
PROOF
  <1>1. PICK w : w = Walk(way, path) /\ IsWalk(way, path, w)
    BY WalkExists DEF Walk
  <1>2. w = [k \in 0 .. Len(path) |-> IF k = 0 THEN Start(way) ELSE Onward(way, w[k - 1], path[k])]
    BY <1>1 DEF IsWalk
  <1>3. w[0] = Start(way)
    BY <1>2
  <1>4. \A k \in 1 .. Len(path) : w[k] = Onward(way, w[k - 1], path[k])
    BY <1>2
  <1> QED
    BY <1>1, <1>3, <1>4

(* Two walks along paths that begin alike begin alike. *)
Walks(way, path, f, L) ==
    /\ f[0] = Start(way)
    /\ \A k \in 1 .. L : f[k] = Onward(way, f[k - 1], path[k])

LEMMA WalksAgree ==
    ASSUME NEW way, NEW path, NEW longer, NEW f, NEW g, NEW L \in Nat,
           Walks(way, path, f, L), Walks(way, longer, g, L),
           \A k \in 1 .. L : path[k] = longer[k]
    PROVE  f[L] = g[L]
PROOF
  <1> DEFINE Differ == {k \in 0 .. L : f[k] # g[k]}
  <1>1. CASE Differ = {}
    <2>1. L \in 0 .. L /\ L \notin Differ
      BY <1>1
    <2> QED
      BY <2>1
  <1>2. CASE Differ # {}
    <2>0. Differ \in SUBSET Nat
      OBVIOUS
    <2>1. PICK k \in Differ : \A j \in Differ : k <= j
      <3> HIDE DEF Differ
      <3> QED
        BY <1>2, <2>0, LeastNode
    <2>2. k # 0
      BY <2>1 DEF Walks
    <2>3. k - 1 \in 0 .. L /\ k - 1 \notin Differ /\ k \in 1 .. L
      BY <2>1, <2>2
    <2>4. f[k - 1] = g[k - 1]
      BY <2>3
    <2>5. f[k] = Onward(way, f[k - 1], path[k]) /\ g[k] = Onward(way, g[k - 1], longer[k])
      BY <2>3 DEF Walks
    <2> QED
      BY <2>1, <2>3, <2>4, <2>5
  <1> QED
    BY <1>1, <1>2

IsFound(path, f) ==
    f = [k \in 0 .. Len(path) |->
            IF k = 0 THEN {1} ELSE UNION {Element(n, path[k]) : n \in f[k - 1]}]

LEMMA GetIsWalk ==
    ASSUME NEW path, Len(path) \in Nat
    PROVE  Get(path) = Walk("Get", path)[Len(path)]
PROOF
  <1>1. \A f : IsFound(path, f) <=> IsWalk("Get", path, f)
    BY DEF IsFound, IsWalk, Start, Onward
  <1>2. PICK f : f = (CHOOSE g : IsFound(path, g)) /\ IsFound(path, f)
    BY <1>1, WalkExists
  <1>3. Get(path) = (CHOOSE g : IsFound(path, g))[Len(path)]
    BY Zenon DEF Get, IsFound
  <1>4. f = [k \in 0 .. Len(path) |-> IF k = 0 THEN Start("Get") ELSE Onward("Get", f[k - 1], path[k])]
    BY <1>1, <1>2 DEF IsWalk
  <1>5. /\ f[0] = Start("Get")
        /\ \A k \in 1 .. Len(path) : f[k] = Onward("Get", f[k - 1], path[k])
    BY <1>4
  <1>6. f[Len(path)] = Walk("Get", path)[Len(path)]
    <2>1. PICK w, L : w = Walk("Get", path) /\ L = Len(path) /\ L \in Nat
      OBVIOUS
    <2>2. Walks("Get", path, w, L)
      BY <2>1, WalkFacts DEF Walks
    <2>3. Walks("Get", path, f, L)
      BY <1>5, <2>1 DEF Walks
    <2>4. f[L] = w[L]
      BY <2>1, <2>2, <2>3, WalksAgree
    <2> QED
      BY <2>1, <2>4
  <1> QED
    BY <1>2, <1>3, <1>6

IsTold(path, f) ==
    f = [k \in 0 .. Len(path) |->
            IF k = 0 THEN {ContextOf(nodes)} ELSE UNION {Members(c, path[k]) : c \in f[k - 1]}]

LEMMA ToldIsWalk ==
    ASSUME NEW path, Len(path) \in Nat
    PROVE  Told(path) = Walk("Told", path)[Len(path)]
PROOF
  <1>1. \A f : IsTold(path, f) <=> IsWalk("Told", path, f)
    BY DEF IsTold, IsWalk, Start, Onward
  <1>2. PICK f : f = (CHOOSE g : IsTold(path, g)) /\ IsTold(path, f)
    BY <1>1, WalkExists
  <1>3. Told(path) = (CHOOSE g : IsTold(path, g))[Len(path)]
    BY Zenon DEF Told, IsTold
  <1>4. f = [k \in 0 .. Len(path) |-> IF k = 0 THEN Start("Told") ELSE Onward("Told", f[k - 1], path[k])]
    BY <1>1, <1>2 DEF IsWalk
  <1>5. /\ f[0] = Start("Told")
        /\ \A k \in 1 .. Len(path) : f[k] = Onward("Told", f[k - 1], path[k])
    BY <1>4
  <1>6. f[Len(path)] = Walk("Told", path)[Len(path)]
    <2>1. PICK w, L : w = Walk("Told", path) /\ L = Len(path) /\ L \in Nat
      OBVIOUS
    <2>2. Walks("Told", path, w, L)
      BY <2>1, WalkFacts DEF Walks
    <2>3. Walks("Told", path, f, L)
      BY <1>5, <2>1 DEF Walks
    <2>4. f[L] = w[L]
      BY <2>1, <2>2, <2>3, WalksAgree
    <2> QED
      BY <2>1, <2>4
  <1> QED
    BY <1>2, <1>3, <1>6

(* The first of the pairs with a key. *)
LEMMA FirstPair ==
    ASSUME nodes \in Values, NEW n \in DOMAIN nodes, NEW key
    PROVE  IF Places(nodes, n, key) = {} THEN PairWithKey(n, key) = {}
           ELSE \E k \in Places(nodes, n, key) : PairWithKey(n, key) = {nodes[n].elems[k]}
PROOF
  <1>1. PICK N \in Nat : DOMAIN nodes = 1 .. N /\ nodes[n].elems \in Seq(n + 1 .. N)
    BY TreeFacts
  <1>2. PICK P : P = Places(nodes, n, key) /\ P \in SUBSET Nat
    <2>1. PICK elems, S : elems = nodes[n].elems /\ S = n + 1 .. N
      OBVIOUS
    <2>2. elems \in Seq(S)
      BY <1>1, <2>1
    <2>3. DOMAIN elems = 1 .. Len(elems)
      BY <2>2, LenProperties
    <2>4. Places(nodes, n, key) \in SUBSET Nat
      BY <2>1, <2>3 DEF Places
    <2> QED
      BY <2>4
  <1>3. CASE P = {}
    BY <1>2, <1>3 DEF PairWithKey
  <1>4. CASE P # {}
    <2>1. PICK k \in P : \A j \in P : k <= j
      BY <1>2, <1>4, LeastNode
    <2>2. {j \in P : \A i \in P : j <= i} = {k}
      <3>1. ASSUME NEW j \in P, \A i \in P : j <= i PROVE j = k
        BY <1>2, <2>1, <3>1
      <3> QED
        BY <2>1, <3>1
    <2>3. PairWithKey(n, key) = {nodes[n].elems[k]}
      BY <1>2, <2>2 DEF PairWithKey
    <2> QED
      BY <1>2, <1>4, <2>1, <2>3
  <1> QED
    BY <1>2, <1>3, <1>4

(* One step leads to at most one node, and to that of a pair from objects   *)
(* only.                                                                    *)
LEMMA ElementIsOne ==
    ASSUME nodes \in Values, NEW n \in DOMAIN nodes, NEW step
    PROVE  /\ \/ Element(n, step) = {}
              \/ \E k \in DOMAIN nodes[n].elems : Element(n, step) = {nodes[n].elems[k]}
           /\ \A m \in Element(n, step) :
                 m \in DOMAIN nodes /\ (nodes[m].pair # {} <=> nodes[n].type = "Object")
PROOF
  <1>1. \/ Element(n, step) = {}
        \/ \E k \in DOMAIN nodes[n].elems : Element(n, step) = {nodes[n].elems[k]}
    <2>1. CASE nodes[n].type = "Object"
      <3>1. Element(n, step) = PairWithKey(n, step)
        BY <2>1 DEF Element
      <3>2. Places(nodes, n, step) \subseteq DOMAIN nodes[n].elems
        BY DEF Places
      <3> QED
        BY <3>1, <3>2, FirstPair
    <2>2. CASE nodes[n].type = "Array"
      <3>1. PICK N \in Nat : nodes[n].elems \in Seq(n + 1 .. N)
        BY TreeFacts
      <3>2. PICK K : K = DOMAIN nodes[n].elems /\ K \subseteq Nat
        BY <3>1, LenProperties
      <3>3. Element(n, step) = {nodes[n].elems[k] :
                k \in {j \in K : step \in DOMAIN IndexOf /\ IndexOf[step] = j - 1}}
        BY <2>2, <3>2 DEF Element
      <3>4. CASE \E k \in K : step \in DOMAIN IndexOf /\ IndexOf[step] = k - 1
        <4>1. PICK k \in K : step \in DOMAIN IndexOf /\ IndexOf[step] = k - 1
          BY <3>4
        <4>2. {j \in K : step \in DOMAIN IndexOf /\ IndexOf[step] = j - 1} = {k}
          BY <3>2, <4>1
        <4>3. Element(n, step) = {nodes[n].elems[k]}
          BY <3>3, <4>2
        <4> QED
          BY <3>2, <4>1, <4>3
      <3>5. CASE ~ \E k \in K : step \in DOMAIN IndexOf /\ IndexOf[step] = k - 1
        BY <3>3, <3>5
      <3> QED
        BY <3>4, <3>5
    <2>3. CASE ~ nodes[n].type \in {"Object", "Array"}
      BY <2>3 DEF Element
    <2> QED
      BY <2>1, <2>2, <2>3
  <1>2. ASSUME NEW m \in Element(n, step)
        PROVE  m \in DOMAIN nodes /\ (nodes[m].pair # {} <=> nodes[n].type = "Object")
    <2>1. PICK k \in DOMAIN nodes[n].elems : m = nodes[n].elems[k]
      BY <1>1, <1>2
    <2>2. /\ m \in DOMAIN nodes
          /\ nodes[n].type = "Object" => InPair(nodes[m])
          /\ nodes[n].type # "Object" => Alone(nodes[m])
      BY <2>1, ElemFacts
    <2> QED
      BY <2>2 DEF InPair, Alone
  <1> QED
    BY <1>1, <1>2

(* With no key twice, there is one pair of each key. *)
LEMMA OnePlace ==
    ASSUME nodes \in Values, KeysDiffer, NEW n \in DOMAIN nodes, nodes[n].type = "Object",
           NEW key, NEW k \in Places(nodes, n, key)
    PROVE  Places(nodes, n, key) = {k}
PROOF
  <1>1. PICK N \in Nat : nodes[n].elems \in Seq(n + 1 .. N)
    BY TreeFacts
  <1>2. PICK L \in Nat : L = Len(nodes[n].elems) /\ DOMAIN nodes[n].elems = 1 .. L
    BY <1>1, LenProperties
  <1>3. PICK f : f = [j \in 1 .. L |-> nodes[nodes[n].elems[j]].key]
    OBVIOUS
  <1>4. PICK T : T = Keys(nodes, n) /\ Cardinality(T) = L
    BY <1>2 DEF KeysDiffer
  <1>5. f \in Surjection(1 .. L, T)
    <2>1. T = {f[j] : j \in 1 .. L}
      BY <1>2, <1>3, <1>4 DEF Keys
    <2>2. f \in [1 .. L -> T]
      BY <1>3, <2>1
    <2> QED
      BY <2>1, <2>2 DEF Surjection
  <1>6. IsFiniteSet(1 .. L) /\ Cardinality(1 .. L) = L
    <2>1. 1 \in Int /\ L \in Int
      OBVIOUS
    <2> QED
      BY <2>1, FS_Interval
  <1>7. f \in Injection(1 .. L, T)
    <2>1. PICK S : S = 1 .. L
      OBVIOUS
    <2>2. IsFiniteSet(S) /\ Cardinality(S) = Cardinality(T) /\ f \in Surjection(S, T)
      BY <1>4, <1>5, <1>6, <2>1
    <2>3. f \in Injection(S, T)
      BY <2>2, FS_SurjSameCardinalityImpliesInj, Zenon
    <2> QED
      BY <2>1, <2>3, Zenon
  <1>8. \A i, j \in 1 .. L : f[i] = f[j] => i = j
    BY <1>7 DEF Injection, IsInjective
  <1>9. \A j \in Places(nodes, n, key) : j \in 1 .. L /\ f[j] = key
    BY <1>2, <1>3 DEF Places
  <1> QED
    BY <1>8, <1>9

(* What the context says one step further. *)
LEMMA StepAgrees ==
    ASSUME nodes \in Values, KeysDiffer, NEW n \in DOMAIN nodes, NEW step
    PROVE  \/ Element(n, step) = {} /\ Members(Contexts[n], step) = {}
           \/ \E m \in DOMAIN nodes :
                 Element(n, step) = {m} /\ Members(Contexts[n], step) = {Contexts[m]}
PROOF
  <1>1. PICK c : c = Contexts[n] /\ c = ContextAt(Contexts, n)
    BY ContextFacts
  <1>2. CASE nodes[n].type = "Object"
    <2>1. /\ c.is = "Object" /\ DOMAIN c.members = Keys(nodes, n)
          /\ \A key \in Keys(nodes, n) :
                c.members[key] = Contexts[nodes[n].elems[Inserted(nodes, n, key)]]
      BY <1>1, <1>2 DEF ContextAt
    <2>2. Element(n, step) = PairWithKey(n, step)
      BY <1>2 DEF Element
    <2>3. CASE Places(nodes, n, step) = {}
      <3>1. step \notin Keys(nodes, n)
        BY <2>3 DEF Places, Keys
      <3>2. Members(c, step) = {}
        BY <2>1, <3>1 DEF Members
      <3>3. Element(n, step) = {}
        BY <2>2, <2>3, FirstPair
      <3> QED
        BY <1>1, <3>2, <3>3
    <2>4. CASE Places(nodes, n, step) # {}
      <3>1. PICK k \in Places(nodes, n, step) : PairWithKey(n, step) = {nodes[n].elems[k]}
        BY <2>4, FirstPair
      <3>2. k \in DOMAIN nodes[n].elems /\ step \in Keys(nodes, n)
        BY <3>1 DEF Places, Keys
      <3>3. Inserted(nodes, n, step) = k
        BY <1>2, <3>1, <3>2, OnePlace, LastPlace
      <3>4. PICK m : m = nodes[n].elems[k] /\ m \in DOMAIN nodes
        BY <3>2, ElemFacts
      <3>5. c.members[step] = Contexts[m]
        BY <2>1, <3>2, <3>3, <3>4
      <3>6. Members(c, step) = {Contexts[m]}
        BY <2>1, <3>2, <3>5 DEF Members
      <3> QED
        BY <1>1, <2>2, <3>1, <3>4, <3>6
    <2> QED
      BY <2>3, <2>4
  <1>3. CASE nodes[n].type = "Array"
    <2>1. PICK N \in Nat : nodes[n].elems \in Seq(n + 1 .. N)
      BY TreeFacts
    <2>2. PICK K : K = DOMAIN nodes[n].elems /\ K \subseteq Nat
      BY <2>1, LenProperties
    <2>3. /\ c.is = "Array" /\ DOMAIN c.elems = K
          /\ \A k \in K : c.elems[k] = Contexts[nodes[n].elems[k]]
      BY <1>1, <1>3, <2>2 DEF ContextAt
    <2>4. Element(n, step) = {nodes[n].elems[k] :
              k \in {j \in K : step \in DOMAIN IndexOf /\ IndexOf[step] = j - 1}}
      BY <1>3, <2>2 DEF Element
    <2>5. CASE step \in DOMAIN IndexOf /\ IndexOf[step] + 1 \in K
      <3>1. PICK k : k = IndexOf[step] + 1 /\ k \in K /\ IndexOf[step] \in Nat
        BY <2>5, PathsAssumption
      <3>2. {j \in K : step \in DOMAIN IndexOf /\ IndexOf[step] = j - 1} = {k}
        BY <2>2, <2>5, <3>1
      <3>3. Element(n, step) = {nodes[n].elems[k]}
        BY <2>4, <3>2
      <3>4. PICK m : m = nodes[n].elems[k] /\ m \in DOMAIN nodes
        BY <2>2, <3>1, ElemFacts
      <3>5. Members(c, step) = {Contexts[m]}
        BY <2>3, <2>5, <3>1, <3>4 DEF Members
      <3> QED
        BY <1>1, <3>3, <3>4, <3>5
    <2>6. CASE ~ (step \in DOMAIN IndexOf /\ IndexOf[step] + 1 \in K)
      <3>1. \A j \in K : ~ (step \in DOMAIN IndexOf /\ IndexOf[step] = j - 1)
        BY <2>2, <2>6
      <3>2. Element(n, step) = {}
        BY <2>4, <3>1
      <3>3. Members(c, step) = {}
        BY <2>3, <2>6 DEF Members
      <3> QED
        BY <1>1, <3>2, <3>3
    <2> QED
      BY <2>5, <2>6
  <1>4. CASE ~ nodes[n].type \in {"Object", "Array"}
    <2>1. nodes[n].type \in {"String", "Number", "Bool", "Null", "Redacted"}
      BY <1>4, ValuesAssumption DEF LaidOutInOrder
    <2>2. c = LiteralContext(nodes[n])
      BY <1>1, <1>4 DEF ContextAt
    <2>3. c.is \notin {"Object", "Array"}
      BY <2>1, <2>2 DEF LiteralContext, NumberContext, StringValue, NumberValue
    <2>4. Element(n, step) = {} /\ Members(c, step) = {}
      BY <1>4, <2>3 DEF Element, Members
    <2> QED
      BY <1>1, <2>4
  <1> QED
    BY <1>2, <1>3, <1>4

(* The walk of Get and the walk of Told meet: the second one is told what   *)
(* the first one finds.                                                     *)
LEMMA WalksMeet ==
    ASSUME nodes \in Values, KeysDiffer, NEW path, NEW L \in Nat, L = Len(path), NEW k \in 0 .. L
    PROVE  \/ Walk("Get", path)[k] = {} /\ Walk("Told", path)[k] = {}
           \/ \E m \in DOMAIN nodes :
                 Walk("Get", path)[k] = {m} /\ Walk("Told", path)[k] = {Contexts[m]}
PROOF
  <1>1. PICK f, g : f = Walk("Get", path) /\ g = Walk("Told", path)
    OBVIOUS
  <1>2. f[0] = {1} /\ \A j \in 1 .. L : f[j] = Onward("Get", f[j - 1], path[j])
    BY <1>1, WalkFacts DEF Start
  <1>3. g[0] = {Contexts[1]} /\ \A j \in 1 .. L : g[j] = Onward("Told", g[j - 1], path[j])
    BY <1>1, WalkFacts, ContextOfRoot DEF Start
  <1>4. 1 \in DOMAIN nodes
    BY TreeFacts
  <1> DEFINE Meet(j) == \/ f[j] = {} /\ g[j] = {}
                        \/ \E m \in DOMAIN nodes : f[j] = {m} /\ g[j] = {Contexts[m]}
             Apart == {j \in 0 .. L : ~ Meet(j)}
  <1>5. CASE Apart = {}
    BY <1>1, <1>5
  <1>6. CASE Apart # {}
    <2>1. Apart \in SUBSET Nat
      OBVIOUS
    <2>2. PICK j \in Apart : \A i \in Apart : j <= i
      <3> HIDE DEF Apart
      <3> QED
        BY <1>6, <2>1, LeastNode
    <2>3. j \in 0 .. L /\ ~ Meet(j)
      BY <2>2
    <2>4. j \in 1 .. L
      BY <1>2, <1>3, <1>4, <2>3
    <2>5. Meet(j - 1)
      <3>1. j - 1 \in 0 .. L /\ ~ (j <= j - 1)
        BY <2>4
      <3>2. j - 1 \notin Apart
        <4> HIDE DEF Apart
        <4> QED
          BY <2>2, <3>1
      <3> QED
        BY <3>1, <3>2
    <2>6. CASE f[j - 1] = {} /\ g[j - 1] = {}
      BY <1>2, <1>3, <2>3, <2>4, <2>6, OnwardOf
    <2>7. CASE \E m \in DOMAIN nodes : f[j - 1] = {m} /\ g[j - 1] = {Contexts[m]}
      <3>1. PICK n \in DOMAIN nodes : f[j - 1] = {n} /\ g[j - 1] = {Contexts[n]}
        BY <2>7
      <3>2. f[j] = Element(n, path[j]) /\ g[j] = Members(Contexts[n], path[j])
        <4>1. f[j] = Onward("Get", {n}, path[j]) /\ g[j] = Onward("Told", {Contexts[n]}, path[j])
          BY <1>2, <1>3, <2>4, <3>1
        <4> QED
          BY <4>1, OnwardOne, Zenon
      <3>3. \/ Element(n, path[j]) = {} /\ Members(Contexts[n], path[j]) = {}
            \/ \E m \in DOMAIN nodes :
                  Element(n, path[j]) = {m} /\ Members(Contexts[n], path[j]) = {Contexts[m]}
        BY StepAgrees
      <3> QED
        BY <2>3, <3>2, <3>3, Zenon
    <2> QED
      BY <2>5, <2>6, <2>7
  <1> QED
    BY <1>5, <1>6

(* The nodes that Get finds are nodes of the value. *)
LEMMA FoundAreNodes ==
    ASSUME nodes \in Values, NEW path, NEW L \in Nat, L = Len(path), NEW k \in 0 .. L
    PROVE  Walk("Get", path)[k] \subseteq DOMAIN nodes
PROOF
  <1>1. PICK f : f = Walk("Get", path)
    OBVIOUS
  <1>2. f[0] = {1} /\ \A j \in 1 .. L : f[j] = UNION {Element(n, path[j]) : n \in f[j - 1]}
    BY <1>1, WalkFacts, OnwardOf DEF Start
  <1>3. 1 \in DOMAIN nodes
    BY TreeFacts
  <1>4. CASE k = 0
    BY <1>1, <1>2, <1>3, <1>4
  <1>5. CASE k # 0
    <2> DEFINE Outside == {j \in 0 .. L : ~ f[j] \subseteq DOMAIN nodes}
    <2>1. Outside \in SUBSET Nat
      OBVIOUS
    <2>2. CASE Outside = {}
      BY <1>1, <2>2
    <2>3. CASE Outside # {}
      <3>1. PICK j \in Outside : \A i \in Outside : j <= i
        <4> HIDE DEF Outside
        <4> QED
          BY <2>1, <2>3, LeastNode
      <3>2. j \in 1 .. L /\ ~ f[j] \subseteq DOMAIN nodes
        BY <1>2, <1>3, <3>1
      <3>3. j - 1 \notin Outside
        <4>1. ~ (j <= j - 1)
          BY <3>2
        <4> HIDE DEF Outside
        <4> QED
          BY <3>1, <4>1
      <3>4. f[j - 1] \subseteq DOMAIN nodes
        BY <3>2, <3>3
      <3> QED
        BY <1>2, <3>2, <3>4, ElementIsOne
    <2> QED
      BY <2>2, <2>3
  <1> QED
    BY <1>4, <1>5

(* Path and front of a path. *)
LEMMA FrontOfPath ==
    ASSUME NEW T, NEW path \in Seq(T), path # << >>
    PROVE  /\ Len(path) \in Nat /\ Len(path) >= 1
           /\ Last(path) = path[Len(path)]
           /\ Len(Front(path)) = Len(path) - 1
           /\ \A k \in 1 .. Len(path) - 1 : Front(path)[k] = path[k]
PROOF
  <1>1. PICK L \in Nat : L = Len(path)
    BY LenProperties
  <1>2. L # 0
    BY <1>1, EmptySeq
  <1>3. Front(path) = SubSeq(path, 1, L - 1) /\ Last(path) = path[L]
    BY <1>1 DEF Front, Last
  <1>4. /\ SubSeq(path, 1, L - 1) = [i \in 1 .. L - 1 |-> path[i]]
        /\ Len(SubSeq(path, 1, L - 1)) = L - 1
    BY <1>1, <1>2
  <1> QED
    BY <1>1, <1>2, <1>3, <1>4

(* A path leads to where its last step leads from where the others lead. *)
LEMMA LastStep ==
    ASSUME nodes \in Values, NEW T, NEW path \in Seq(T), path # << >>
    PROVE  /\ Get(Front(path)) \subseteq DOMAIN nodes
           /\ Get(path) = UNION {Element(n, Last(path)) : n \in Get(Front(path))}
PROOF
  <1>0. PICK front : front = Front(path)
    OBVIOUS
  <1>1. PICK L \in Nat : L + 1 = Len(path) /\ front = Front(path) /\ L = Len(front)
    <2>1. Len(path) - 1 \in Nat /\ Len(path) - 1 + 1 = Len(path)
      BY FrontOfPath
    <2> QED
      BY <1>0, <2>1, FrontOfPath
  <1>2. PICK f, g : f = Walk("Get", path) /\ g = Walk("Get", front)
    OBVIOUS
  <1>3. Get(path) = f[L + 1] /\ Get(front) = g[L]
    BY <1>1, <1>2, GetIsWalk
  <1>4. Walks("Get", path, f, L)
    <2>1. /\ f[0] = Start("Get")
          /\ \A k \in 1 .. L + 1 : f[k] = Onward("Get", f[k - 1], path[k])
      BY <1>1, <1>2, WalkFacts
    <2> QED
      BY <2>1 DEF Walks
  <1>5. Walks("Get", front, g, L)
    BY <1>1, <1>2, WalkFacts DEF Walks
  <1>6. \A k \in 1 .. L : path[k] = front[k]
    BY <1>1, FrontOfPath
  <1>7. f[L] = g[L]
    BY <1>4, <1>5, <1>6, WalksAgree
  <1>8. f[L + 1] = UNION {Element(n, path[L + 1]) : n \in f[L]}
    <2>1. f[L + 1] = Onward("Get", f[(L + 1) - 1], path[L + 1])
      BY <1>1, <1>2, WalkFacts
    <2> QED
      BY <2>1 DEF Onward
  <1>9. g[L] \subseteq DOMAIN nodes
    BY <1>1, <1>2, FoundAreNodes
  <1>10. Last(path) = path[L + 1]
    BY <1>1, FrontOfPath
  <1> QED
    BY <1>1, <1>3, <1>7, <1>8, <1>9, <1>10

(* get_keyvalue finds the pair of the value that get finds. *)
LEMMA PairOfValue ==
    ASSUME nodes \in Values, NEW T, NEW path \in Seq(T), path # << >>
    PROVE  GetKeyValue(path) = {n \in Get(path) : nodes[n].pair # {}}
PROOF
  <1>1. PICK G, step : G = Get(Front(path)) /\ step = Last(path)
    OBVIOUS
  <1>2. G \subseteq DOMAIN nodes /\ Get(path) = UNION {Element(n, step) : n \in G}
    BY <1>1, LastStep
  <1>3. GetKeyValue(path) = UNION {PairWithKey(n, step) : n \in {m \in G : nodes[m].type = "Object"}}
    BY <1>1 DEF GetKeyValue
  <1>4. \A n \in G : nodes[n].type = "Object" => PairWithKey(n, step) = Element(n, step)
    BY DEF Element
  <1>5. \A n \in G : \A m \in Element(n, step) : nodes[m].pair # {} <=> nodes[n].type = "Object"
    BY <1>2, ElementIsOne
  <1> QED
    BY <1>2, <1>3, <1>4, <1>5

LEMMA LiteralGiven ==
    ASSUME nodes \in Values, NEW n \in DOMAIN nodes
    PROVE  Gives(Contexts[n], n)
PROOF
  <1>1. Contexts[n] = ContextAt(Contexts, n)
    BY ContextFacts
  <1>2. CASE nodes[n].type \in {"String", "Number"}
    <2>1. Contexts[n] = LiteralContext(nodes[n])
      BY <1>1, <1>2 DEF ContextAt
    <2>2. CASE nodes[n].type = "String"
      BY <2>1, <2>2 DEF LiteralContext, Gives
    <2>3. CASE nodes[n].type = "Number"
      <3>1. Contexts[n] = NumberContext(nodes[n].text)
        BY <2>1, <2>3 DEF LiteralContext
      <3> QED
        BY <2>3, <3>1, IntegerAssumption DEF NumberContext, Gives
    <2> QED
      BY <1>2, <2>2, <2>3
  <1>3. CASE ~ nodes[n].type \in {"String", "Number"}
    BY <1>3 DEF Gives
  <1> QED
    BY <1>2, <1>3

(* For a value of any size and depth and for paths of any length: a path    *)
(* leads to a pair exactly if it leads to the value of one, and the context *)
(* says at the path what get finds there.                                   *)
THEOREM ContextFollowsPaths == Spec => []PathsAgree
PROOF
  <1>1. nodes \in Values => PathsAgree
    <2> SUFFICES ASSUME nodes \in Values, NEW path \in Paths
                 PROVE  /\ GetKeyValue(path) = {n \in Get(path) : nodes[n].pair # {}}
                        /\ KeysDiffer =>
                              /\ Cardinality(Told(path)) = Cardinality(Get(path))
                              /\ \A n \in Get(path) : \A context \in Told(path) : Gives(context, n)
      BY DEF PathsAgree
    <2>1. PICK T : path \in Seq(T) /\ path # << >>
      BY PathsAssumption
    <2>2. GetKeyValue(path) = {n \in Get(path) : nodes[n].pair # {}}
      BY <2>1, PairOfValue
    <2>3. ASSUME KeysDiffer
          PROVE  /\ Cardinality(Told(path)) = Cardinality(Get(path))
                 /\ \A n \in Get(path) : \A context \in Told(path) : Gives(context, n)
      <3>1. PICK L \in Nat : L = Len(path)
        BY <2>1, LenProperties
      <3>2. Get(path) = Walk("Get", path)[L] /\ Told(path) = Walk("Told", path)[L]
        BY <3>1, GetIsWalk, ToldIsWalk
      <3>3. \/ Get(path) = {} /\ Told(path) = {}
            \/ \E m \in DOMAIN nodes : Get(path) = {m} /\ Told(path) = {Contexts[m]}
        <4>1. L \in 0 .. L
          OBVIOUS
        <4> QED
          BY <2>3, <3>1, <3>2, <4>1, WalksMeet
      <3>4. CASE Get(path) = {} /\ Told(path) = {}
        BY <3>4
      <3>5. CASE \E m \in DOMAIN nodes : Get(path) = {m} /\ Told(path) = {Contexts[m]}
        <4>1. PICK m \in DOMAIN nodes : Get(path) = {m} /\ Told(path) = {Contexts[m]}
          BY <3>5
        <4>2. Cardinality({m}) = 1 /\ Cardinality({Contexts[m]}) = 1
          BY FS_Singleton
        <4> QED
          BY <4>1, <4>2, LiteralGiven
      <3> QED
        BY <3>3, <3>4, <3>5
    <2> QED
      BY <2>2, <2>3
  <1>2. IInv => nodes \in Values
    BY DEF IInv
  <1> QED
    BY <1>1, <1>2, Calling, PTL
===============================================================================
