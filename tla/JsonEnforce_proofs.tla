--------------------------- MODULE JsonEnforce_proofs ---------------------------
(***************************************************************************)
(* Theorems about JsonEnforce, for values of any size and depth and paths   *)
(* of any length.  The enforcer and get recurse over values; nothing here   *)
(* is an induction over them.  The visits that were made form a relation    *)
(* between parts of the structure and parts of the value, which is closed   *)
(* downwards once the agenda is empty, and a path cannot leave it.          *)
(***************************************************************************)
EXTENDS JsonEnforce, SequenceTheorems, TLAPS

Pending == {agenda[k] : k \in DOMAIN agenda}

(* A visit passes: it makes no others, or all that it makes are among seen. *)
Passes(x, seen) ==
    \E v \in x.found :
        /\ x.found = {v}
        /\ \/ Ignored(x.structure, v)
           \/ /\ x.structure.kind = "Array" /\ v.kind = "Array"
              /\ \A k \in DOMAIN x.structure.elems : ArrayVisits(x.structure, v)[k] \in seen
           \/ /\ x.structure.kind = "Object" /\ v.kind = "Object"
              /\ \A k \in DOMAIN x.structure.elems : ObjectVisits(x.structure, v)[k] \in seen

(* The visits made so far have passed, but for those that are pending.      *)
Explored(made) ==
    /\ read \in made \cup Pending
    /\ \A x \in made : Passes(x, made \cup Pending)

ExploredInv ==
    outcome # "Panicked" => \E made \in SUBSET Visits : Explored(made)

(* What is still to be visited of a disclosure is one.                      *)
DisclosedInv ==
    <<structure, value>> \in Disclosures =>
        /\ outcome # "Panicked"
        /\ \A x \in Pending : \E v \in x.found :
              x.found = {v} /\ <<x.structure, v>> \in Disclosures

-------------------------------------------------------------------------------
(* The enforcer and get find at most one value, among the elements.         *)
Found == {{}} \cup {{v} : v \in Values}

LEMMA PartsOfValues ==
    ASSUME NEW v \in Values
    PROVE  /\ v.elems \in Seq(Values) /\ DOMAIN v.elems = 1 .. Len(v.elems)
           /\ \A k \in DOMAIN v.elems : v.elems[k] \in Values
           /\ v.kind = "Object" => DOMAIN v.keys = DOMAIN v.elems
  BY ValuesAssumption

LEMMA AtFinds ==
    ASSUME NEW v \in Values, NEW i
    PROVE  At(v, i) \in Found /\ Element(v, i) \in Found
PROOF
  <1>1. At(v, i) \in Found
    BY PartsOfValues DEF At, Found
  <1>2. PICK n \in Nat : DOMAIN v.elems = 1 .. n
    BY PartsOfValues
  <1>3. CASE \E j \in 1 .. n : j - 1 = i
    <2>1. PICK j \in 1 .. n : j - 1 = i
      BY <1>3
    <2>2. \A k \in 1 .. n : k - 1 = i => k = j
      BY <2>1
    <2>3. Element(v, i) = {v.elems[j]}
      BY <1>2, <2>1, <2>2 DEF Element
    <2> QED
      BY <1>1, <1>2, <2>3, PartsOfValues DEF Found
  <1>4. CASE ~ \E j \in 1 .. n : j - 1 = i
    <2>1. Element(v, i) = {}
      BY <1>2, <1>4 DEF Element
    <2> QED
      BY <1>1, <2>1 DEF Found
  <1> QED
    BY <1>3, <1>4

(* A key is found at its first place only. *)
LEMMA FindFinds ==
    ASSUME NEW v \in Values, v.kind = "Object", NEW key
    PROVE  Find(v, key) \in Found
PROOF
  <1> DEFINE first == {j \in DOMAIN v.keys : v.keys[j] = key /\ \A i \in 1 .. j - 1 : v.keys[i] # key}
  <1>1. PICK n \in Nat : DOMAIN v.elems = 1 .. n /\ DOMAIN v.keys = 1 .. n
    BY PartsOfValues
  <1>2. ASSUME NEW j \in first, NEW k \in first
        PROVE  j = k
    <2>1. ~ j < k /\ ~ k < j
      BY <1>1, <1>2
    <2> QED
      BY <1>1, <2>1
  <1>3. Find(v, key) = {v.elems[j] : j \in first}
    BY DEF Find
  <1>4. \A j \in first : v.elems[j] \in Values
    BY <1>1, PartsOfValues
  <1> QED
    BY <1>2, <1>3, <1>4 DEF Found

LEMMA GetStepFinds ==
    ASSUME NEW v \in Values, NEW step
    PROVE  GetStep(v, step) \in Found
  BY AtFinds, FindFinds DEF GetStep, Found

LEMMA VisitsMade ==
    ASSUME NEW s \in Values, NEW v \in Values
    PROVE  /\ ArrayVisits(s, v) \in Seq(Visits)
           /\ v.kind = "Object" => ObjectVisits(s, v) \in Seq(Visits)
           /\ DOMAIN ArrayVisits(s, v) = DOMAIN s.elems
           /\ DOMAIN ObjectVisits(s, v) = DOMAIN s.elems
PROOF
  <1>1. PICK n \in Nat : DOMAIN s.elems = 1 .. n
    BY PartsOfValues
  <1>2. \A k \in 1 .. n : Visit(s.elems[k], At(v, k)) \in Visits
    BY <1>1, PartsOfValues, AtFinds DEF Visit, Visits, Found
  <1>3. ArrayVisits(s, v) \in Seq(Visits)
    BY <1>1, <1>2 DEF ArrayVisits
  <1>4. ASSUME v.kind = "Object"
        PROVE  ObjectVisits(s, v) \in Seq(Visits)
    <2>1. \A k \in 1 .. n : Visit(s.elems[k], Find(v, s.keys[k])) \in Visits
      BY <1>1, <1>4, PartsOfValues, FindFinds DEF Visit, Visits, Found
    <2> QED
      BY <1>1, <2>1 DEF ObjectVisits
  <1> QED
    BY <1>3, <1>4 DEF ArrayVisits, ObjectVisits

(* A step of the enforcer: the next visit panics, or makes its visits.      *)
Makes(x, v, visits) ==
    \/ Ignored(x.structure, v) /\ visits = << >>
    \/ /\ x.structure.kind = "Array" /\ v.kind = "Array"
       /\ visits = ArrayVisits(x.structure, v)
    \/ /\ x.structure.kind = "Object" /\ v.kind = "Object"
       /\ visits = ObjectVisits(x.structure, v)

LEMMA VisitCases ==
    ASSUME VisitValue
    PROVE  /\ agenda # << >> /\ UNCHANGED <<structure, value, read>>
           /\ \/ /\ Panics
                 /\ \/ Head(agenda).found = {}
                    \/ \E v \in Head(agenda).found :
                          ~ Ignored(Head(agenda).structure, v)
                             /\ ~ (Head(agenda).structure.kind \in {"Array", "Object"}
                                     /\ v.kind = Head(agenda).structure.kind)
              \/ \E v \in Head(agenda).found : \E visits :
                    Makes(Head(agenda), v, visits) /\ Goes(visits)
  BY DEF VisitValue, Makes

LEMMA MadeVisits ==
    ASSUME NEW x \in Visits, NEW v \in x.found, NEW visits, Makes(x, v, visits)
    PROVE  visits \in Seq(Visits)
PROOF
  <1>1. PICK s \in Values : s = x.structure
    BY DEF Visits
  <1>2. v \in Values
    BY DEF Visits
  <1>3. /\ ArrayVisits(s, v) \in Seq(Visits)
        /\ v.kind = "Object" => ObjectVisits(s, v) \in Seq(Visits)
    BY <1>2, VisitsMade
  <1>4. << >> \in Seq(Visits)
    OBVIOUS
  <1> QED
    BY <1>1, <1>3, <1>4 DEF Makes

(* The agenda after a step. *)
LEMMA PendingAfter ==
    ASSUME agenda \in Seq(Visits), agenda # << >>, NEW visits \in Seq(Visits), Goes(visits)
    PROVE  /\ agenda' \in Seq(Visits) /\ Head(agenda) \in Visits
           /\ Pending = {Head(agenda)} \cup {Tail(agenda)[k] : k \in DOMAIN Tail(agenda)}
           /\ Pending' = {visits[k] : k \in DOMAIN visits}
                            \cup {Tail(agenda)[k] : k \in DOMAIN Tail(agenda)}
PROOF
  <1> PICK tail : tail = Tail(agenda)
    OBVIOUS
  <1>1. /\ tail \in Seq(Visits) /\ Head(agenda) \in Visits /\ Head(agenda) = agenda[1]
        /\ Len(agenda) \in Nat \ {0} /\ DOMAIN agenda = 1 .. Len(agenda)
        /\ Len(tail) = Len(agenda) - 1 /\ DOMAIN tail = 1 .. Len(tail)
        /\ \A k \in 1 .. Len(tail) : tail[k] = agenda[k + 1]
    BY HeadTailProperties, LenProperties, EmptySeq
  <1>2. Pending = {Head(agenda)} \cup {tail[k] : k \in DOMAIN tail}
    <2>1. \A k \in DOMAIN agenda : k = 1 \/ (k - 1 \in DOMAIN tail /\ agenda[k] = tail[k - 1])
      BY <1>1
    <2>2. \A k \in DOMAIN tail : k + 1 \in DOMAIN agenda
      BY <1>1
    <2> QED
      BY <1>1, <2>1, <2>2, SMTT(30) DEF Pending
  <1>3. /\ agenda' = visits \o tail /\ agenda' \in Seq(Visits)
        /\ DOMAIN agenda' = 1 .. Len(visits) + Len(tail)
        /\ Len(visits) \in Nat /\ DOMAIN visits = 1 .. Len(visits)
        /\ \A k \in 1 .. Len(visits) + Len(tail) :
              agenda'[k] = IF k <= Len(visits) THEN visits[k] ELSE tail[k - Len(visits)]
    BY <1>1, ConcatProperties, LenProperties DEF Goes
  <1>4. Pending' = {visits[k] : k \in DOMAIN visits} \cup {tail[k] : k \in DOMAIN tail}
    <2>1. \A k \in DOMAIN agenda' :
             \/ k \in DOMAIN visits /\ agenda'[k] = visits[k]
             \/ k - Len(visits) \in DOMAIN tail /\ agenda'[k] = tail[k - Len(visits)]
      BY <1>1, <1>3
    <2>2. \A k \in DOMAIN visits : k \in DOMAIN agenda' /\ agenda'[k] = visits[k]
      BY <1>1, <1>3
    <2>3. \A k \in DOMAIN tail : k + Len(visits) \in DOMAIN agenda' /\ agenda'[k + Len(visits)] = tail[k]
      BY <1>1, <1>3
    <2> QED
      BY <2>1, <2>2, <2>3 DEF Pending
  <1> QED
    BY <1>1, <1>2, <1>3, <1>4

-------------------------------------------------------------------------------
LEMMA TypeInit == Init => TypeOK
PROOF
  <1> SUFFICES ASSUME Init PROVE TypeOK
    OBVIOUS
  <1>1. Visit(structure, {value}) \in Visits
    BY DEF Init, Visit, Visits
  <1> QED
    BY <1>1 DEF Init, TypeOK

LEMMA TypeNext == TypeOK /\ [Next]_vars => TypeOK'
PROOF
  <1> SUFFICES ASSUME TypeOK, [Next]_vars PROVE TypeOK'
    OBVIOUS
  <1>1. CASE VisitValue
    <2>1. CASE Panics
      BY <1>1, <2>1, VisitCases DEF Panics, TypeOK, Visits
    <2>2. ASSUME NEW v \in Head(agenda).found, NEW visits,
                 Makes(Head(agenda), v, visits), Goes(visits)
          PROVE  TypeOK'
      <3>1. Head(agenda) \in Visits
        BY <1>1, VisitCases, HeadTailProperties DEF TypeOK
      <3>2. PICK x \in Visits : x = Head(agenda)
        BY <3>1
      <3>3. visits \in Seq(Visits)
        BY <2>2, <3>2, MadeVisits
      <3>4. agenda' \in Seq(Visits)
        BY <1>1, <2>2, <3>3, VisitCases, PendingAfter DEF TypeOK
      <3> QED
        BY <1>1, <2>2, <3>4, VisitCases DEF TypeOK, Goes, Visits
    <2> QED
      BY <1>1, <2>1, <2>2, VisitCases
  <1>2. CASE Return
    BY <1>2 DEF Return, TypeOK, Visits
  <1>3. ASSUME NEW step \in Steps, Get(step)
        PROVE  TypeOK'
    <2>1. PICK s \in GetStep(read.structure, step) :
             read' = Visit(s, UNION {GetStep(v, step) : v \in read.found})
      BY <1>3 DEF Get
    <2>2. read.structure \in Values /\ read.found \in Found
      BY DEF TypeOK, Visits, Found
    <2>3. s \in Values
      BY <2>1, <2>2, GetStepFinds DEF Found
    <2>4. UNION {GetStep(v, step) : v \in read.found} \in Found
      <3>1. CASE read.found = {}
        BY <3>1 DEF Found
      <3>2. ASSUME NEW v \in Values, read.found = {v}
            PROVE  UNION {GetStep(w, step) : w \in read.found} = GetStep(v, step)
        BY <3>2
      <3> QED
        BY <2>2, <3>1, <3>2, GetStepFinds DEF Found
    <2>5. read' \in Visits
      BY <2>1, <2>3, <2>4 DEF Visit, Visits, Found
    <2> QED
      BY <1>3, <2>5 DEF Get, TypeOK, Visits
  <1>4. CASE UNCHANGED vars
    BY <1>4 DEF vars, TypeOK, Visits
  <1> QED
    BY <1>1, <1>2, <1>3, <1>4 DEF Next

(* What is visited, found and read are parts of the two values, and a       *)
(* panic drops what was still to be visited.                                *)
THEOREM TypeCorrect == Spec => []TypeOK
  BY TypeInit, TypeNext, PTL DEF Spec

-------------------------------------------------------------------------------
(* A visit still passes when more visits have been made.                    *)
LEMMA PassesWithMore ==
    ASSUME NEW x, NEW seen, NEW more, Passes(x, seen), seen \subseteq more
    PROVE  Passes(x, more)
  BY DEF Passes

(* A visit that does not panic passes once those that it makes are seen.    *)
LEMMA MakesPasses ==
    ASSUME NEW x \in Visits, NEW v \in x.found, x.found = {v}, NEW visits, Makes(x, v, visits),
           NEW seen, \A k \in DOMAIN visits : visits[k] \in seen
    PROVE  Passes(x, seen)
PROOF
  <1>1. PICK s \in Values : s = x.structure
    BY DEF Visits
  <1>2. v \in Values
    BY DEF Visits
  <1>3. DOMAIN ArrayVisits(s, v) = DOMAIN s.elems /\ DOMAIN ObjectVisits(s, v) = DOMAIN s.elems
    BY DEF ArrayVisits, ObjectVisits
  <1> QED
    BY <1>1, <1>2, <1>3 DEF Makes, Passes

LEMMA ExploredInit == Init => ExploredInv
PROOF
  <1> SUFFICES ASSUME Init PROVE \E made \in SUBSET Visits : Explored(made)
    BY DEF ExploredInv
  <1>1. Pending = {read}
    BY DEF Init, Pending
  <1>2. Explored({})
    BY <1>1 DEF Explored
  <1> QED
    BY <1>2

(* A step of the enforcer adds the visit that it makes to those made.       *)
LEMMA ExploredByVisit ==
    ASSUME TypeOK, ExploredInv, VisitValue
    PROVE  ExploredInv'
PROOF
  <1>1. CASE Panics
    BY <1>1 DEF Panics, ExploredInv
  <1>2. ASSUME NEW v \in Head(agenda).found, NEW visits,
               Makes(Head(agenda), v, visits), Goes(visits), outcome # "Panicked"
        PROVE  ExploredInv'
    <2>1. PICK x \in Visits : x = Head(agenda)
      BY VisitCases, HeadTailProperties DEF TypeOK
    <2>2. x.found = {v}
      BY <1>2, <2>1 DEF Visits
    <2>3. visits \in Seq(Visits)
      BY <1>2, <2>1, MadeVisits
    <2>4. PICK rest : rest = {Tail(agenda)[k] : k \in DOMAIN Tail(agenda)}
      OBVIOUS
    <2>5. Pending = {x} \cup rest /\ Pending' = {visits[k] : k \in DOMAIN visits} \cup rest
      BY <1>2, <2>1, <2>3, <2>4, VisitCases, PendingAfter DEF TypeOK
    <2>6. PICK made \in SUBSET Visits : Explored(made)
      BY <1>2 DEF ExploredInv
    <2>7. PICK seen : seen = (made \cup {x}) \cup Pending'
      OBVIOUS
    <2>8. Passes(x, seen)
      <3>1. \A k \in DOMAIN visits : visits[k] \in seen
        BY <2>5, <2>7
      <3> QED
        BY <1>2, <2>1, <2>2, <3>1, MakesPasses
    <2>9. made \cup Pending \subseteq seen
      BY <2>5, <2>7
    <2>10. \A y \in made : Passes(y, seen)
      BY <2>6, <2>9, PassesWithMore DEF Explored
    <2>11. read' \in seen
      BY <2>6, <2>9, VisitCases DEF Explored
    <2>12. Explored(made \cup {x})'
      BY <2>7, <2>8, <2>10, <2>11 DEF Explored, Passes
    <2> QED
      BY <2>1, <2>12 DEF ExploredInv
  <1>3. CASE outcome = "Panicked"
    BY <1>3, VisitCases DEF TypeOK
  <1> QED
    BY <1>1, <1>2, <1>3, VisitCases

(* A path leads from a visit that has passed to one that it made.           *)
LEMMA ExploredByGet ==
    ASSUME TypeOK, ExploredInv, NEW step, Get(step)
    PROVE  ExploredInv'
PROOF
  <1>1. PICK made \in SUBSET Visits : Explored(made)
    BY DEF ExploredInv, Get
  <1>2. Pending = {} /\ Pending' = {}
    BY DEF TypeOK, Get, Pending
  <1>3. PICK x \in Visits : x = read
    BY DEF TypeOK
  <1>4. x \in made /\ Passes(x, made)
    BY <1>1, <1>2, <1>3 DEF Explored
  <1>5. PICK v \in x.found :
           /\ x.found = {v}
           /\ \/ Ignored(x.structure, v)
              \/ /\ x.structure.kind = "Array" /\ v.kind = "Array"
                 /\ \A k \in DOMAIN x.structure.elems : ArrayVisits(x.structure, v)[k] \in made
              \/ /\ x.structure.kind = "Object" /\ v.kind = "Object"
                 /\ \A k \in DOMAIN x.structure.elems : ObjectVisits(x.structure, v)[k] \in made
    BY <1>4 DEF Passes
  <1>6. PICK t \in Values : t = x.structure
    BY DEF Visits
  <1>7. PICK s \in GetStep(t, step) : read' = Visit(s, UNION {GetStep(w, step) : w \in x.found})
    BY <1>3, <1>6 DEF Get
  <1>8. UNION {GetStep(w, step) : w \in x.found} = GetStep(v, step)
    BY <1>5
  <1>9. v \in Values
    BY <1>5 DEF Visits
  <1>10. t.kind = "Array" \/ t.kind = "Object"
    BY <1>7 DEF GetStep
  <1>11. ASSUME t.kind = "Array"
         PROVE  read' \in made
    <2>1. v.kind = "Array" /\ \A k \in DOMAIN t.elems : ArrayVisits(t, v)[k] \in made
      BY <1>5, <1>6, <1>11 DEF Ignored, SameLiteral, Literal
    <2>2. PICK k \in DOMAIN t.elems : k - 1 = step /\ s = t.elems[k]
      BY <1>7, <1>11 DEF GetStep, Element
    <2>3. PICK n \in Nat : DOMAIN t.elems = 1 .. n
      BY <1>6, PartsOfValues
    <2>4. PICK m \in Nat : DOMAIN v.elems = 1 .. m
      BY <1>9, PartsOfValues
    <2>5. Element(v, step) = At(v, k)
      <3>1. \A i \in 1 .. m : i - 1 = step <=> i = k
        BY <2>2, <2>3
      <3> QED
        BY <2>4, <3>1 DEF Element, At
    <2>6. read' = ArrayVisits(t, v)[k]
      BY <1>7, <1>8, <2>1, <2>2, <2>5 DEF GetStep, ArrayVisits
    <2> QED
      BY <2>1, <2>6
  <1>12. ASSUME t.kind = "Object"
         PROVE  read' \in made
    <2>1. v.kind = "Object" /\ \A k \in DOMAIN t.elems : ObjectVisits(t, v)[k] \in made
      BY <1>5, <1>6, <1>12 DEF Ignored, SameLiteral, Literal
    <2>2. PICK k \in DOMAIN t.elems : t.keys[k] = step /\ s = t.elems[k]
      BY <1>6, <1>7, <1>12, PartsOfValues DEF GetStep, Find
    <2>3. read' = ObjectVisits(t, v)[k]
      BY <1>7, <1>8, <1>12, <2>1, <2>2 DEF GetStep, ObjectVisits
    <2> QED
      BY <2>1, <2>3
  <1>13. read' \in made
    BY <1>10, <1>11, <1>12
  <1>14. Explored(made)'
    BY <1>1, <1>2, <1>13 DEF Explored, Passes
  <1> QED
    BY <1>14 DEF ExploredInv

LEMMA ExploredNext == TypeOK /\ ExploredInv /\ [Next]_vars => ExploredInv'
PROOF
  <1> SUFFICES ASSUME TypeOK, ExploredInv, [Next]_vars PROVE ExploredInv'
    OBVIOUS
  <1>1. CASE VisitValue
    BY <1>1, ExploredByVisit
  <1>2. CASE Return
    BY <1>2 DEF Return, ExploredInv, Explored, Pending, Passes
  <1>3. ASSUME NEW step \in Steps, Get(step)
        PROVE  ExploredInv'
    BY <1>3, ExploredByGet
  <1>4. CASE UNCHANGED vars
    BY <1>4 DEF vars, ExploredInv, Explored, Pending, Passes
  <1> QED
    BY <1>1, <1>2, <1>3, <1>4 DEF Next

(* Whatever path a caller follows in the structure, of any length: if it    *)
(* leads to something disclosed there, it leads to the same in the value    *)
(* that was accepted.                                                       *)
THEOREM DisclosedPartsAgree == Spec => []AcceptedAgrees
PROOF
  <1>1. TypeOK /\ ExploredInv => AcceptedAgrees
    <2> SUFFICES ASSUME TypeOK, ExploredInv, outcome = "Accepted", read.structure.kind # "Redacted"
                 PROVE  \E v \in read.found : SamePart(read.structure, v)
      BY DEF AcceptedAgrees
    <2>1. PICK made \in SUBSET Visits : Explored(made)
      BY DEF ExploredInv
    <2>2. read \in made
      BY <2>1 DEF TypeOK, Explored, Pending
    <2>3. Passes(read, made \cup Pending)
      BY <2>1, <2>2 DEF Explored
    <2> QED
      BY <2>3 DEF Passes, Ignored, SameLiteral, SamePart, Literal
  <1> QED
    BY TypeInit, TypeNext, ExploredInit, ExploredNext, <1>1, PTL DEF Spec

-------------------------------------------------------------------------------
LEMMA DisclosedInit == Init => DisclosedInv
PROOF
  <1> SUFFICES ASSUME Init PROVE DisclosedInv
    OBVIOUS
  <1>1. Pending = {Visit(structure, {value})}
    BY DEF Init, Pending
  <1> QED
    BY <1>1 DEF Init, DisclosedInv, Visit

(* The visits that are made for a disclosure are made for its parts.        *)
LEMMA DisclosedParts ==
    ASSUME NEW x \in Visits, NEW v \in x.found, x.found = {v},
           <<x.structure, v>> \in Disclosures, NEW visits, Makes(x, v, visits)
    PROVE  \A k \in DOMAIN visits : \E w \in visits[k].found :
              visits[k].found = {w} /\ <<visits[k].structure, w>> \in Disclosures
PROOF
  <1>1. PICK s \in Values : s = x.structure
    BY DEF Visits
  <1>2. v \in Values
    BY DEF Visits
  <1>3. PICK d \in Disclosures : d = <<s, v>>
    BY <1>1
  <1>4. /\ s.kind = "Array" =>
              /\ Len(s.elems) = Len(v.elems)
              /\ \A k \in DOMAIN s.elems : <<s.elems[k], v.elems[k]>> \in Disclosures
        /\ s.kind = "Object" =>
              /\ \A j, k \in DOMAIN v.keys : v.keys[j] = v.keys[k] => j = k
              /\ \A k \in DOMAIN s.elems : \E j \in DOMAIN v.elems :
                    s.keys[k] = v.keys[j] /\ <<s.elems[k], v.elems[j]>> \in Disclosures
    <2>1. d[1] = s /\ d[2] = v
      BY <1>3
    <2> QED
      BY <2>1, DisclosuresAssumption
  <1>5. CASE visits = << >>
    BY <1>5
  <1>6. CASE s.kind = "Array" /\ visits = ArrayVisits(s, v)
    <2>1. DOMAIN s.elems = DOMAIN v.elems
      BY <1>2, <1>4, <1>6, PartsOfValues
    <2>2. ASSUME NEW k \in DOMAIN s.elems
          PROVE  visits[k] = Visit(s.elems[k], {v.elems[k]})
      BY <1>6, <2>1 DEF ArrayVisits, At
    <2>3. DOMAIN visits = DOMAIN s.elems
      BY <1>6 DEF ArrayVisits
    <2>4. ASSUME NEW k \in DOMAIN s.elems
          PROVE  /\ visits[k].found = {v.elems[k]}
                 /\ <<visits[k].structure, v.elems[k]>> \in Disclosures
      <3>1. visits[k].found = {v.elems[k]} /\ visits[k].structure = s.elems[k]
        <4>1. PICK w : w = {v.elems[k]}
          OBVIOUS
        <4>2. visits[k] = Visit(s.elems[k], w)
          BY <2>2, <4>1
        <4> QED
          BY <4>1, <4>2 DEF Visit
      <3>2. <<s.elems[k], v.elems[k]>> \in Disclosures
        BY <1>4, <1>6
      <3> QED
        BY <3>1, <3>2
    <2> QED
      BY <2>3, <2>4
  <1>7. CASE s.kind = "Object" /\ v.kind = "Object" /\ visits = ObjectVisits(s, v)
    <2>1. PICK n \in Nat : DOMAIN v.elems = 1 .. n /\ DOMAIN v.keys = 1 .. n
      BY <1>2, <1>7, PartsOfValues
    <2>2. ASSUME NEW k \in DOMAIN s.elems
          PROVE  \E j \in 1 .. n :
                    /\ visits[k] = Visit(s.elems[k], {v.elems[j]})
                    /\ <<s.elems[k], v.elems[j]>> \in Disclosures
      <3>1. PICK j \in 1 .. n : s.keys[k] = v.keys[j] /\ <<s.elems[k], v.elems[j]>> \in Disclosures
        BY <1>4, <1>7, <2>1
      <3>2. {i \in 1 .. n : v.keys[i] = s.keys[k] /\ \A h \in 1 .. i - 1 : v.keys[h] # s.keys[k]} = {j}
        BY <1>4, <1>7, <2>1, <3>1
      <3>3. Find(v, s.keys[k]) = {v.elems[j]}
        BY <2>1, <3>2 DEF Find
      <3> QED
        BY <1>7, <3>1, <3>3 DEF ObjectVisits
    <2>3. DOMAIN visits = DOMAIN s.elems
      BY <1>7 DEF ObjectVisits
    <2>4. ASSUME NEW k \in DOMAIN s.elems
          PROVE  \E w : visits[k].found = {w} /\ <<visits[k].structure, w>> \in Disclosures
      <3>1. PICK j \in 1 .. n :
               /\ visits[k] = Visit(s.elems[k], {v.elems[j]})
               /\ <<s.elems[k], v.elems[j]>> \in Disclosures
        BY <2>2
      <3>2. visits[k].found = {v.elems[j]} /\ visits[k].structure = s.elems[k]
        BY <3>1 DEF Visit
      <3> QED
        BY <3>1, <3>2
    <2> QED
      BY <2>3, <2>4
  <1> QED
    BY <1>1, <1>5, <1>6, <1>7 DEF Makes

(* A disclosure does not panic. *)
LEMMA DisclosedPasses ==
    ASSUME NEW s, NEW v, <<s, v>> \in Disclosures
    PROVE  Ignored(s, v) \/ (s.kind \in {"Array", "Object"} /\ v.kind = s.kind)
PROOF
  <1>1. PICK d \in Disclosures : d = <<s, v>>
    OBVIOUS
  <1>2. s \in Values /\ (s.kind = "Redacted" \/ SamePart(s, v))
    <2>1. d[1] = s /\ d[2] = v
      BY <1>1
    <2> QED
      BY <2>1, DisclosuresAssumption
  <1> QED
    BY <1>2, ValuesAssumption DEF SamePart, Ignored, SameLiteral, Kinds, Literal

LEMMA DisclosedNext == TypeOK /\ DisclosedInv /\ [Next]_vars => DisclosedInv'
PROOF
  <1> SUFFICES ASSUME TypeOK, DisclosedInv, [Next]_vars,
                      <<structure, value>> \in Disclosures, UNCHANGED <<structure, value>>
               PROVE  DisclosedInv'
    BY DEF DisclosedInv, Next, vars, VisitValue, Return, Get
  <1>1. CASE VisitValue
    <2>1. PICK x \in Visits : x = Head(agenda)
      BY <1>1, VisitCases, HeadTailProperties DEF TypeOK
    <2>2. x \in Pending
      <3>1. agenda # << >> /\ agenda \in Seq(Visits)
        BY <1>1, VisitCases DEF TypeOK
      <3>2. 1 \in DOMAIN agenda /\ agenda[1] = Head(agenda)
        BY <3>1
      <3> QED
        BY <2>1, <3>2 DEF Pending
    <2>3. PICK v \in x.found : x.found = {v} /\ <<x.structure, v>> \in Disclosures
      BY <2>2 DEF DisclosedInv
    <2>4. PICK s : s = x.structure
      OBVIOUS
    <2>5. Ignored(s, v) \/ (s.kind \in {"Array", "Object"} /\ v.kind = s.kind)
      BY <2>3, <2>4, DisclosedPasses
    <2>6. PICK visits : Makes(x, v, visits) /\ Goes(visits)
      BY <1>1, <2>1, <2>3, <2>4, <2>5, VisitCases
    <2>7. visits \in Seq(Visits)
      BY <2>3, <2>6, MadeVisits
    <2>8. Pending' \subseteq Pending \cup {visits[k] : k \in DOMAIN visits}
      BY <1>1, <2>6, <2>7, VisitCases, PendingAfter DEF TypeOK
    <2>9. \A k \in DOMAIN visits : \E w \in visits[k].found :
             visits[k].found = {w} /\ <<visits[k].structure, w>> \in Disclosures
      BY <2>3, <2>6, DisclosedParts
    <2>10. \A y \in Pending' : \E w \in y.found :
              y.found = {w} /\ <<y.structure, w>> \in Disclosures
      <3>1. ASSUME NEW y \in Pending
            PROVE  \E w \in y.found : y.found = {w} /\ <<y.structure, w>> \in Disclosures
        BY DEF DisclosedInv
      <3>2. PICK made : made = {visits[k] : k \in DOMAIN visits}
        OBVIOUS
      <3>3. ASSUME NEW y \in made
            PROVE  \E w \in y.found : y.found = {w} /\ <<y.structure, w>> \in Disclosures
        BY <2>9, <3>2
      <3>4. Pending' \subseteq Pending \cup made
        BY <2>8, <3>2
      <3> QED
        BY <3>1, <3>3, <3>4
    <2>11. outcome' # "Panicked"
      BY <2>6 DEF DisclosedInv, Goes
    <2> QED
      BY <2>10, <2>11 DEF DisclosedInv
  <1>2. CASE Return
    BY <1>2 DEF Return, DisclosedInv, Pending
  <1>3. ASSUME NEW step \in Steps, Get(step)
        PROVE  DisclosedInv'
    BY <1>3 DEF Get, DisclosedInv, Pending
  <1>4. CASE UNCHANGED vars
    BY <1>4 DEF vars, DisclosedInv, Pending
  <1> QED
    BY <1>1, <1>2, <1>3, <1>4 DEF Next

(* No structure that discloses a part of a value makes the enforcer panic   *)
(* on it: whatever was redacted, and in whatever order the pairs are.       *)
THEOREM DisclosuresAreAccepted == Spec => []DisclosureAccepted
PROOF
  <1>1. DisclosedInv => DisclosureAccepted
    BY DEF DisclosedInv, DisclosureAccepted
  <1> QED
    BY TypeInit, TypeNext, DisclosedInit, DisclosedNext, <1>1, PTL DEF Spec

===============================================================================
