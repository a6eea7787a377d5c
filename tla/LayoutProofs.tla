---------------------------- MODULE LayoutProofs -----------------------------
(***************************************************************************)
(* Where NewLayout puts the fields of any schema, and what the catalogs give *)
(* back of it.                                                              *)
(***************************************************************************)
EXTENDS Catalog, FiniteSetTheorems, SequenceTheorems, WellFoundedInduction, TLAPS

(* The flag of the slot comes first; every field is aligned, there and in   *)
(* the slots that follow; it ends before the next one and before the end.   *)
FieldsLieApart(order, layout) ==
  LET first(i) == layout.offsets[i]
      next(i) == first(i) + lengthInBytes(order[i])
  IN /\ \A i \in DOMAIN order :
          /\ first(i) >= IntSize /\ next(i) <= layout.slotSize
          /\ first(i) % alignmentRequirement(order[i].type) = 0
          /\ layout.slotSize % alignmentRequirement(order[i].type) = 0
     /\ \A i, j \in DOMAIN order : i < j => next(i) <= first(j)

LEMMA AlignedIs ==
  ASSUME NEW pos \in Nat, NEW align \in {1, 2, 4, 8}
  PROVE  /\ Aligned(pos, align) \in Nat /\ pos <= Aligned(pos, align)
         /\ Aligned(pos, align) % align = 0
<1>1. CASE align = 1 BY <1>1 DEF Aligned
<1>2. CASE align = 2 BY <1>2 DEF Aligned
<1>3. CASE align = 4 BY <1>3 DEF Aligned
<1>4. CASE align = 8 BY <1>4 DEF Aligned
<1> QED BY <1>1, <1>2, <1>3, <1>4

LEMMA FieldIs ==
  ASSUME NEW field \in Fields
  PROVE  alignmentRequirement(field.type) \in {1, 2, 4, 8} /\ lengthInBytes(field) \in Nat
<1>1. field.type \in Types /\ field.length \in Nat BY DEF Fields
<1>2. alignmentRequirement(field.type) \in {1, 2, 4, 8}
  BY <1>1 DEF Types, alignmentRequirement, IntSize
<1>3. CASE field.type = "string"
  <2>1. lengthInBytes(field) = 4 + field.length * 4 BY <1>3 DEF lengthInBytes, IntSize, UTFMax
  <2> QED BY <2>1, <1>1, <1>2
<1>4. CASE field.type # "string"
  <2>1. lengthInBytes(field) \in {1, 2, 4, 8} BY <1>1, <1>4 DEF Types, lengthInBytes, IntSize
  <2> QED BY <2>1, <1>2
<1> QED BY <1>3, <1>4

(* What the largest of the alignments divides, every one of them divides. *)
LEMMA LargestDivides ==
  ASSUME NEW S \in SUBSET {1, 2, 4, 8}, S # {}, NEW largest, largest = Max(S)
  PROVE  /\ largest \in {1, 2, 4, 8}
         /\ \A align \in S, pos \in Nat : pos % largest = 0 => pos % align = 0
<1>1. \E m \in S : \A a \in S : m >= a
  <2>1. CASE 8 \in S BY <2>1
  <2>2. CASE 8 \notin S /\ 4 \in S BY <2>2
  <2>3. CASE 8 \notin S /\ 4 \notin S /\ 2 \in S BY <2>3
  <2>4. CASE S = {1} BY <2>4
  <2> QED BY <2>1, <2>2, <2>3, <2>4
<1>2. largest \in S /\ \A a \in S : largest >= a BY <1>1 DEF Max
<1>3. ASSUME NEW align \in S, NEW pos \in Nat, pos % largest = 0 PROVE pos % align = 0
  <2>1. largest \in {1, 2, 4, 8} /\ align \in {1, 2, 4, 8} /\ align <= largest BY <1>2
  <2>2. CASE largest = 1 BY <1>3, <2>1, <2>2
  <2>3. CASE largest = 2 BY <1>3, <2>1, <2>3
  <2>4. CASE largest = 4 BY <1>3, <2>1, <2>4
  <2>5. CASE largest = 8 BY <1>3, <2>1, <2>5
  <2> QED BY <2>1, <2>2, <2>3, <2>4, <2>5
<1> QED BY <1>2, <1>3

LEMMA LeastExists ==
  ASSUME NEW S, S \subseteq Nat, S # {}
  PROVE  \E i \in S : \A j \in S : i <= j
<1> DEFINE R == OpToRel(<, Nat)
<1>1. IsWellFoundedOn(R, Nat) BY NatLessThanWellFounded
<1>2. \A i, j \in Nat : j < i => <<j, i>> \in R BY DEF OpToRel
<1> HIDE DEF R
<1>3. PICK i \in S : \A j \in S : <<j, i>> \notin R BY <1>1, WFMin
<1>4. \A j \in S : ~(j < i) BY <1>2, <1>3
<1> QED BY <1>4

(* The end of a field that follows one that ends here *)
EndAfter(e, field) == Aligned(e, alignmentRequirement(field.type)) + lengthInBytes(field)

LEMMA FieldEndsUnfold ==
  ASSUME NEW order \in Seq(Fields)
  PROVE  LET end == FieldEnds(order)
         IN end[0] = IntSize /\ \A i \in 1..Len(order) : end[i] = EndAfter(end[i-1], order[i])
<1> DEFINE Step(f, i) == IF i = 0 THEN IntSize ELSE EndAfter(f[i-1], order[i])
           Loop(f) == f = [i \in 0..Len(order) |-> Step(f, i)]
           Until(f, n) == \A i \in 0..n : f[i] = Step(f, i)
           Reached(n) == \E f : Until(f, n)
<1>1. FieldEnds(order) = (CHOOSE f : Loop(f)) BY DEF FieldEnds, EndAfter
<1>2. ASSUME NEW n \in Nat PROVE Reached(n)
  <2> DEFINE Bad == {m \in Nat : ~Reached(m)}
  <2> SUFFICES ASSUME Bad # {} PROVE FALSE OBVIOUS
  <2>1. PICK m : m \in Bad /\ \A i \in Bad : m <= i
    <3>1. Bad \subseteq Nat OBVIOUS
    <3> HIDE DEF Bad
    <3> QED BY <3>1, LeastExists
  <2>2. m \in Nat /\ ~Reached(m) BY <2>1
  <2>3. CASE m = 0
    <3>1. PICK f : f = [i \in 0..0 |-> IntSize] OBVIOUS
    <3>2. Until(f, 0) BY <3>1
    <3> HIDE DEF Until
    <3> QED BY <3>2, <2>2, <2>3
  <2>4. CASE m # 0
    <3>1. m \in Nat BY <2>2
    <3>2. PICK k \in Nat : k = m - 1 /\ k < m BY <3>1, <2>4
    <3>3. PICK f : Until(f, k)
      <4>1. Reached(k)
        <5> HIDE DEF Reached
        <5>1. k \notin Bad BY <2>1, <2>2, <3>2
        <5> QED BY <5>1
      <4> HIDE DEF Until
      <4> QED BY <4>1
    <3>4. PICK g : g = [i \in 0..m |-> IF i = m THEN Step(f, m) ELSE f[i]] OBVIOUS
    <3>5. ASSUME NEW i \in 0..m PROVE g[i] = Step(g, i)
      <4>1. g[i] = Step(f, i)
        <5>1. i = m \/ i \in 0..k BY <3>1, <3>2
        <5> HIDE DEF Step
        <5> QED BY <5>1, <3>3, <3>4
      <4>2. i # 0 => g[i-1] = f[i-1]
        <5> HIDE DEF Step
        <5>1. i # 0 => i - 1 \in 0..m /\ i - 1 # m BY <3>1
        <5> QED BY <5>1, <3>4
      <4> QED BY <4>1, <4>2
    <3>6. Until(g, m)
      <4> HIDE DEF Step
      <4> QED BY <3>5
    <3> HIDE DEF Until
    <3> QED BY <3>6, <2>2
  <2> QED BY <2>3, <2>4
<1>3. \E g : Loop(g)
  <2>1. PICK n \in Nat : n = Len(order) OBVIOUS
  <2>2. PICK f : Until(f, n)
    <3>1. Reached(n)
      <4> HIDE DEF Reached
      <4> QED BY <1>2
    <3> HIDE DEF Until
    <3> QED BY <3>1
  <2>3. PICK g : g = [i \in 0..n |-> f[i]] OBVIOUS
  <2>4. ASSUME NEW i \in 0..n PROVE f[i] = Step(g, i)
    <3>1. f[i] = Step(f, i)
      <4> HIDE DEF Step
      <4> QED BY <2>2
    <3>2. i # 0 => g[i-1] = f[i-1]
      <4>1. i # 0 => i - 1 \in 0..n BY <2>1
      <4> QED BY <4>1, <2>3
    <3> QED BY <3>1, <3>2
  <2>5. g = [i \in 0..n |-> Step(g, i)]
    <3> HIDE DEF Step
    <3> QED BY <2>3, <2>4
  <2> QED BY <2>1, <2>5
<1>4. PICK f : f = (CHOOSE g : Loop(g)) /\ Loop(f) BY <1>3
<1>5. f[0] = IntSize /\ \A i \in 1..Len(order) : f[i] = EndAfter(f[i-1], order[i])
  <2>1. f = [i \in 0..Len(order) |-> Step(f, i)] BY <1>4
  <2>2. ASSUME NEW i \in 0..Len(order) PROVE f[i] = Step(f, i)
    <3> HIDE DEF Step
    <3> QED BY <2>1
  <2>3. 0 \in 0..Len(order) OBVIOUS
  <2>4. f[0] = IntSize BY <2>2, <2>3
  <2>5. ASSUME NEW i \in 1..Len(order) PROVE f[i] = EndAfter(f[i-1], order[i])
    <3>1. i \in 0..Len(order) /\ i # 0 OBVIOUS
    <3> QED BY <3>1, <2>2
  <2> QED BY <2>4, <2>5
<1>6. FieldEnds(order) = f BY <1>1, <1>4
<1> QED BY <1>5, <1>6

(* A field begins, aligned, where the one before has ended or later. *)
LEMMA FieldPlaced ==
  ASSUME NEW field \in Fields, NEW e \in Nat, NEW first,
         first = Aligned(e, alignmentRequirement(field.type))
  PROVE  /\ first \in Nat /\ e <= first /\ first % alignmentRequirement(field.type) = 0
         /\ EndAfter(e, field) \in Nat /\ first + lengthInBytes(field) = EndAfter(e, field)
         /\ e <= EndAfter(e, field)
<1>1. alignmentRequirement(field.type) \in {1, 2, 4, 8} /\ lengthInBytes(field) \in Nat
  BY FieldIs
<1>2. first \in Nat /\ e <= first /\ first % alignmentRequirement(field.type) = 0
  BY <1>1, AlignedIs
<1>3. EndAfter(e, field) = first + lengthInBytes(field) BY DEF EndAfter
<1> QED BY <1>1, <1>2, <1>3

(* The ends of the fields grow. *)
LEMMA EndsGrow ==
  ASSUME NEW order \in Seq(Fields), NEW end, end = FieldEnds(order)
  PROVE  /\ \A n \in 0..Len(order) : end[n] \in Nat /\ end[n] >= IntSize
         /\ \A m, n \in 0..Len(order) : m <= n => end[m] <= end[n]
<1>1. /\ end[0] = IntSize
      /\ \A i \in 1..Len(order) : end[i] = EndAfter(end[i-1], order[i])
  BY FieldEndsUnfold
<1> DEFINE Good(n) == /\ end[n] \in Nat /\ end[n] >= IntSize
                      /\ \A m \in 0..n : end[m] <= end[n]
<1>2. PICK Bad : Bad = {n \in 0..Len(order) : ~Good(n)} OBVIOUS
<1>3. Bad = {}
  <2> SUFFICES ASSUME Bad # {} PROVE FALSE OBVIOUS
  <2>1. Bad \subseteq Nat BY <1>2
  <2>2. PICK n \in Bad : \A j \in Bad : n <= j BY <2>1, LeastExists
  <2>3. n \in 0..Len(order) /\ ~Good(n) BY <2>2, <1>2
  <2>4. Good(0)
    <3>1. end[0] = 4 BY <1>1 DEF IntSize
    <3>2. \A m \in 0..0 : m = 0 OBVIOUS
    <3> QED BY <3>1, <3>2 DEF IntSize
  <2>5. PICK k \in 0..Len(order) : n = k + 1 /\ n \in 1..Len(order)
    <3>1. n # 0 BY <2>3, <2>4
    <3>2. n - 1 \in 0..Len(order) /\ n = (n - 1) + 1 BY <3>1, <2>3
    <3> QED BY <3>2, <3>1, <2>3
  <2>6. Good(k)
    <3> HIDE DEF Good
    <3>1. ~(n <= k) BY <2>5
    <3>2. k \notin Bad BY <3>1, <2>2
    <3> QED BY <3>2, <1>2
  <2>7. order[n] \in Fields /\ end[n] = EndAfter(end[k], order[n])
    <3>1. n - 1 = k BY <2>5
    <3> QED BY <3>1, <2>5, <1>1
  <2>8. end[k] \in Nat /\ end[n] \in Nat /\ end[k] <= end[n]
    BY <2>6, <2>7, FieldPlaced
  <2>9. end[n] >= IntSize BY <2>6, <2>8 DEF IntSize
  <2>10. ASSUME NEW m \in 0..n PROVE end[m] <= end[n]
    <3>1. m = n \/ m \in 0..k BY <2>5
    <3>2. CASE m = n BY <3>2, <2>8
    <3>3. CASE m \in 0..k
      <4>1. end[m] <= end[k] BY <3>3, <2>6
      <4>2. end[m] \in Nat
        <5>1. m \in 0..Len(order) /\ ~(n <= m) BY <3>3, <2>5
        <5>2. m \notin Bad BY <5>1, <2>2
        <5> QED BY <5>1, <5>2, <1>2
      <4> QED BY <4>1, <4>2, <2>8
    <3> QED BY <3>1, <3>2, <3>3
  <2>11. Good(n) BY <2>8, <2>9, <2>10
  <2> QED BY <2>11, <2>3
<1>4. \A n \in 0..Len(order) : Good(n)
  <2> HIDE DEF Good
  <2> QED BY <1>2, <1>3
<1>5. ASSUME NEW m \in 0..Len(order), NEW n \in 0..Len(order), m <= n PROVE end[m] <= end[n]
  <2>1. m \in 0..n BY <1>5
  <2> QED BY <2>1, <1>4
<1> QED BY <1>4, <1>5

(* Of whatever fields a schema has, in whichever order of equal alignments  *)
(* they come, none overlaps another or the flag of a slot, and in a slot of *)
(* any number each can be read at its alignment (NewLayout).                *)
THEOREM NewLayoutIsSound ==
  ASSUME NEW order \in Seq(Fields)
  PROVE  FieldsLieApart(order, NewLayout(order))
<1> DEFINE align(i) == alignmentRequirement(order[i].type)
<1>1. PICK end : end = FieldEnds(order) OBVIOUS
<1>2. /\ \A n \in 0..Len(order) : end[n] \in Nat /\ end[n] >= IntSize
      /\ \A m, n \in 0..Len(order) : m <= n => end[m] <= end[n]
  BY <1>1, EndsGrow
<1>3. \A i \in 1..Len(order) : end[i] = EndAfter(end[i-1], order[i])
  BY <1>1, FieldEndsUnfold
<1>4. PICK S : S = {1} \union {alignmentRequirement(f.type) : f \in ToSet(order)} OBVIOUS
<1>5. PICK layout : layout = NewLayout(order) OBVIOUS
<1>6. /\ layout.offsets = [i \in DOMAIN order |-> Aligned(end[i-1], align(i))]
      /\ layout.slotSize = Aligned(end[Len(order)], Max(S))
  BY <1>1, <1>4, <1>5 DEF NewLayout
<1>7. S \in SUBSET {1, 2, 4, 8} /\ \A i \in DOMAIN order : align(i) \in S
  <2>1. \A i \in DOMAIN order : order[i] \in Fields OBVIOUS
  <2>2. ToSet(order) = {order[i] : i \in DOMAIN order} BY DEF ToSet
  <2>3. \A f \in ToSet(order) : f \in Fields BY <2>1, <2>2
  <2>4. \A f \in ToSet(order) : alignmentRequirement(f.type) \in {1, 2, 4, 8} BY <2>3, FieldIs
  <2>5. \A i \in DOMAIN order : order[i] \in ToSet(order) BY <2>2
  <2> QED BY <2>4, <2>5, <1>4
<1>8. PICK last \in Nat : last = end[Len(order)]
  <2>1. Len(order) \in 0..Len(order) OBVIOUS
  <2> QED BY <2>1, <1>2
<1>9. PICK largest : largest = Max(S) OBVIOUS
<1>10. /\ largest \in {1, 2, 4, 8}
       /\ \A a \in S, pos \in Nat : pos % largest = 0 => pos % a = 0
  <2>1. S # {} BY <1>4
  <2> QED BY <2>1, <1>7, <1>9, LargestDivides
<1>11. PICK size : size = layout.slotSize OBVIOUS
<1>12. size \in Nat /\ last <= size /\ size % largest = 0
  <2>1. size = Aligned(last, largest) BY <1>6, <1>8, <1>9, <1>11
  <2> QED BY <2>1, <1>10, AlignedIs
<1>13. ASSUME NEW i \in DOMAIN order
       PROVE  LET first == layout.offsets[i]
                  next == first + lengthInBytes(order[i])
              IN /\ first \in Nat /\ next = end[i] /\ end[i-1] <= first
                 /\ first >= IntSize /\ next <= size
                 /\ first % align(i) = 0 /\ size % align(i) = 0
  <2>1. PICK field \in Fields : field = order[i] OBVIOUS
  <2>2. PICK k \in 0..Len(order) : k = i - 1 OBVIOUS
  <2>3. i \in 0..Len(order) /\ Len(order) \in 0..Len(order) /\ i <= Len(order) OBVIOUS
  <2>4. end[k] \in Nat /\ end[k] >= IntSize /\ end[i] <= last BY <2>2, <2>3, <1>2, <1>8
  <2>5. PICK first : first = layout.offsets[i] OBVIOUS
  <2>6. first = Aligned(end[k], alignmentRequirement(field.type)) BY <2>1, <2>2, <2>5, <1>6
  <2>7. /\ first \in Nat /\ end[k] <= first /\ first % alignmentRequirement(field.type) = 0
        /\ EndAfter(end[k], field) \in Nat
        /\ first + lengthInBytes(field) = EndAfter(end[k], field)
    BY <2>4, <2>6, FieldPlaced
  <2>8. end[i] = EndAfter(end[k], field)
    <3>1. i \in 1..Len(order) OBVIOUS
    <3>2. end[i] = EndAfter(end[i-1], order[i]) BY <3>1, <1>3
    <3> QED BY <3>2, <2>1, <2>2
  <2>9. first + lengthInBytes(field) = end[i] /\ end[i] \in Nat BY <2>7, <2>8
  <2>10. first >= IntSize BY <2>4, <2>7 DEF IntSize
  <2>11. end[i] <= size BY <2>4, <2>9, <1>12
  <2>12. size % align(i) = 0
    <3>1. PICK a \in S : a = align(i) BY <1>7
    <3>2. size % a = 0 BY <1>10, <1>12
    <3> QED BY <3>1, <3>2
  <2>13. first % align(i) = 0 BY <2>1, <2>7
  <2> HIDE DEF align
  <2> QED BY <2>1, <2>2, <2>5, <2>7, <2>9, <2>10, <2>11, <2>12, <2>13
<1>14. ASSUME NEW i \in DOMAIN order, NEW j \in DOMAIN order, i < j
       PROVE  layout.offsets[i] + lengthInBytes(order[i]) <= layout.offsets[j]
  <2>1. PICK k \in 0..Len(order) : k = j - 1 OBVIOUS
  <2>2. i \in 0..Len(order) /\ i <= k BY <1>14, <2>1
  <2>3. end[i] \in Nat /\ end[k] \in Nat /\ end[i] <= end[k] BY <2>2, <1>2
  <2>4. layout.offsets[i] + lengthInBytes(order[i]) = end[i] BY <1>13
  <2>5. layout.offsets[j] \in Nat /\ end[k] <= layout.offsets[j] BY <2>1, <1>13
  <2> QED BY <2>3, <2>4, <2>5
<1> HIDE DEF align
<1>15. FieldsLieApart(order, layout)
  <2>1. \A i \in DOMAIN order :
          /\ layout.offsets[i] >= IntSize
          /\ layout.offsets[i] + lengthInBytes(order[i]) <= layout.slotSize
          /\ layout.offsets[i] % alignmentRequirement(order[i].type) = 0
          /\ layout.slotSize % alignmentRequirement(order[i].type) = 0
    BY <1>11, <1>13 DEF align
  <2> QED BY <2>1, <1>14 DEF FieldsLieApart
<1> QED BY <1>5, <1>15

(* An order of the fields of a schema is a sequence of them. *)
LEMMA SortedTyped ==
  ASSUME NEW schema \in Seq(Fields), NEW order \in SortedFields(schema)
  PROVE  /\ order \in Seq(Fields) /\ Len(order) = Len(schema)
         /\ \A i \in 1..(Len(order) - 1) :
              alignmentRequirement(order[i].type) >= alignmentRequirement(order[i+1].type)
<1>1. PICK p \in Bijection(DOMAIN schema, DOMAIN schema) : order = [i \in DOMAIN schema |-> schema[p[i]]]
  BY DEF SortedFields
<1>2. p \in [DOMAIN schema -> DOMAIN schema] BY <1>1 DEF Bijection, Injection, Surjection
<1>3. PICK n \in Nat : n = Len(schema) /\ DOMAIN schema = 1..n OBVIOUS
<1>4. order \in [1..n -> Fields] BY <1>1, <1>2, <1>3
<1>5. order \in Seq(Fields) /\ Len(order) = n BY <1>4, <1>3
<1>6. \A i \in 1..(Len(schema) - 1) :
        alignmentRequirement(order[i].type) >= alignmentRequirement(order[i + 1].type)
  BY DEF SortedFields
<1> QED BY <1>3, <1>5, <1>6

(* Fields sorted by their alignments need no padding between them: the only *)
(* unused bytes of a slot come after its flag and at its end (NewLayout,    *)
(* "optimized for a space efficiency").                                     *)
THEOREM FieldsArePacked ==
  ASSUME NEW schema \in Seq(Fields), NEW order \in SortedFields(schema),
         NEW layout, layout = NewLayout(order)
  PROVE  \A i \in 1..(Len(order) - 1) :
           layout.offsets[i + 1] = layout.offsets[i] + lengthInBytes(order[i])
<1>1. order \in Seq(Fields) BY SortedTyped
<1>2. PICK end : end = FieldEnds(order) OBVIOUS
<1>3. \A n \in 0..Len(order) : end[n] \in Nat BY <1>1, <1>2, EndsGrow
<1>4. \A i \in 1..Len(order) : end[i] = EndAfter(end[i-1], order[i])
  BY <1>1, <1>2, FieldEndsUnfold
<1>5. ASSUME NEW i \in DOMAIN order
      PROVE  layout.offsets[i] = Aligned(end[i-1], alignmentRequirement(order[i].type))
  BY <1>2 DEF NewLayout
<1>6. ASSUME NEW i \in 1..(Len(order) - 1)
      PROVE  layout.offsets[i + 1] = layout.offsets[i] + lengthInBytes(order[i])
  <2>1. PICK j \in DOMAIN order : j = i + 1 BY <1>1
  <2>2. i \in DOMAIN order /\ i \in 1..Len(order) /\ j - 1 = i BY <1>1, <2>1
  <2>3. PICK field \in Fields, after \in Fields : field = order[i] /\ after = order[j]
    BY <1>1, <2>1, <2>2
  <2>4. PICK a, b \in Nat : a = alignmentRequirement(field.type) /\ b = alignmentRequirement(after.type)
    <3>1. alignmentRequirement(field.type) \in Nat /\ alignmentRequirement(after.type) \in Nat
      BY FieldIs
    <3> QED BY <3>1
  <2>5. a \in {1, 2, 4, 8} /\ b \in {1, 2, 4, 8} BY <2>4, FieldIs
  <2>6. b <= a
    <3>1. alignmentRequirement(order[i].type) >= alignmentRequirement(order[i+1].type)
      BY SortedTyped
    <3> QED BY <3>1, <2>1, <2>3, <2>4
  <2>7. PICK first, len \in Nat : first = layout.offsets[i] /\ len = lengthInBytes(field)
    <3>1. i - 1 \in 0..Len(order) BY <2>2
    <3>2. Aligned(end[i-1], a) \in Nat BY <3>1, <1>3, <2>5, AlignedIs
    <3>3. lengthInBytes(field) \in Nat BY FieldIs
    <3> QED BY <3>2, <3>3, <2>2, <2>3, <2>4, <1>5
  <2>8. first % a = 0 /\ end[i] = first + len
    <3>1. i - 1 \in 0..Len(order) BY <2>2
    <3>2. first = Aligned(end[i-1], a) BY <2>2, <2>3, <2>4, <2>7, <1>5
    <3>3. end[i-1] \in Nat BY <3>1, <1>3
    <3>4. first % a = 0 BY <3>2, <3>3, <2>5, AlignedIs
    <3>5. end[i] = EndAfter(end[i-1], field) BY <2>2, <2>3, <1>4
    <3> QED BY <3>2, <3>4, <3>5, <2>4, <2>7 DEF EndAfter
  <2>9. len % a = 0
    <3>1. field.type \in Types /\ field.length \in Nat BY DEF Fields
    <3>2. CASE field.type = "string"
      <4>1. a = 1 BY <3>2, <2>4 DEF alignmentRequirement
      <4> QED BY <4>1
    <3>3. CASE field.type # "string"
      <4>1. len = a
        BY <3>1, <3>3, <2>4, <2>7 DEF Types, alignmentRequirement, lengthInBytes, IntSize
      <4> QED BY <4>1, <2>5
    <3> QED BY <3>2, <3>3
  <2>10. (first + len) % b = 0
    <3>1. CASE a = 1 BY <3>1, <2>5, <2>6, <2>8, <2>9
    <3>2. CASE a = 2 BY <3>2, <2>5, <2>6, <2>8, <2>9
    <3>3. CASE a = 4 BY <3>3, <2>5, <2>6, <2>8, <2>9
    <3>4. CASE a = 8 BY <3>4, <2>5, <2>6, <2>8, <2>9
    <3> QED BY <3>1, <3>2, <3>3, <3>4, <2>5
  <2>11. Aligned(first + len, b) = first + len BY <2>10 DEF Aligned
  <2>12. layout.offsets[j] = Aligned(end[i], b) BY <2>1, <2>2, <2>3, <2>4, <1>5
  <2> QED BY <2>1, <2>3, <2>7, <2>8, <2>11, <2>12
<1> QED BY <1>6

-----------------------------------------------------------------------------
(* The invariant of the catalogs.  A table has one row in tableCatalog and   *)
(* rows that follow each other in fieldCatalog, which describe one order of  *)
(* its fields.                                                               *)
RowsIn(tc, name) == {i \in DOMAIN tc : tc[i].name = name}
FieldsIn(fc, name) == {i \in DOMAIN fc : fc[i].table = name}

Described(tc, fc, name, order, base) ==
  /\ order \in Schemas /\ base \in Nat
  /\ FieldsIn(fc, name) = (base + 1)..(base + Len(order))
  /\ \A i \in 1..Len(order) :
       fc[base + i] = FieldRow(name, order[i], NewLayout(order).offsets[i])
  /\ \E t \in DOMAIN tc : RowsIn(tc, name) = {t} /\ tc[t].slotSize = NewLayout(order).slotSize

Catalogued(tc, fc) ==
  /\ (\E S : tc \in Seq(S)) /\ (\E S : fc \in Seq(S))
  /\ \A i \in DOMAIN fc : RowsIn(tc, fc[i].table) # {}
  /\ \A name : RowsIn(tc, name) # {} => \E order, base : Described(tc, fc, name, order, base)

LEMMA SortedIsSchema ==
  ASSUME NEW schema \in Schemas, NEW order \in SortedFields(schema)
  PROVE  order \in Schemas
<1>1. schema \in Seq(Fields)
      /\ \A i, j \in DOMAIN schema : schema[i].name = schema[j].name => i = j
  BY DEF Schemas
<1>2. PICK p \in Bijection(DOMAIN schema, DOMAIN schema) : order = [i \in DOMAIN schema |-> schema[p[i]]]
  BY DEF SortedFields
<1>3. p \in [DOMAIN schema -> DOMAIN schema]
      /\ \A i, j \in DOMAIN schema : p[i] = p[j] => i = j
  BY <1>2 DEF Bijection, Injection, Surjection, IsInjective
<1>4. order \in Seq(Fields) BY <1>1, SortedTyped
<1>5. \A i, j \in DOMAIN order : order[i].name = order[j].name => i = j BY <1>1, <1>2, <1>3
<1> QED BY <1>4, <1>5 DEF Schemas

(* What a CREATE TABLE appends to the catalogs *)
Made(tc, fc, name, order, tc2, fc2) ==
  /\ tc2 = Append(tc, [name |-> name, slotSize |-> NewLayout(order).slotSize])
  /\ fc2 = fc \o [i \in DOMAIN order |-> FieldRow(name, order[i], NewLayout(order).offsets[i])]

(* The rows there were stay, the new ones come after them. *)
Grown(tc, fc, name, order, tc2, fc2) ==
  LET n == Len(tc)
      m == Len(fc)
  IN /\ n \in Nat /\ m \in Nat /\ Len(order) \in Nat
     /\ (\E S : tc2 \in Seq(S)) /\ (\E S : fc2 \in Seq(S))
     /\ DOMAIN tc = 1..n /\ DOMAIN tc2 = 1..(n + 1)
     /\ DOMAIN fc = 1..m /\ DOMAIN fc2 = 1..(m + Len(order))
     /\ \A i \in 1..n : tc2[i] = tc[i]
     /\ tc2[n + 1].name = name /\ tc2[n + 1].slotSize = NewLayout(order).slotSize
     /\ \A i \in 1..m : fc2[i] = fc[i]
     /\ \A i \in 1..Len(order) :
          fc2[m + i] = FieldRow(name, order[i], NewLayout(order).offsets[i])

LEMMA MadeIsGrown ==
  ASSUME NEW tc, NEW fc, Catalogued(tc, fc), NEW name, NEW order \in Seq(Fields),
         NEW tc2, NEW fc2, Made(tc, fc, name, order, tc2, fc2)
  PROVE  Grown(tc, fc, name, order, tc2, fc2)
<1>1. PICK S : tc \in Seq(S) BY DEF Catalogued
<1>2. PICK T : fc \in Seq(T) BY DEF Catalogued
<1>3. PICK n \in Nat : n = Len(tc) /\ DOMAIN tc = 1..n BY <1>1
<1>4. PICK m \in Nat : m = Len(fc) /\ DOMAIN fc = 1..m BY <1>2
<1>5. PICK o \in Nat : o = Len(order) /\ DOMAIN order = 1..o OBVIOUS
<1>6. PICK row : row = [name |-> name, slotSize |-> NewLayout(order).slotSize] OBVIOUS
<1>7. /\ tc2 \in Seq(S \union {row}) /\ DOMAIN tc2 = 1..(n + 1)
      /\ \A i \in 1..n : tc2[i] = tc[i]
      /\ tc2[n + 1] = row
  <2>1. tc \in Seq(S \union {row}) BY <1>1
  <2>2. tc2 = Append(tc, row) BY <1>6 DEF Made
  <2> QED BY <2>1, <2>2, <1>3
<1>8. PICK new : new = [i \in DOMAIN order |-> FieldRow(name, order[i], NewLayout(order).offsets[i])]
  OBVIOUS
<1>9. PICK U : U = T \union {new[i] : i \in 1..o} OBVIOUS
<1>10. fc \in Seq(U) /\ new \in Seq(U) /\ Len(new) = o
  <2>1. fc \in Seq(U) BY <1>2, <1>9
  <2>2. \A i \in 1..o : new[i] \in U BY <1>9
  <2>3. DOMAIN new = 1..o /\ new = [i \in DOMAIN new |-> new[i]] BY <1>5, <1>8
  <2>4. new \in [1..o -> U] BY <2>2, <2>3
  <2> QED BY <2>1, <2>4
<1>11. /\ fc2 \in Seq(U) /\ Len(fc2) = m + o
       /\ \A i \in 1..(m + o) : fc2[i] = IF i <= m THEN fc[i] ELSE new[i - m]
  <2>1. fc2 = fc \o new BY <1>8 DEF Made
  <2>2. /\ fc \o new \in Seq(U) /\ Len(fc \o new) = Len(fc) + Len(new)
        /\ \A i \in 1..(Len(fc) + Len(new)) :
             (fc \o new)[i] = IF i <= Len(fc) THEN fc[i] ELSE new[i - Len(fc)]
    BY <1>10, ConcatProperties
  <2> QED BY <2>1, <2>2, <1>4, <1>10
<1>12. \A i \in 1..m : fc2[i] = fc[i] BY <1>11
<1>13. ASSUME NEW i \in 1..o
       PROVE  fc2[m + i] = FieldRow(name, order[i], NewLayout(order).offsets[i])
  <2>1. m + i \in 1..(m + o) /\ ~(m + i <= m) /\ m + i - m = i OBVIOUS
  <2>2. fc2[m + i] = new[i] BY <2>1, <1>11
  <2> QED BY <2>2, <1>5, <1>8
<1>14. DOMAIN fc2 = 1..(m + o) BY <1>11
<1>15. tc2[n + 1].name = name /\ tc2[n + 1].slotSize = NewLayout(order).slotSize
  BY <1>6, <1>7
<1> QED BY <1>3, <1>4, <1>5, <1>7, <1>11, <1>12, <1>13, <1>14, <1>15 DEF Grown

LEMMA GrownIsCatalogued ==
  ASSUME NEW tc, NEW fc, Catalogued(tc, fc), NEW name, RowsIn(tc, name) = {},
         NEW order \in Schemas, NEW tc2, NEW fc2, Grown(tc, fc, name, order, tc2, fc2)
  PROVE  Catalogued(tc2, fc2)
<1>1. PICK n \in Nat : n = Len(tc) BY DEF Catalogued
<1>2. PICK m \in Nat : m = Len(fc) BY DEF Catalogued
<1>3. PICK o \in Nat : o = Len(order) BY DEF Grown
<1>4. /\ DOMAIN tc = 1..n /\ DOMAIN tc2 = 1..(n + 1)
      /\ \A i \in 1..n : tc2[i] = tc[i]
      /\ tc2[n + 1].name = name /\ tc2[n + 1].slotSize = NewLayout(order).slotSize
  BY <1>1 DEF Grown
<1>5. /\ DOMAIN fc = 1..m /\ DOMAIN fc2 = 1..(m + o)
      /\ \A i \in 1..m : fc2[i] = fc[i]
      /\ \A i \in 1..o : fc2[m + i] = FieldRow(name, order[i], NewLayout(order).offsets[i])
  BY <1>2, <1>3 DEF Grown
<1>6. ASSUME NEW x, x # name PROVE RowsIn(tc2, x) = RowsIn(tc, x)
  <2>1. \A i \in 1..(n + 1) : i \in 1..n \/ i = n + 1 OBVIOUS
  <2>2. \A i \in 1..n : i \in 1..(n + 1) OBVIOUS
  <2> QED BY <2>1, <2>2, <1>4, <1>6 DEF RowsIn
<1>7. RowsIn(tc2, name) = {n + 1}
  <2>1. \A i \in 1..(n + 1) : i \in 1..n \/ i = n + 1 OBVIOUS
  <2>2. n + 1 \in 1..(n + 1) OBVIOUS
  <2>3. \A i \in 1..n : tc[i].name # name BY <1>4 DEF RowsIn
  <2> QED BY <2>1, <2>2, <2>3, <1>4 DEF RowsIn
<1>8. ASSUME NEW i \in 1..(m + o)
      PROVE  \/ i \in 1..m /\ fc2[i] = fc[i]
             \/ i \in (m + 1)..(m + o) /\ fc2[i].table = name
  <2>1. CASE i <= m
    <3>1. i \in 1..m BY <2>1
    <3> QED BY <3>1, <1>5
  <2>2. CASE ~(i <= m)
    <3>1. i \in (m + 1)..(m + o) /\ i - m \in 1..o /\ m + (i - m) = i BY <2>2
    <3>2. fc2[i] = FieldRow(name, order[i - m], NewLayout(order).offsets[i - m])
      BY <3>1, <1>5
    <3> QED BY <3>1, <3>2 DEF FieldRow
  <2> QED BY <2>1, <2>2
<1>9. \A i \in 1..m : i \in 1..(m + o) /\ fc[i].table # name
  <2>1. \A i \in 1..m : RowsIn(tc, fc[i].table) # {} BY <1>5 DEF Catalogued
  <2> QED BY <2>1
<1>10. \A i \in (m + 1)..(m + o) : i \in 1..(m + o) /\ i \notin 1..m OBVIOUS
<1>11. ASSUME NEW x, x # name PROVE FieldsIn(fc2, x) = FieldsIn(fc, x)
  BY <1>5, <1>8, <1>9, <1>11 DEF FieldsIn
<1>12. FieldsIn(fc2, name) = (m + 1)..(m + o)
  <2>1. \A i \in (m + 1)..(m + o) : fc2[i].table = name BY <1>8, <1>10
  <2> QED BY <2>1, <1>5, <1>8, <1>9, <1>10 DEF FieldsIn
<1>13. \A i \in DOMAIN fc2 : RowsIn(tc2, fc2[i].table) # {}
  <2> SUFFICES ASSUME NEW i \in 1..(m + o) PROVE RowsIn(tc2, fc2[i].table) # {} BY <1>5
  <2>1. CASE fc2[i].table = name BY <2>1, <1>7
  <2>2. CASE fc2[i].table # name
    <3>1. i \in DOMAIN fc /\ fc2[i] = fc[i] BY <2>2, <1>5, <1>8
    <3>2. RowsIn(tc, fc[i].table) # {} BY <3>1 DEF Catalogued
    <3> QED BY <3>1, <3>2, <2>2, <1>6
  <2> QED BY <2>1, <2>2
<1>14. Described(tc2, fc2, name, order, m)
  <2>1. n + 1 \in DOMAIN tc2 BY <1>4
  <2> QED BY <2>1, <1>3, <1>4, <1>5, <1>7, <1>12 DEF Described
<1>15. ASSUME NEW x, x # name, NEW ord, NEW base, Described(tc, fc, x, ord, base)
       PROVE  Described(tc2, fc2, x, ord, base)
  <2>1. /\ ord \in Schemas /\ base \in Nat /\ FieldsIn(fc, x) = (base + 1)..(base + Len(ord))
        /\ \A i \in 1..Len(ord) :
             fc[base + i] = FieldRow(x, ord[i], NewLayout(ord).offsets[i])
    BY <1>15 DEF Described
  <2>2. PICK t \in DOMAIN tc : RowsIn(tc, x) = {t} /\ tc[t].slotSize = NewLayout(ord).slotSize
    BY <1>15 DEF Described
  <2>3. t \in DOMAIN tc2 /\ tc2[t].slotSize = NewLayout(ord).slotSize
    <3>1. t \in 1..n /\ t \in 1..(n + 1) BY <1>4
    <3> QED BY <3>1, <2>2, <1>4
  <2>4. ASSUME NEW i \in 1..Len(ord) PROVE fc2[base + i] = fc[base + i]
    <3>1. PICK l \in Nat : l = Len(ord) BY <2>1 DEF Schemas
    <3>2. base + i \in (base + 1)..(base + l) BY <3>1, <2>1
    <3>3. base + i \in 1..m BY <3>1, <3>2, <2>1, <1>5 DEF FieldsIn
    <3> QED BY <3>3, <1>5
  <2> QED BY <2>1, <2>2, <2>3, <2>4, <1>6, <1>11, <1>15 DEF Described
<1>16. ASSUME NEW x, RowsIn(tc2, x) # {} PROVE \E ord, base : Described(tc2, fc2, x, ord, base)
  <2>1. CASE x = name BY <2>1, <1>14
  <2>2. CASE x # name
    <3>1. RowsIn(tc, x) # {} BY <2>2, <1>6, <1>16
    <3>2. PICK ord, base : Described(tc, fc, x, ord, base) BY <3>1 DEF Catalogued
    <3> QED BY <3>2, <2>2, <1>15
  <2> QED BY <2>1, <2>2
<1> QED BY <1>13, <1>16 DEF Catalogued, Grown

(* A field is found in one row, so that its last row is the one written.    *)
LEMMA FieldFound ==
  ASSUME NEW name, NEW order, NEW base, Described(tableCatalog, fieldCatalog, name, order, base),
         NEW i \in 1..Len(order)
  PROVE  /\ order[i].name \in DOMAIN Info(name)
         /\ Info(name)[order[i].name] = FieldRow(name, order[i], NewLayout(order).offsets[i])
<1>1. /\ order \in Seq(Fields) /\ \A j, k \in DOMAIN order : order[j].name = order[k].name => j = k
      /\ base \in Nat /\ FieldRows(name) = (base + 1)..(base + Len(order))
      /\ \A j \in 1..Len(order) :
           fieldCatalog[base + j] = FieldRow(name, order[j], NewLayout(order).offsets[j])
  BY DEF Described, Schemas, FieldsIn, FieldRows
<1>2. PICK n \in Nat : n = Len(order) /\ DOMAIN order = 1..n BY <1>1
<1>3. PICK f : f = order[i].name OBVIOUS
<1>4. ASSUME NEW j \in 1..n PROVE fieldCatalog[base + j].name = order[j].name
  <2>1. PICK offset : fieldCatalog[base + j] = FieldRow(name, order[j], offset) BY <1>1, <1>2
  <2> QED BY <2>1 DEF FieldRow
<1>5. base + i \in FieldRows(name) BY <1>1, <1>2
<1>6. PICK rows : rows = {k \in FieldRows(name) : fieldCatalog[k].name = f} OBVIOUS
<1>7. rows = {base + i}
  <2>1. base + i \in rows BY <1>2, <1>3, <1>4, <1>5, <1>6
  <2>2. ASSUME NEW k \in rows PROVE k = base + i
    <3>1. k \in (base + 1)..(base + n) /\ fieldCatalog[k].name = f BY <1>1, <1>2, <1>6
    <3>2. PICK j \in 1..n : base + j = k
      <4>1. k - base \in 1..n /\ base + (k - base) = k BY <3>1, <1>1
      <4> QED BY <4>1
    <3>3. order[j].name = order[i].name BY <3>1, <3>2, <1>3, <1>4
    <3>4. j = i BY <3>3, <1>1, <1>2
    <3> QED BY <3>2, <3>4
  <2> QED BY <2>1, <2>2
<1>8. Max(rows) = base + i
  <2>1. base + i \in Nat BY <1>1
  <2> QED BY <2>1, <1>7 DEF Max
<1>9. f \in DOMAIN Info(name) BY <1>2, <1>3, <1>4, <1>5 DEF Info
<1>10. Info(name)[f] = fieldCatalog[Max(rows)] BY <1>6, <1>9 DEF Info
<1> QED BY <1>1, <1>3, <1>8, <1>9, <1>10

LEMMA SizeFound ==
  ASSUME NEW name, NEW order, NEW base, Described(tableCatalog, fieldCatalog, name, order, base),
         NEW S, tableCatalog \in Seq(S)
  PROVE  SlotSize(name) = NewLayout(order).slotSize
<1>1. PICK t \in DOMAIN tableCatalog :
        Rows(name) = {t} /\ tableCatalog[t].slotSize = NewLayout(order).slotSize
  BY DEF Described, RowsIn, Rows
<1>2. t \in Nat /\ t <= t OBVIOUS
<1>3. Min(Rows(name)) = t BY <1>1, <1>2 DEF Min
<1> QED BY <1>1, <1>3 DEF SlotSize, Known

(* Each table's layout is that of one order of its fields. *)
LEMMA CataloguedIsSound == Catalogued(tableCatalog, fieldCatalog) => LayoutIsSound
<1> SUFFICES ASSUME Catalogued(tableCatalog, fieldCatalog), NEW n \in TableNames, Known(n),
                    NEW info, info = Info(n), NEW size, size = SlotSize(n)
             PROVE  /\ \A f \in DOMAIN info :
                         /\ info[f].offset >= IntSize
                         /\ info[f].offset + lengthInBytes(info[f]) <= size
                         /\ info[f].offset % alignmentRequirement(info[f].type) = 0
                         /\ size % alignmentRequirement(info[f].type) = 0
                    /\ \A f, g \in DOMAIN info :
                         f # g => \/ info[f].offset + lengthInBytes(info[f]) <= info[g].offset
                                  \/ info[g].offset + lengthInBytes(info[g]) <= info[f].offset
  BY DEF LayoutIsSound, GetLayout
<1>1. PICK order, base : Described(tableCatalog, fieldCatalog, n, order, base)
  BY DEF Catalogued, Known, Rows, RowsIn
<1>2. order \in Seq(Fields) BY <1>1 DEF Described, Schemas
<1>3. PICK layout : layout = NewLayout(order) OBVIOUS
<1>4. FieldsLieApart(order, layout) BY <1>2, <1>3, NewLayoutIsSound
<1>5. size = layout.slotSize
  <2>1. PICK S : tableCatalog \in Seq(S) BY DEF Catalogued
  <2> QED BY <2>1, <1>1, <1>3, SizeFound
<1>6. ASSUME NEW i \in 1..Len(order)
      PROVE  info[order[i].name] = FieldRow(n, order[i], layout.offsets[i])
  BY <1>1, <1>3, FieldFound
<1>7. ASSUME NEW f \in DOMAIN info
      PROVE  \E i \in 1..Len(order) :
               /\ f = order[i].name /\ info[f].offset = layout.offsets[i]
               /\ info[f].type = order[i].type
               /\ lengthInBytes(info[f]) = lengthInBytes(order[i])
  <2>1. PICK k \in FieldRows(n) : f = fieldCatalog[k].name BY DEF Info
  <2>2. k \in (base + 1)..(base + Len(order)) /\ base \in Nat
    BY <1>1 DEF Described, FieldsIn, FieldRows
  <2>3. PICK i \in 1..Len(order) : base + i = k
    <3>1. Len(order) \in Nat BY <1>2
    <3>2. k - base \in 1..Len(order) /\ base + (k - base) = k BY <3>1, <2>2
    <3> QED BY <3>2
  <2>4. fieldCatalog[k] = FieldRow(n, order[i], layout.offsets[i])
    BY <2>3, <1>1, <1>3 DEF Described
  <2>5. f = order[i].name BY <2>1, <2>4 DEF FieldRow
  <2>6. info[f] = FieldRow(n, order[i], layout.offsets[i]) BY <2>5, <1>6
  <2>7. /\ info[f].offset = layout.offsets[i] /\ info[f].type = order[i].type
        /\ info[f].length = order[i].length
    BY <2>6 DEF FieldRow
  <2>8. lengthInBytes(info[f]) = lengthInBytes(order[i]) BY <2>7 DEF lengthInBytes
  <2> QED BY <2>5, <2>7, <2>8
<1>8. DOMAIN order = 1..Len(order) BY <1>2
<1>9. /\ \A i \in 1..Len(order) :
           /\ layout.offsets[i] >= IntSize
           /\ layout.offsets[i] + lengthInBytes(order[i]) <= layout.slotSize
           /\ layout.offsets[i] % alignmentRequirement(order[i].type) = 0
           /\ layout.slotSize % alignmentRequirement(order[i].type) = 0
      /\ \A i, j \in 1..Len(order) :
           i < j => layout.offsets[i] + lengthInBytes(order[i]) <= layout.offsets[j]
  BY <1>4, <1>8 DEF FieldsLieApart
<1>10. ASSUME NEW f \in DOMAIN info
       PROVE  /\ info[f].offset >= IntSize
              /\ info[f].offset + lengthInBytes(info[f]) <= size
              /\ info[f].offset % alignmentRequirement(info[f].type) = 0
              /\ size % alignmentRequirement(info[f].type) = 0
  <2>1. PICK i \in 1..Len(order) :
          /\ info[f].offset = layout.offsets[i] /\ info[f].type = order[i].type
          /\ lengthInBytes(info[f]) = lengthInBytes(order[i])
    BY <1>7
  <2> QED BY <2>1, <1>5, <1>9
<1>11. ASSUME NEW f \in DOMAIN info, NEW g \in DOMAIN info, f # g
       PROVE  \/ info[f].offset + lengthInBytes(info[f]) <= info[g].offset
              \/ info[g].offset + lengthInBytes(info[g]) <= info[f].offset
  <2>1. PICK i \in 1..Len(order) :
          /\ f = order[i].name /\ info[f].offset = layout.offsets[i]
          /\ lengthInBytes(info[f]) = lengthInBytes(order[i])
    BY <1>7
  <2>2. PICK j \in 1..Len(order) :
          /\ g = order[j].name /\ info[g].offset = layout.offsets[j]
          /\ lengthInBytes(info[g]) = lengthInBytes(order[j])
    BY <1>7
  <2>3. i < j \/ j < i
    <3>1. i # j BY <2>1, <2>2, <1>11
    <3> QED BY <3>1
  <2> QED BY <2>1, <2>2, <2>3, <1>9
<1> QED BY <1>10, <1>11

LEMMA AddCatalogues ==
  ASSUME Catalogued(tableCatalog, fieldCatalog), NEW name, NEW schema \in Schemas,
         ~Known(name), AddTable(name, schema)
  PROVE  Catalogued(tableCatalog, fieldCatalog)'
<1>1. PICK order \in SortedFields(schema) :
        Made(tableCatalog, fieldCatalog, name, order, tableCatalog', fieldCatalog')
  BY DEF AddTable, Made
<1>2. order \in Schemas BY SortedIsSchema
<1>3. order \in Seq(Fields) BY <1>2 DEF Schemas
<1>4. Grown(tableCatalog, fieldCatalog, name, order, tableCatalog', fieldCatalog')
  BY <1>1, <1>3, MadeIsGrown
<1>5. RowsIn(tableCatalog, name) = {} BY DEF Known, Rows, RowsIn
<1> QED BY <1>2, <1>4, <1>5, GrownIsCatalogued

(* Whatever tables are created, with whatever fields, one after the other:   *)
(* the layout that GetLayout puts together from the two catalogs keeps the   *)
(* fields of a slot apart, within it and aligned (CreateTable, NewLayout,    *)
(* GetLayout).                                                               *)
THEOREM CatalogIsSound == CatalogSpec => []LayoutIsSound
<1>1. CatalogInit => Catalogued(tableCatalog, fieldCatalog)
  <2> SUFFICES ASSUME tableCatalog = <<>>, fieldCatalog = <<>>
               PROVE  Catalogued(tableCatalog, fieldCatalog)
    BY DEF CatalogInit
  <2>1. \A S : <<>> \in Seq(S) OBVIOUS
  <2>2. DOMAIN <<>> = {} OBVIOUS
  <2> QED BY <2>1, <2>2 DEF Catalogued, RowsIn
<1>2. Catalogued(tableCatalog, fieldCatalog) /\ [CatalogNext]_<<tableCatalog, fieldCatalog>>
        => Catalogued(tableCatalog, fieldCatalog)'
  BY AddCatalogues DEF CatalogNext
<1> QED BY <1>1, <1>2, CataloguedIsSound, PTL DEF CatalogSpec
=============================================================================
