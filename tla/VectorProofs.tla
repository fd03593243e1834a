----------------------------- MODULE VectorProofs -----------------------------
(***************************************************************************)
(* What the operations of Vector do to the elements, for every vector.     *)
(***************************************************************************)
EXTENDS Vector, TLAPS

(* A vector whose elements are in S: it has never more elements than it    *)
(* has written, nor written more than there is room for.                   *)
VectorOf(S) ==
  {v \in [array : Nat, size : Nat, space : Nat, slots : Seq(S)] :
     v.size <= Len(v.slots) /\ Len(v.slots) <= v.space}

LEMMA FunctionIsSequence ==
  ASSUME NEW S, NEW n \in Nat, NEW f \in [1 .. n -> S]
  PROVE  f \in Seq(S) /\ Len(f) = n
OBVIOUS

LEMMA ConcatLemma ==
  ASSUME NEW S, NEW s \in Seq(S), NEW t \in Seq(S)
  PROVE  s \o t \in Seq(S) /\ Len(s \o t) = Len(s) + Len(t)
OBVIOUS

LEMMA SequencesEqual ==
  ASSUME NEW S, NEW s \in Seq(S), NEW t \in Seq(S), Len(s) = Len(t),
         \A i \in 1 .. Len(s) : s[i] = t[i]
  PROVE  s = t
OBVIOUS

LEMMA ElementsLemma ==
  ASSUME NEW S, NEW v \in VectorOf(S)
  PROVE  /\ Elements(v) \in Seq(S)
         /\ Len(Elements(v)) = v.size
         /\ \A i \in 1 .. v.size : Elements(v)[i] = v.slots[i]
BY DEF Elements, VectorOf

LEMMA EmptyLemma ==
  ASSUME NEW S
  PROVE  EmptyVector \in VectorOf(S)
BY DEF EmptyVector, VectorOf

LEMMA UpdatedLemma ==
  ASSUME NEW S, NEW v \in VectorOf(S), NEW slots \in Seq(S), NEW size \in Nat,
         size <= Len(slots), Len(slots) <= v.space
  PROVE  /\ Updated(v, slots, size) \in VectorOf(S)
         /\ Updated(v, slots, size).array = v.array
         /\ Updated(v, slots, size).size = size
         /\ Elements(Updated(v, slots, size)) = SubSeq(slots, 1, size)
         /\ Elements(Updated(v, slots, size)) \in Seq(S)
         /\ Len(Elements(Updated(v, slots, size))) = size
         /\ \A i \in 1 .. size : Elements(Updated(v, slots, size))[i] = slots[i]
BY DEF Updated, VectorOf, Elements

(* reserve keeps the elements, whether or not it moves them. *)
LEMMA ReserveLemma ==
  ASSUME NEW S, NEW v \in VectorOf(S), NEW n \in Nat
  PROVE  /\ reserve(v, n) \in VectorOf(S)
         /\ Elements(reserve(v, n)) = Elements(v)
         /\ reserve(v, n).size = v.size
         /\ reserve(v, n).space >= n /\ reserve(v, n).space >= v.space
<1>1. CASE n <= v.space
  BY <1>1 DEF reserve, VectorOf
<1>2. CASE ~ (n <= v.space)
  <2> DEFINE w == [array |-> v.array + 1, size |-> v.size, space |-> n, slots |-> Elements(v)]
  <2>1. reserve(v, n) = w
    BY <1>2 DEF reserve
  <2>2. w \in VectorOf(S)
    BY <1>2, ElementsLemma DEF VectorOf
  <2>3. Elements(w) = Elements(v)
    BY ElementsLemma DEF Elements, VectorOf
  <2> QED
    BY <1>2, <2>1, <2>2, <2>3 DEF VectorOf
<1> QED
  BY <1>1, <1>2

(* push_back finds room. *)
LEMMA GrownLemma ==
  ASSUME NEW S, NEW v \in VectorOf(S)
  PROVE  /\ Grown(v) \in VectorOf(S)
         /\ Elements(Grown(v)) = Elements(v)
         /\ Grown(v).size = v.size /\ v.size < Grown(v).space
         /\ v.size # v.space => Grown(v) = v
<1>1. v.size \in Nat /\ v.space \in Nat /\ v.size <= v.space
  BY DEF VectorOf
<1>2. CASE v.space = 0
  <2>1. FirstSpace \in Nat /\ FirstSpace > 0 /\ Grown(v) = reserve(v, FirstSpace)
    BY <1>2, SpaceAssumption DEF Grown
  <2>2. /\ Grown(v) \in VectorOf(S) /\ Elements(Grown(v)) = Elements(v)
        /\ Grown(v).size = v.size /\ Grown(v).space >= FirstSpace
    BY <2>1, ReserveLemma
  <2>3. Grown(v).space \in Nat
    BY <2>2 DEF VectorOf
  <2> QED
    BY <1>1, <1>2, <2>1, <2>2, <2>3
<1>3. CASE v.space # 0 /\ v.size = v.space
  <2>1. 2 * v.space \in Nat /\ 2 * v.space > v.space /\ Grown(v) = reserve(v, 2 * v.space)
    BY <1>1, <1>3 DEF Grown
  <2>2. /\ Grown(v) \in VectorOf(S) /\ Elements(Grown(v)) = Elements(v)
        /\ Grown(v).size = v.size /\ Grown(v).space >= 2 * v.space
    BY <2>1, ReserveLemma
  <2>3. Grown(v).space \in Nat
    BY <2>2 DEF VectorOf
  <2> QED
    BY <1>1, <1>3, <2>1, <2>2, <2>3
<1>4. CASE v.space # 0 /\ v.size # v.space
  BY <1>1, <1>4 DEF Grown
<1> QED
  BY <1>2, <1>3, <1>4

(* push_back keeps the elements, through growth, too, and adds its own     *)
(* behind them.                                                            *)
THEOREM PushBackAppends ==
  ASSUME NEW S, NEW v \in VectorOf(S), NEW d \in S
  PROVE  /\ push_back(v, d) \in VectorOf(S)
         /\ Elements(push_back(v, d)) = Append(Elements(v), d)
         /\ push_back(v, d).size = v.size + 1
         /\ v.size # v.space => push_back(v, d).array = v.array
<1> DEFINE w == Grown(v)
           rest == SubSeq(w.slots, w.size + 2, Len(w.slots))
           new == Elements(w) \o <<d>> \o rest
<1>1. w \in VectorOf(S) /\ Elements(w) = Elements(v) /\ w.size = v.size /\ v.size < w.space
  BY GrownLemma
<1>2. push_back(v, d) = Updated(w, new, w.size + 1)
  BY DEF push_back
<1>3. v.size # v.space => w.array = v.array
  BY GrownLemma
<1> HIDE DEF w
<1>4. Elements(w) \in Seq(S) /\ Len(Elements(w)) = w.size
  BY <1>1, ElementsLemma
<1>5. w.size \in Nat /\ w.slots \in Seq(S) /\ Len(w.slots) <= w.space /\ w.space \in Nat
  BY <1>1 DEF VectorOf
<1>6. rest \in Seq(S) /\ Len(rest) = IF Len(w.slots) > w.size THEN Len(w.slots) - w.size - 1 ELSE 0
  BY <1>5
<1> HIDE DEF rest
<1>7. new \in Seq(S) /\ Len(new) = w.size + 1 + Len(rest)
  <2>1. <<d>> \in Seq(S) /\ Len(<<d>>) = 1
    OBVIOUS
  <2>2. Elements(w) \o <<d>> \in Seq(S) /\ Len(Elements(w) \o <<d>>) = w.size + 1
    BY <1>4, <2>1
  <2>3. new \in Seq(S) /\ Len(new) = Len(Elements(w) \o <<d>>) + Len(rest)
    BY <1>6, <2>2, ConcatLemma
  <2> QED
    BY <2>2, <2>3
<1>8. ASSUME NEW i \in 1 .. w.size + 1
      PROVE  new[i] = Append(Elements(w), d)[i]
  BY <1>4, <1>5, <1>6
<1> HIDE DEF new
<1>9. w.size + 1 <= Len(new) /\ Len(new) <= w.space
  BY <1>1, <1>5, <1>6, <1>7
<1>10. /\ Updated(w, new, w.size + 1) \in VectorOf(S)
       /\ Updated(w, new, w.size + 1).array = w.array
       /\ Updated(w, new, w.size + 1).size = w.size + 1
       /\ Elements(Updated(w, new, w.size + 1)) \in Seq(S)
       /\ Len(Elements(Updated(w, new, w.size + 1))) = w.size + 1
       /\ \A i \in 1 .. w.size + 1 : Elements(Updated(w, new, w.size + 1))[i] = new[i]
  <2>1. w \in VectorOf(S) /\ new \in Seq(S) /\ w.size + 1 \in Nat /\ w.size + 1 <= Len(new) /\ Len(new) <= w.space
    BY <1>1, <1>5, <1>7, <1>9
  <2> QED
    BY <2>1, UpdatedLemma
<1>11. Append(Elements(w), d) \in Seq(S) /\ Len(Append(Elements(w), d)) = w.size + 1
  BY <1>4, <1>5
<1>12. Elements(Updated(w, new, w.size + 1)) = Append(Elements(w), d)
  <2>1. \A i \in 1 .. w.size + 1 : Elements(Updated(w, new, w.size + 1))[i] = Append(Elements(w), d)[i]
    BY <1>8, <1>10
  <2> QED
    BY <1>10, <1>11, <2>1, SequencesEqual
<1> QED
  BY <1>1, <1>2, <1>3, <1>10, <1>12

(* erase takes out its element and no other, in the array it was in. *)
THEOREM EraseRemoves ==
  ASSUME NEW S, NEW v \in VectorOf(S), NEW i \in 1 .. v.size
  PROVE  /\ erase(v, i) \in VectorOf(S)
         /\ erase(v, i).array = v.array /\ erase(v, i).size = v.size - 1
         /\ \A k \in 1 .. v.size - 1 :
              Elements(erase(v, i))[k] = IF k < i THEN Elements(v)[k] ELSE Elements(v)[k + 1]
<1> DEFINE new == [k \in DOMAIN v.slots |-> IF k >= i /\ k < v.size THEN v.slots[k + 1] ELSE v.slots[k]]
<1>1. erase(v, i) = Updated(v, new, v.size - 1)
  BY DEF erase
<1>2. v.size \in Nat /\ v.slots \in Seq(S) /\ v.size <= Len(v.slots) /\ v.size >= 1 /\ Len(v.slots) <= v.space
  BY DEF VectorOf
<1>3. new \in Seq(S) /\ Len(new) = Len(v.slots)
  BY <1>2
<1>4. ASSUME NEW k \in 1 .. v.size - 1
      PROVE  new[k] = IF k < i THEN v.slots[k] ELSE v.slots[k + 1]
  BY <1>2
<1> HIDE DEF new
<1>5. /\ Updated(v, new, v.size - 1) \in VectorOf(S)
      /\ Updated(v, new, v.size - 1).array = v.array
      /\ Updated(v, new, v.size - 1).size = v.size - 1
      /\ \A k \in 1 .. v.size - 1 : Elements(Updated(v, new, v.size - 1))[k] = new[k]
  <2>1. v.size - 1 \in Nat /\ v.size - 1 <= Len(new) /\ Len(new) <= v.space
    BY <1>2, <1>3
  <2> QED
    BY <1>3, <2>1, UpdatedLemma
<1>6. ASSUME NEW k \in 1 .. v.size - 1
      PROVE  new[k] = IF k < i THEN Elements(v)[k] ELSE Elements(v)[k + 1]
  <2>1. k \in 1 .. v.size /\ k + 1 \in 1 .. v.size
    BY <1>2
  <2>2. Elements(v)[k] = v.slots[k] /\ Elements(v)[k + 1] = v.slots[k + 1]
    BY <2>1, ElementsLemma
  <2> QED
    BY <1>4, <2>2
<1> QED
  BY <1>1, <1>5, <1>6

(* eraseRange takes out its elements and no other. *)
THEOREM EraseRangeRemoves ==
  ASSUME NEW S, NEW v \in VectorOf(S),
         NEW first \in 1 .. v.size + 1, NEW last \in first .. v.size + 1
  PROVE  /\ eraseRange(v, first, last) \in VectorOf(S)
         /\ eraseRange(v, first, last).size = v.size - (last - first)
         /\ \A k \in 1 .. v.size - (last - first) :
              Elements(eraseRange(v, first, last))[k] =
                IF k < first THEN Elements(v)[k] ELSE Elements(v)[k + (last - first)]
<1> DEFINE range == last - first
           new == [k \in DOMAIN v.slots |->
                     IF k \in first .. v.size - range THEN v.slots[k + range] ELSE v.slots[k]]
<1>1. eraseRange(v, first, last) = Updated(v, new, v.size - range)
  BY DEF eraseRange
<1>2. v.size \in Nat /\ v.slots \in Seq(S) /\ v.size <= Len(v.slots) /\ Len(v.slots) <= v.space
  BY DEF VectorOf
<1>3. range \in Nat /\ range <= v.size
  BY <1>2
<1> HIDE DEF range
<1>4. new \in Seq(S) /\ Len(new) = Len(v.slots)
  <2>1. \A k \in DOMAIN v.slots :
          (IF k \in first .. v.size - range THEN v.slots[k + range] ELSE v.slots[k]) \in S
    BY <1>2, <1>3
  <2>2. DOMAIN v.slots = 1 .. Len(v.slots) /\ Len(v.slots) \in Nat
    BY <1>2
  <2>3. new \in [1 .. Len(v.slots) -> S]
    BY <2>1, <2>2
  <2> QED
    BY <2>2, <2>3, FunctionIsSequence
<1>5. ASSUME NEW k \in 1 .. v.size - range
      PROVE  new[k] = IF k < first THEN v.slots[k] ELSE v.slots[k + range]
  BY <1>2, <1>3
<1> HIDE DEF new
<1>6. /\ Updated(v, new, v.size - range) \in VectorOf(S)
      /\ Updated(v, new, v.size - range).size = v.size - range
      /\ \A k \in 1 .. v.size - range : Elements(Updated(v, new, v.size - range))[k] = new[k]
  <2>1. v.size - range \in Nat /\ v.size - range <= Len(new) /\ Len(new) <= v.space
    BY <1>2, <1>3, <1>4
  <2> QED
    BY <1>4, <2>1, UpdatedLemma
<1>7. ASSUME NEW k \in 1 .. v.size - range
      PROVE  new[k] = IF k < first THEN Elements(v)[k] ELSE Elements(v)[k + range]
  <2>1. k \in 1 .. v.size /\ (k >= first => k + range \in 1 .. v.size)
    BY <1>2, <1>3
  <2> QED
    BY <1>5, <2>1, ElementsLemma
<1> QED
  BY <1>1, <1>6, <1>7 DEF range

(* resize keeps the elements there is room for and fills up with val. *)
THEOREM ResizeFills ==
  ASSUME NEW S, NEW v \in VectorOf(S), NEW n \in Nat, NEW val \in S
  PROVE  /\ resize(v, n, val) \in VectorOf(S)
         /\ Elements(resize(v, n, val)) = [i \in 1 .. n |-> IF i <= v.size THEN Elements(v)[i] ELSE val]
<1> DEFINE w == reserve(v, n)
           added == w.size + 1 .. n
           new == [i \in added \cup DOMAIN w.slots |-> IF i \in added THEN val ELSE w.slots[i]]
           longer == IF n > Len(w.slots) THEN n ELSE Len(w.slots)
<1>1. w \in VectorOf(S) /\ Elements(w) = Elements(v) /\ w.size = v.size /\ w.space >= n
  BY ReserveLemma
<1>2. resize(v, n, val) = Updated(w, new, n)
  BY DEF resize
<1> HIDE DEF w
<1>3. /\ w.size \in Nat /\ w.slots \in Seq(S) /\ w.size <= Len(w.slots)
      /\ Len(w.slots) <= w.space /\ w.space \in Nat
  BY <1>1 DEF VectorOf
<1>4. added \cup DOMAIN w.slots = 1 .. longer /\ longer \in Nat /\ longer >= n /\ longer <= w.space
  BY <1>1, <1>3
<1>5. \A i \in 1 .. longer : (IF i \in added THEN val ELSE w.slots[i]) \in S
  BY <1>3
<1> HIDE DEF longer
<1>6. new \in Seq(S) /\ Len(new) = longer
  <2>1. new \in [1 .. longer -> S]
    BY <1>4, <1>5
  <2> QED
    BY <1>4, <2>1, FunctionIsSequence
<1>7. ASSUME NEW i \in 1 .. n
      PROVE  new[i] = IF i <= w.size THEN w.slots[i] ELSE val
  BY <1>3, <1>4
<1> HIDE DEF new
<1>8. /\ Updated(w, new, n) \in VectorOf(S)
      /\ Elements(Updated(w, new, n)) \in Seq(S)
      /\ Len(Elements(Updated(w, new, n))) = n
      /\ \A i \in 1 .. n : Elements(Updated(w, new, n))[i] = new[i]
  <2>1. n <= Len(new) /\ Len(new) <= w.space
    BY <1>4, <1>6
  <2>2. w \in VectorOf(S) /\ new \in Seq(S) /\ n \in Nat
    BY <1>1, <1>6
  <2> HIDE DEF added
  <2> DEFINE u == Updated(w, new, n)
  <2>3. /\ u \in VectorOf(S)
        /\ Elements(u) \in Seq(S)
        /\ Len(Elements(u)) = n
    BY ONLY <2>1, <2>2, UpdatedLemma, SMTT(30)
  <2>4. \A i \in 1 .. n : Elements(u)[i] = new[i]
    BY ONLY <2>1, <2>2, UpdatedLemma, SMTT(30)
  <2> QED
    BY ONLY <2>3, <2>4
<1>9. ASSUME NEW i \in 1 .. n
      PROVE  Elements(Updated(w, new, n))[i] = IF i <= v.size THEN Elements(v)[i] ELSE val
  BY <1>1, <1>3, <1>7, <1>8, ElementsLemma
<1>10. Elements(Updated(w, new, n)) = [i \in 1 .. n |-> IF i <= v.size THEN Elements(v)[i] ELSE val]
  BY <1>8, <1>9
<1> QED
  BY <1>2, <1>8, <1>10

(* A copy has the elements of what it was copied from, and is a vector,    *)
(* to which elements can be added, if the memory it is made in happens to  *)
(* hold a _space that fits.                                                *)
THEOREM CopyEqual ==
  ASSUME NEW S, NEW v \in VectorOf(S), NEW array \in Nat, NEW unset \in Nat
  PROVE  /\ Elements(Copy(v, array, unset)) = Elements(v)
         /\ unset >= v.size => Copy(v, array, unset) \in VectorOf(S)
<1>1. Elements(v) \in Seq(S) /\ Len(Elements(v)) = v.size /\ v.size \in Nat
  BY ElementsLemma DEF VectorOf
<1>2. Elements(Copy(v, array, unset)) = SubSeq(Elements(v), 1, v.size)
  BY DEF Elements, Copy
<1>3. SubSeq(Elements(v), 1, v.size) = Elements(v)
  BY <1>1
<1>4. unset >= v.size => Copy(v, array, unset) \in VectorOf(S)
  BY <1>1 DEF Copy, VectorOf
<1> QED
  BY <1>2, <1>3, <1>4

(* Assignment makes the elements equal where they need a new array, or are *)
(* at most one; where they fit, the elements from the second on are those  *)
(* that were there before.                                                 *)
THEOREM AssignmentCopies ==
  ASSUME NEW S, NEW v \in VectorOf(S), NEW a \in VectorOf(S), NEW unset \in S
  PROVE  /\ Assigned(v, a, unset) \in VectorOf(S)
         /\ a.size > v.space \/ a.size <= 1 => Elements(Assigned(v, a, unset)) = Elements(a)
         /\ a.size \in 1 .. v.size =>
              \A i \in 2 .. a.size : Elements(Assigned(v, a, unset))[i] = Elements(v)[i]
<1>1. a.size \in Nat /\ Elements(a) \in Seq(S) /\ Len(Elements(a)) = a.size
  BY ElementsLemma DEF VectorOf
<1>2. v.size \in Nat /\ v.slots \in Seq(S) /\ v.size <= Len(v.slots) /\ Len(v.slots) <= v.space /\ v.space \in Nat
  BY DEF VectorOf
<1>3. CASE a.size \notin 1 .. v.space
  <2> DEFINE r == [array |-> v.array + 1, size |-> a.size, space |-> a.size, slots |-> Elements(a)]
  <2>1. Assigned(v, a, unset) = r
    BY <1>3 DEF Assigned
  <2>2. r \in VectorOf(S)
    BY <1>1 DEF VectorOf
  <2>3. Elements(r) = Elements(a)
    BY <1>1 DEF Elements
  <2> QED
    BY <1>1, <1>2, <1>3, <2>1, <2>2, <2>3
<1>4. CASE a.size \in 1 .. v.space
  <2> DEFINE longer == IF a.size > Len(v.slots) THEN a.size ELSE Len(v.slots)
             new == [i \in DOMAIN v.slots \cup 1 .. a.size |->
                       IF i = 1 THEN a.slots[1] ELSE IF i \in DOMAIN v.slots THEN v.slots[i] ELSE unset]
  <2>1. Assigned(v, a, unset) = Updated(v, new, a.size)
    BY <1>4 DEF Assigned
  <2>2. DOMAIN v.slots \cup 1 .. a.size = 1 .. longer /\ longer \in Nat /\ a.size <= longer /\ longer <= v.space
    BY <1>1, <1>2, <1>4
  <2>3. a.slots[1] \in S /\ a.slots[1] = Elements(a)[1]
    BY <1>1, <1>4, ElementsLemma DEF VectorOf
  <2>4. \A i \in 1 .. longer :
          (IF i = 1 THEN a.slots[1] ELSE IF i \in DOMAIN v.slots THEN v.slots[i] ELSE unset) \in S
    BY <1>2, <2>3
  <2> HIDE DEF longer
  <2>5. new \in Seq(S) /\ Len(new) = longer
    <3>1. new \in [1 .. longer -> S]
      BY <2>2, <2>4
    <3> QED
      BY <2>2, <3>1, FunctionIsSequence
  <2>6. \A i \in 1 .. a.size : new[i] = IF i = 1 THEN a.slots[1]
                                        ELSE IF i \in DOMAIN v.slots THEN v.slots[i] ELSE unset
    BY <1>1
  <2> HIDE DEF new
  <2>7. /\ Updated(v, new, a.size) \in VectorOf(S)
        /\ Elements(Updated(v, new, a.size)) \in Seq(S)
        /\ Len(Elements(Updated(v, new, a.size))) = a.size
        /\ \A i \in 1 .. a.size : Elements(Updated(v, new, a.size))[i] = new[i]
    BY <1>1, <1>2, <2>2, <2>5, UpdatedLemma
  <2>8. a.size <= 1 => Elements(Updated(v, new, a.size)) = Elements(a)
    <3>1. SUFFICES ASSUME a.size = 1 PROVE Elements(Updated(v, new, a.size)) = Elements(a)
      BY <1>1, <1>4
    <3>2. Elements(Updated(v, new, a.size))[1] = Elements(a)[1]
      BY <2>3, <2>6, <2>7, <3>1
    <3> QED
      BY <1>1, <2>7, <3>1, <3>2
  <2>9. ASSUME a.size \in 1 .. v.size, NEW i \in 2 .. a.size
        PROVE  Elements(Updated(v, new, a.size))[i] = Elements(v)[i]
    <3>1. i \in 1 .. v.size /\ i \in 1 .. a.size /\ i # 1 /\ i \in DOMAIN v.slots
      BY <1>1, <1>2, <2>9
    <3>2. Elements(Updated(v, new, a.size))[i] = v.slots[i]
      BY <2>6, <2>7, <3>1
    <3> QED
      BY <3>1, <3>2, ElementsLemma
  <2> QED
    BY <1>1, <1>2, <1>4, <2>1, <2>7, <2>8, <2>9
<1> QED
  BY <1>3, <1>4
=============================================================================
