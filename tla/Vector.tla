------------------------------- MODULE Vector --------------------------------
(***************************************************************************)
(* The template Vector (Kernel/include/Lib/Vector.hpp), as far as pointers *)
(* to its elements can tell: a vector is the array it keeps its elements   *)
(* in, and a pointer to an element is an array and a position in it.       *)
(* Positions count from 1.                                                 *)
(***************************************************************************)
EXTENDS Naturals, Sequences

CONSTANT FirstSpace   \* the elements the first array has room for (8 in the code)

ASSUME SpaceAssumption == FirstSpace \in Nat \ {0}

(* array: which of the arrays allocated so far is in use;  size and space: *)
(* _size and _space;  slots: what has been written to the array, which     *)
(* goes on beyond size after an erase.                                     *)
EmptyVector == [array |-> 0, size |-> 0, space |-> 0, slots |-> <<>>]

Elements(v) == SubSeq(v.slots, 1, v.size)

(* The same array, written to. *)
Updated(v, slots, size) == [array |-> v.array, size |-> size, space |-> v.space, slots |-> slots]

Position(v, i) == [array |-> v.array, index |-> i]

(* A pointer to an element of an array that has not been deleted. *)
IsValid(v, p) == p.array = v.array /\ p.index \in 1 .. Len(v.slots)

reserve(v, newalloc) ==
  IF newalloc <= v.space THEN v
  ELSE [array |-> v.array + 1, size |-> v.size, space |-> newalloc, slots |-> Elements(v)]

resize(v, newsize, val) ==
  LET w     == reserve(v, newsize)
      added == w.size + 1 .. newsize
  IN  Updated(w, [i \in added \cup DOMAIN w.slots |-> IF i \in added THEN val ELSE w.slots[i]],
              newsize)

(* Faulty: a full array stays. *)
Grown_Once(v) == IF v.space = 0 THEN reserve(v, FirstSpace) ELSE v

Grown(v) ==
  IF v.space = 0 THEN reserve(v, FirstSpace)
  ELSE IF v.size = v.space THEN reserve(v, 2 * v.space)
  ELSE v

push_back(v, d) ==
  LET w == Grown(v)
  IN  Updated(w, Elements(w) \o <<d>> \o SubSeq(w.slots, w.size + 2, Len(w.slots)), w.size + 1)

(* Faulty: the loop goes one element too far back. *)
erase_FromBefore(v, i) ==
  Updated(v, [k \in DOMAIN v.slots |->
                IF k >= i - 1 /\ k >= 1 /\ k < v.size THEN v.slots[k + 1] ELSE v.slots[k]],
          v.size - 1)

(* The elements behind position i move one to the left; the last slot      *)
(* keeps what it holds.                                                    *)
erase(v, i) ==
  Updated(v, [k \in DOMAIN v.slots |-> IF k >= i /\ k < v.size THEN v.slots[k + 1] ELSE v.slots[k]],
          v.size - 1)

(* The same for the positions from first to before last. *)
eraseRange(v, first, last) ==
  LET range == last - first
  IN  Updated(v, [k \in DOMAIN v.slots |->
                    IF k \in first .. v.size - range THEN v.slots[k + range] ELSE v.slots[k]],
              v.size - range)

(* The copy constructor leaves _space as it finds it in memory: unset.     *)
Copy(arg, array, unset) ==
  [array |-> array, size |-> arg.size, space |-> unset, slots |-> Elements(arg)]

(* operator=.  Where the elements fit, only the first is copied before it  *)
(* returns; the others are what the array holds, or unset.                 *)
Assigned(v, a, unset) ==
  IF a.size \in 1 .. v.space
    THEN Updated(v, [i \in DOMAIN v.slots \cup 1 .. a.size |->
                       IF i = 1 THEN a.slots[1] ELSE IF i \in DOMAIN v.slots THEN v.slots[i] ELSE unset],
                 a.size)
    ELSE [array |-> v.array + 1, size |-> a.size, space |-> a.size, slots |-> Elements(a)]
=============================================================================
