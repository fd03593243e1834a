------------------------------ MODULE PagePool -------------------------------
(***************************************************************************)
(* What the callers of allocBlock rely on: a pool of pages.  The pool      *)
(* first learns which pages are reserved; after that a request gets a      *)
(* naturally aligned run of pages that is neither reserved nor held, or is *)
(* refused.  How the pool finds the run is left open.                      *)
(***************************************************************************)
EXTENDS Integers

CONSTANTS
  Requests,  \* page counts a caller may ask for
  NoBlock    \* the answer to a request that is refused

VARIABLES
  end,       \* the pages of the pool are those below this one
  reserved,  \* pages that must not be handed out
  held,      \* pages that have been handed out
  result     \* the last request and its answer

poolVars == <<end, reserved, held, result>>

Run(first, count) == first .. first + count - 1

(* first is a multiple of the smallest power of two that holds the request *)
Aligned(first, count) ==
  \E size \in {1, 2, 4, 8, 16} : size >= count /\ size < 2 * count /\ first % size = 0

Init ==
  /\ end \in Nat
  /\ reserved = {}
  /\ held = {}
  /\ result = [count |-> 0, page |-> NoBlock]

Reserve ==
  /\ held = {}
  /\ reserved \subseteq reserved'
  /\ UNCHANGED <<end, held, result>>

Give(count) ==
  /\ result'.count = count
  /\ result'.page \in Nat
  /\ Aligned(result'.page, count)
  /\ Run(result'.page, count) \cap (held \cup reserved) = {}
  /\ \A p \in Run(result'.page, count) : p < end
  /\ held' = held \cup Run(result'.page, count)
  /\ UNCHANGED <<end, reserved>>

Decline(count) ==
  /\ result' = [count |-> count, page |-> NoBlock]
  /\ UNCHANGED <<end, reserved, held>>

Next == Reserve \/ \E count \in Requests : Give(count) \/ Decline(count)

Spec == Init /\ [][Next]_poolVars
=============================================================================
