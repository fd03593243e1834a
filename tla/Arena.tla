------------------------------- MODULE Arena --------------------------------
(***************************************************************************)
(* What the users of new and delete rely on: an arena of memory words that *)
(* gives out blocks lying inside it, no two of which overlap while both    *)
(* are live.  A request may be refused at any time.                        *)
(***************************************************************************)
EXTENDS Integers

CONSTANTS
  Words,  \* the addresses of the arena's words
  Sizes   \* the sizes a caller may ask for

VARIABLE live   \* the blocks given out and not returned: [ptr, size]

Extent(block) == block.ptr .. block.ptr + block.size - 1

Init == live = {}

(* The new block, seen after the step, is inside the arena and apart from  *)
(* every block that was live before it.                                    *)
Allocate ==
  \E block \in live' :
    /\ block.size \in Sizes
    /\ Extent(block) \subseteq Words
    /\ \A b \in live : b.ptr # block.ptr /\ Extent(b) \cap Extent(block) = {}
    /\ live' = live \cup {block}

Release == \E block \in live : live' = live \ {block}

Next == Allocate \/ Release

Spec == Init /\ [][Next]_live
=============================================================================
