---------------------------- MODULE AddressSpace -----------------------------
(***************************************************************************)
(* What the kernel relies on of its page tables: a function from virtual   *)
(* pages to physical frames that changes one page at a time, by request,   *)
(* and never for a page that is mapped already.  (A page whose mapping     *)
(* changed would need its TLB entry flushed, which mapPage does not do.)   *)
(* The promise ends for good when the tables stop being sound.             *)
(***************************************************************************)
CONSTANTS
  Pages,   \* the virtual pages
  Frames,  \* what a page can be mapped to
  Window,  \* the window: the mapping the kernel starts on, a function
  None     \* not mapped

VARIABLES
  space,   \* the mapping in force
  sound    \* the tables are where the kernel can write them

spaceVars == <<space, sound>>

Init ==
  /\ space = [p \in Pages |-> IF p \in DOMAIN Window THEN Window[p] ELSE None]
  /\ sound = TRUE

Map ==
  /\ sound /\ sound'
  /\ \E p \in Pages :
       /\ space[p] = None
       /\ space'[p] \in Frames
       /\ space' = [space EXCEPT ![p] = space'[p]]

Unsound == ~ sound'

Spec == Init /\ [][Map \/ Unsound]_spaceVars
=============================================================================
