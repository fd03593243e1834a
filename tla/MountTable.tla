----------------------------- MODULE MountTable ------------------------------
(***************************************************************************)
(* What the users of the VFS rely on: a table from paths to file systems.  *)
(* The first path mounted is the root: it stays.                           *)
(***************************************************************************)
CONSTANTS
  FileSystems,  \* what can be mounted
  NoPath        \* the root before anything is mounted

VARIABLES
  table,  \* the mounted paths and their file systems: [path, fs]
  root    \* the path mounted first

tableVars == <<table, root>>

Init == table = {} /\ root = NoPath

Mount ==
  \E entry \in table' \ table :
    /\ entry.fs \in FileSystems
    /\ \A other \in table : other.path # entry.path
    /\ table' = table \cup {entry}
    /\ root' = IF table = {} THEN entry.path ELSE root

Unmount ==
  \E entry \in table :
    /\ entry.path # root
    /\ table' = table \ {entry}
    /\ UNCHANGED root

Spec == Init /\ [][Mount \/ Unmount]_tableVars
=============================================================================
