-------------------------------- MODULE MCVFS --------------------------------
(* Small instances of VFS. *)
EXTENDS VFS

(* File systems and disks are never told apart. *)
Symmetric == Permutations(FileSystems) \cup Permutations(Devices)

(* /, /dev, /dev/a, and /deva, which begins like /dev.                     *)
SomePaths == { <<"/">>, <<"/", "dev">>, <<"/", "dev", "/", "a">>, <<"/", "dev", "a">> }

(* Paths that mount refuses, too: /dev/ and //a.                           *)
AllPaths == SomePaths \cup { <<"/", "dev", "/">>, <<"/", "/", "a">> }

SomeNames == { <<"a">> }
=============================================================================
