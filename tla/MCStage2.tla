------------------------------ MODULE MCStage2 -------------------------------
(* The drives and calls of Stage2's runs. *)
EXTENDS Stage2

TheNames == {<<"ata0m">>, <<"ata0s">>}
ThePaths == {DevPath, DiskPath}

(* A register that counts to 2 stands for one that counts to 256: none,    *)
(* one, as many as it holds, and one more.                                 *)
Counts == {0, 1, 2, 3}
=============================================================================
