---------------------------- MODULE MCStateFile -----------------------------
(***************************************************************************)
(* Instances of StateFile for TLC.                                         *)
(***************************************************************************)
EXTENDS StateFile

\* The second job depends on the first; the third is independent of both.
ForkDeps == <<{}, {1}, {}>>
=============================================================================
