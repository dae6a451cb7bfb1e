------------------------- MODULE MC_MissionDispatch -------------------------
(***************************************************************************)
(* Small instances of MissionDispatch.  Robots and sessions are            *)
(* interchangeable where every robot may fail and drain alike, so the run  *)
(* of safety properties uses their permutations; the run under fairness    *)
(* does not.                                                               *)
(***************************************************************************)
EXTENDS MissionDispatch, TLC

Symmetry == Permutations(Sessions) \cup Permutations(Robots)
=============================================================================
