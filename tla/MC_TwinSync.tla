---------------------------- MODULE MC_TwinSync ----------------------------
(***************************************************************************)
(* A small instance of TwinSync: one client that joins while a scanner and *)
(* a bin are updated.                                                      *)
(***************************************************************************)
EXTENDS TwinSync
=============================================================================
