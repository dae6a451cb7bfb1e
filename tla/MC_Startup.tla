------------------------------ MODULE MC_Startup ------------------------------
(* One robot and one client, two callers, a sheet of one product. *)
EXTENDS Startup

CONSTANTS s1, b1
MCSheet == [s \in {s1} |-> b1]
=============================================================================
