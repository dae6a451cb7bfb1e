--------------------------- MODULE MC_RackScanner ---------------------------
(***************************************************************************)
(* Small instances of RackScanner: two racks, and a code on the first one  *)
(* that is stored there.                                                   *)
(***************************************************************************)
EXTENDS RackScanner, TLC

CONSTANTS r1, r2, c1

MCPark == [yaw |-> 1, pitch |-> 1]
MCScan == [yaw |-> 0, pitch |-> 1]
MCRoute == <<r1, r2>>
MCAt == c1 :> r1
MCSheet == c1 :> [rack |-> r1, shelf |-> 2]
MCFirst == [rack |-> r1, shelf |-> 1]
=============================================================================
