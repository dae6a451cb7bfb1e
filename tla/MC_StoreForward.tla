--------------------------- MODULE MC_StoreForward ---------------------------
(* A small instance of StoreForward: its two sync tasks are the actors. *)
EXTENDS StoreForward
=============================================================================
