---------------------- MODULE MC_ObservationPipeline ----------------------
(***************************************************************************)
(* A small instance of ObservationPipeline: a bin with a SKU, an empty     *)
(* one, and batches of one and of two observations.                        *)
(***************************************************************************)
EXTENDS ObservationPipeline, TLC

CONSTANTS b1, b2, x, y

MCExpected == (b1 :> {x}) @@ (b2 :> {})
Seen(b, s) == [bin |-> b, seen |-> s]
MCBatches == {<<Seen(b1, x), Seen(b2, None)>>, <<Seen(b1, None), Seen(b1, y)>>}
=============================================================================
