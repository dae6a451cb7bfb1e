------------------------------ MODULE MC_EventBus ------------------------------
\* Four observations: goods of another bin, goods that lie in two bins, the
\* goods expected, and one of two kinds in a bin.
EXTENDS ReconciliationEngine, TLC

CONSTANTS m1, m2, m3, m4, b1, b2, b3, q1, q2

MCObserved == m1 :> [bin |-> b3, code |-> q2] @@ m2 :> [bin |-> b3, code |-> q1]
              @@ m3 :> [bin |-> b1, code |-> q1] @@ m4 :> [bin |-> b2, code |-> q2]
MCStock == {[sku |-> q1, bin |-> b1, qty |-> 1], [sku |-> q1, bin |-> b2, qty |-> 2],
            [sku |-> q2, bin |-> b2, qty |-> 1]}
=============================================================================
