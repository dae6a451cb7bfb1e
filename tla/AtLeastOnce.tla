---------------------------- MODULE AtLeastOnce ----------------------------
(***************************************************************************)
(* What the edge agent's offline buffer promises: an item that was kept    *)
(* leaves the sender only by arriving.  An item that was only produced may *)
(* be dropped.  How often an item arrives is not said.                     *)
(***************************************************************************)
CONSTANT Items

VARIABLES
    produced, \* the items there are
    fresh,    \* produced, neither kept nor arrived, and not given up
    kept,     \* kept by the sender, not arrived
    arrived   \* at the receiver

vars == <<produced, fresh, kept, arrived>>

Init == produced = {} /\ fresh = {} /\ kept = {} /\ arrived = {}

Produce(o) ==
    /\ o \notin produced
    /\ produced' = produced \cup {o}
    /\ fresh' = fresh \cup {o}
    /\ UNCHANGED <<kept, arrived>>

Keep(o) ==
    /\ o \in fresh
    /\ fresh' = fresh \ {o}
    /\ kept' = kept \cup {o}
    /\ UNCHANGED <<produced, arrived>>

Arrive(S) ==
    /\ S \subseteq fresh \cup kept \cup arrived
    /\ fresh' = fresh \ S
    /\ kept' = kept \ S
    /\ arrived' = arrived \cup S
    /\ UNCHANGED produced

Drop(S) ==
    /\ S \subseteq fresh
    /\ fresh' = fresh \ S
    /\ UNCHANGED <<produced, kept, arrived>>

Next ==
    \/ \E o \in Items : Produce(o) \/ Keep(o)
    \/ \E S \in SUBSET Items : Arrive(S) \/ Drop(S)

Spec == Init /\ [][Next]_vars
=============================================================================
