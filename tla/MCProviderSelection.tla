------------------------- MODULE MCProviderSelection -------------------------
(* Small instances of ProviderSelection for TLC.                           *)
EXTENDS ProviderSelection, TLC

CONSTANT c1   \* the case that is dispatched

OneUnit   == [p \in Provider |-> 1]
Modes     == [c \in Case |-> IF c = c1 THEN "auto_dispatch" ELSE "customer_choice"]
Symmetry  == Permutations(Offer)
=============================================================================
