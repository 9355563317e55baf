--------------------------- MODULE MCStripeWebhook ---------------------------
(* Small instances of StripeWebhook for TLC.                               *)
EXTENDS StripeWebhook, TLC

Symmetry == Permutations(Worker) \cup Permutations(Intent)
=============================================================================
