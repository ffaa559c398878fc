------------------------------ MODULE MCBilling ------------------------------
(* Instances of Billing small enough to be explored completely.               *)
EXTENDS Billing, TLC

Interchangeable == Permutations(Requests)

=============================================================================
