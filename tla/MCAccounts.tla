----------------------------- MODULE MCAccounts -----------------------------
(* Accounts for TLC: one request is as good as another. *)
EXTENDS Accounts, TLC

Symmetry == Permutations(Requests)

=============================================================================
