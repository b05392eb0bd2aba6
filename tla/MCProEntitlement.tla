-------------------------- MODULE MCProEntitlement --------------------------
(* Small instances of ProEntitlement for TLC. *)
EXTENDS ProEntitlement, TLC

\* Accounts, purchases and requests are interchangeable.
Symmetry ==
    Permutations(Users) \cup Permutations(Purchases) \cup Permutations(Calls)
=============================================================================
