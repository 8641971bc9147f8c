------------------------------ MODULE MCAccounts ------------------------------
(* Small instances of Accounts.                                            *)
EXTENDS Accounts, TLC

CONSTANTS u1, u2, r1, r2, nobody

Symmetry == Permutations({u1, u2}) \cup Permutations({r1, r2})
=============================================================================
