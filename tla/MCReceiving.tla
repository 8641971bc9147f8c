----------------------------- MODULE MCReceiving -----------------------------
(* Small instances of Receiving.                                           *)
EXTENDS Receiving, TLC

CONSTANTS p1, p2, d1, d2, r1, r2, none

(* One domain belongs to both projects, one to the first alone.            *)
OwnsValue == p1 :> {d1, d2} @@ p2 :> {d1}

Symmetric == Permutations(Request)
=============================================================================
