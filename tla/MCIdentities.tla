----------------------------- MODULE MCIdentities -----------------------------
(* Small instances of Identities.                                          *)
EXTENDS Identities, TLC

CONSTANTS p1, p2, a1, v1, r1, none

(* One account for the instance.                                           *)
OneAccount == p1 :> a1 @@ p2 :> a1
=============================================================================
