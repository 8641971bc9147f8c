--------------------------- MODULE MCEventIngest ---------------------------
(* Small instances of EventIngest.                                         *)
EXTENDS EventIngest, TLC

CONSTANTS bounce, complaint, receipt, m, other, a1, a2, h1, h2, none

(* A bounce and a complaint that condemn the same two recipients of one    *)
(* message, and its delivery receipt.                                      *)
AboutValue == bounce :> m @@ complaint :> m @@ receipt :> m
NamesValue == bounce :> {a1, a2} @@ complaint :> {a1, a2} @@ receipt :> {}
VisibleValue == m :> {a1}
BlindValue == m :> {a2}
=============================================================================
