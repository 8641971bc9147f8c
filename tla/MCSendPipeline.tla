--------------------------- MODULE MCSendPipeline ---------------------------
(* Small instances of SendPipeline: a retried request and its original     *)
(* share a key, and one recipient is blind-copied.                         *)
EXTENDS SendPipeline, TLC

CONSTANTS r1, r2, k1, a1, a2

RepeatKey     == r1 :> k1 @@ r2 :> k1
RepeatVisible == r1 :> {a1} @@ r2 :> {a1}
RepeatBlind   == r1 :> {a2} @@ r2 :> {a2}
=============================================================================
