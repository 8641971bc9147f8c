------------------------------ MODULE MCApiCalls ------------------------------
(* Small instances of ApiCalls: two calls with one key.                    *)
EXTENDS ApiCalls, TLC

CONSTANTS c1, c2, k1

OneKey == c1 :> k1 @@ c2 :> k1
=============================================================================
