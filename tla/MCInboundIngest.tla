--------------------------- MODULE MCInboundIngest ---------------------------
(* Small instances of InboundIngest.                                       *)
EXTENDS InboundIngest, TLC

CONSTANTS p1, p2, top, sub, n1, n2, o1, s1, s2, h1, h2, none

(* The first project owns example.com, the second mail.example.com.        *)
OwnsValue == p1 :> {top} @@ p2 :> {sub}
ParentsValue == "sub" :> <<sub, top>> @@ "top" :> <<top>>

(* One message, announced under two ids.                                   *)
StoredValue == n1 :> o1 @@ n2 :> o1
SnsValue == n1 :> s1 @@ n2 :> s2
RuleValue == n1 :> sub @@ n2 :> sub
RecipientsValue == n1 :> <<"top", "sub">> @@ n2 :> <<"sub">>
=============================================================================
