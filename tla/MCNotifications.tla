------------------------- MODULE MCNotifications --------------------------
(* A small instance of Notifications, with the requests of AwsAccount.     *)
EXTENDS Notifications, TLC

CONSTANTS p1, p2, k1, k2, a1, a2, m, mine, theirs, unsigned, hello, u1, u2, x, y

AccountOfValue == k1 :> a1 @@ k2 :> a2

(* A message of p1's is said to have bounced: by the account it was sent   *)
(* through, by another, and by nobody SNS knows.                           *)
Bounced == [name |-> "bounce", mail |-> m, bounce |-> "Permanent",
            listed |-> {x}, destination |-> {x, y}]
Late == [Bounced EXCEPT !.bounce = "Transient"]
Says(type, topic, signed, url, event) ==
    [type |-> type, topic |-> topic, signed |-> signed, url |-> url, event |-> event]
ContentValue ==
    mine :> Says("Notification", a1, TRUE, u1, {Late})
    @@ theirs :> Says("Notification", a2, TRUE, u2, {Bounced})
    @@ unsigned :> Says("Notification", a1, FALSE, u1, {Bounced})
    @@ hello :> Says("SubscriptionConfirmation", a2, TRUE, u2, {})
SenderOfValue == m :> p1
SentToValue == m :> {x, y}

Symmetric == Permutations(Requests) \cup Permutations(Handlers)
=============================================================================
