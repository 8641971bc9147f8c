---------------------------- MODULE MCReadings -----------------------------
(* Small instances of Mime, Overview, Listing, Destinations and            *)
(* Deployment.  They share no state: one of them moves, and the others     *)
(* stay as they began.                                                     *)
EXTENDS Mime, Overview, Listing, Destinations, Deployment

VARIABLE reading
vars == <<mimeVars, overviewVars, listingVars, destVars, deployVars, reading>>

Example == <<"com", "example">>
MailExample == <<"com", "example", "mail">>
NewsExample == <<"com", "example", "mail", "news">>
DomainsValue == {Example, MailExample, NewsExample}
SendersValue == {Example, NewsExample}

DurationValue == [day |-> 2, week |-> 3]
BucketValue == [day |-> 2, week |-> 3]

(* Overview is tried three times over: the domains above and beneath each  *)
(* other and what belongs to which; pages of mail alone, of two domains    *)
(* and the project; and pages of what is reported of the first day's mail, *)
(* a delivery first, of one domain that stays while they are put together. *)
NumbersNext ==
    \/ /\ reading = "domains"
       /\ OverviewNext
       /\ now' = 0 /\ events' = {} /\ page'.stage = "none"
    \/ /\ reading = "sends"
       /\ OverviewNext
       /\ events' = {} /\ added' \subseteq {MailExample, NewsExample}
    \/ /\ reading = "reports"
       /\ OverviewNext
       /\ added' \subseteq {MailExample}
       /\ page.stage \in {"none", "shown"} \/ UNCHANGED added
       /\ \A i \in DOMAIN mails' :
              mails'[i].at = 0 /\ (i = 1 => mails'[i].from = NewsExample)
       /\ events' = {} \/ \E e \in events' : e.mail = 1 /\ e.type = "delivered"

Init ==
    /\ MimeInit /\ OverviewInit /\ ListingInit /\ DestInit /\ DeployInit
    /\ reading \in {"mail", "domains", "sends", "reports", "list", "webhook", "deployment"}
    /\ reading # "mail" => over = {}
    /\ reading # "webhook" => policy.allow_private /\ policy.allowed_networks = "none"

Next ==
    /\ UNCHANGED reading
    /\ \/ reading = "mail" /\ MimeNext
          /\ UNCHANGED <<overviewVars, listingVars, destVars, deployVars>>
       \/ NumbersNext
          /\ UNCHANGED <<mimeVars, listingVars, destVars, deployVars>>
       \/ reading = "list" /\ ListingNext
          /\ UNCHANGED <<mimeVars, overviewVars, destVars, deployVars>>
       \/ reading = "webhook" /\ DestNext
          /\ UNCHANGED <<mimeVars, overviewVars, listingVars, deployVars>>
       \/ reading = "deployment" /\ DeployNext
          /\ UNCHANGED <<mimeVars, overviewVars, listingVars, destVars>>

Spec == Init /\ [][Next]_vars
=============================================================================
