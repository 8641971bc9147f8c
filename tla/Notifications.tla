--------------------------- MODULE Notifications ---------------------------
(***************************************************************************)
(* What SNS sends about messages, and whose it is.                         *)
(*                                                                         *)
(* A notice reaches SESKit by HTTPS, where anyone may post one, or through *)
(* the queue of an account, which only that account's topic fills.  The    *)
(* HTTPS receiver proves that SNS signed it, with a certificate it fetches *)
(* or has cached, and looks up which projects are connected to the topic's *)
(* account; the poll knows them from the rows that name the queue.  Either *)
(* then records the event for the project whose message it is about.  The  *)
(* connections change meanwhile, as AwsAccount says.                       *)
(*                                                                         *)
(* What ingest_event does statement by statement is in EventIngest; here   *)
(* it is one step.  SNS, SQS and the certificate hosts are not under src/. *)
(***************************************************************************)
EXTENDS AwsAccount

CONSTANTS
    Notices,      \* bodies that are posted or queued, by their place here
    Content,      \* what each says: a record of Shapes
    Mails,        \* SES message ids that are SESKit's
    SenderOf,     \* the project that sent each
    SentTo,       \* the recipients of each
    Strangers,    \* SES message ids that are not
    Addresses,
    Urls,         \* certificate URLs on an SNS host
    BadUrl,       \* any other URL
    NoAccount,    \* a TopicArn that is none
    CacheLimit,   \* certificates kept at once
    Handlers,     \* requests and polls that can run at once
    MaxDeliveries \* bound: bodies that reach a handler

ASSUME SenderAssumption == /\ SenderOf \in [Mails -> Projects]
                           /\ SentTo \in [Mails -> SUBSET Addresses]
                           /\ Mails \cap Strangers = {}
ASSUME CacheAssumption == CacheLimit \in Nat \ {0} /\ MaxDeliveries \in Nat

VARIABLES
    handler,    \* what each handler is doing
    cached,     \* URLs in _CERTIFICATE_CACHE
    recorded,   \* events, with the project and the addresses they condemn
    answered,   \* accounts whose subscription SESKit has confirmed
    deliveries

noticeVars == <<handler, cached, recorded, answered, deliveries>>

(* SES's names of events, reduced as parse_event_type reduces them.        *)
TypeByName ==
    [send |-> "sent", delivery |-> "delivered", bounce |-> "bounced",
     complaint |-> "complained", open |-> "opened", click |-> "clicked",
     reject |-> "rejected", deliverydelay |-> "delivery_delayed",
     renderingfailure |-> "rendering_failed"]
Names == DOMAIN TypeByName \cup {"subscription"}

Bounces == {"Permanent", "Transient", "Undetermined"}
Events == [name : Names, mail : Mails \cup Strangers, bounce : Bounces,
           listed : SUBSET Addresses, destination : SUBSET Addresses]

(* A body that is JSON with an SNS Type; the event may be empty.           *)
Types == {"Notification", "SubscriptionConfirmation", "UnsubscribeConfirmation"}
Shapes == [type : Types, topic : Accounts \cup {NoAccount}, signed : BOOLEAN,
           url : Urls \cup {BadUrl}, event : SUBSET Events]
ASSUME ContentAssumption ==
    /\ DOMAIN Content = Notices
    /\ \A n \in Notices : /\ DOMAIN Content[n] = {"type", "topic", "signed", "url", "event"}
                          /\ Content[n].type \in Types
                          /\ Content[n].topic \in Accounts \cup {NoAccount}
                          /\ Content[n].url \in Urls \cup {BadUrl}
                          /\ Cardinality(Content[n].event) <= 1

-----------------------------------------------------------------------------
(* Reading an event.                                                       *)

Known(e) == e.name \in DOMAIN TypeByName
TypeOf(e) == TypeByName[e.name]

(* A bounce, a complaint and a delivery list whom they concern; the rest   *)
(* concern everyone the message went to.                                   *)
Recipients(e) ==
    IF TypeOf(e) \in {"bounced", "complained", "delivered"} THEN e.listed ELSE e.destination

(* suppression_reason: only what will not pass.                            *)
Condemns(e) ==
    \/ TypeOf(e) = "bounced" /\ e.bounce = "Permanent"
    \/ TypeOf(e) = "complained"

(* Mutant: the scope is left out.                                          *)
OwnersAnyone(account) == Projects

(* Whose messages an account's topic may speak for.                        *)
OwnersOf(account) == {p \in Projects : db[p] # NoRow /\ db[p].account = account}

(* The projects whose row names the account's queue, and the rows whose    *)
(* key the poll may take: a connected one if there is any.                 *)
OnQueue(account) == {p \in Projects : db[p] # NoRow /\ db[p].events = account}
Openers(account) ==
    LET connected == {p \in OnQueue(account) : Connected(db[p])}
    IN IF connected # {} THEN connected ELSE OnQueue(account)
Opens(p, account) == db[p].key = db[p].secret /\ AccountOf[db[p].key] = account

-----------------------------------------------------------------------------
NoticesInit ==
    /\ Init
    /\ handler = [h \in Handlers |-> Idle]
    /\ cached = {}
    /\ recorded = {}
    /\ answered = {}
    /\ deliveries = 0

Arrive(h, n, place, owners) ==
    /\ handler[h] = Idle
    /\ deliveries < MaxDeliveries
    /\ deliveries' = deliveries + 1
    /\ handler' = [handler EXCEPT ![h] = [at |-> place, notice |-> n, owners |-> owners]]
    /\ UNCHANGED <<cached, recorded, answered>>

Turns(h, place) == handler' = [handler EXCEPT ![h].at = place]
Done(h) == handler' = [handler EXCEPT ![h] = Idle]
Said(h) == Content[handler[h].notice]

(* receive_ses_event: a body too large or that is no SNS message is        *)
(* refused before this.                                                    *)
Post(h, n) == Arrive(h, n, "verifying", {})

(* poll_events and handle: anything but a notification with an event is    *)
(* taken off the queue and forgotten.                                      *)
Poll(h, n) ==
    LET account == Content[n].topic IN
    /\ Content[n].signed
    /\ Content[n].type = "Notification" /\ Content[n].event # {}
    /\ \E p \in Openers(account) : Opens(p, account)
    /\ Arrive(h, n, "ingesting", OnQueue(account))

(* verify, to where it needs the certificate; 403 when the URL is not an   *)
(* SNS host's.                                                             *)
SeekCertificate(h) ==
    /\ handler[h].at = "verifying"
    /\ CASE Said(h).url = BadUrl -> Done(h)
         [] Said(h).url \in cached -> Turns(h, "checking")
         [] OTHER -> Turns(h, "fetching")
    /\ UNCHANGED <<cached, recorded, answered, deliveries>>

(* A full cache is emptied, not trimmed.                                   *)
Keep(url) == IF Cardinality(cached) >= CacheLimit THEN {url} ELSE cached \cup {url}

FetchCertificate(h) ==
    /\ handler[h].at = "fetching"
    /\ \/ /\ cached' = Keep(Said(h).url)
          /\ Turns(h, "checking")
       \/ Done(h) /\ UNCHANGED cached
    /\ UNCHANGED <<recorded, answered, deliveries>>

CheckSignature(h) ==
    /\ handler[h].at = "checking"
    /\ IF Said(h).signed THEN Turns(h, "looking") ELSE Done(h)
    /\ UNCHANGED <<cached, recorded, answered, deliveries>>

(* parse_topic_arn and connections_for_origin, before anything is done     *)
(* with the message: 403 when nobody is connected to that account.         *)
FindOwners(h) ==
    LET owners == OwnersOf(Said(h).topic)
        onwards == CASE Said(h).type = "SubscriptionConfirmation" -> "confirming"
                     [] Said(h).type = "Notification" /\ Said(h).event # {} -> "ingesting"
                     [] OTHER -> "nothing"
    IN /\ handler[h].at = "looking"
       /\ IF owners = {} \/ onwards = "nothing" THEN Done(h)
          ELSE handler' = [handler EXCEPT ![h].at = onwards, ![h].owners = owners]
       /\ UNCHANGED <<cached, recorded, answered, deliveries>>

(* confirm_subscription fetches the URL, or fails: SNS sends it again.     *)
Confirm(h) ==
    /\ handler[h].at = "confirming"
    /\ answered' = answered \cup {Said(h).topic}
    /\ Done(h)
    /\ UNCHANGED <<cached, recorded, deliveries>>

(* ingest_event: an unknown type, another sender's message or one of a     *)
(* project that is not in the scope is settled and leaves nothing.         *)
Ingest(h) ==
    LET e == CHOOSE x \in Said(h).event : TRUE
        ours == Known(e) /\ e.mail \in Mails
    IN /\ handler[h].at = "ingesting"
       /\ recorded' = IF ours /\ SenderOf[e.mail] \in handler[h].owners
                      THEN recorded \cup
                           {[notice |-> handler[h].notice, project |-> SenderOf[e.mail],
                             condemned |-> IF Condemns(e)
                                           THEN Recipients(e) \cap SentTo[e.mail] ELSE {}]}
                      ELSE recorded
       /\ Done(h)
       /\ UNCHANGED <<cached, answered, deliveries>>

(* The process dies, or the confirmation or the database fails.            *)
HandlerDies(h) ==
    /\ handler[h] # Idle
    /\ Done(h)
    /\ UNCHANGED <<cached, recorded, answered, deliveries>>

NoticeStep(h) ==
    \/ SeekCertificate(h) \/ FetchCertificate(h) \/ CheckSignature(h)
    \/ FindOwners(h) \/ Confirm(h) \/ Ingest(h) \/ HandlerDies(h)

NoticesNext ==
    \/ AwsNext /\ UNCHANGED noticeVars
    \/ /\ \E h \in Handlers : \/ NoticeStep(h)
                              \/ \E n \in Notices : Post(h, n) \/ Poll(h, n)
       /\ UNCHANGED awsVars

NoticesSpec == NoticesInit /\ [][NoticesNext]_<<awsVars, noticeVars>>

-----------------------------------------------------------------------------
Vouched(p, account) == \E k \in Keys : AccountOf[k] = account /\ <<p, k>> \in confirmed

(* Nothing is recorded for a project, and no subscription is confirmed,    *)
(* on the word of an account that AWS never confirmed a key of for a       *)
(* project, however connections come and go while a notice is handled; an  *)
(* event only ever speaks of its own project's message, and condemns only  *)
(* recipients of it that SES lists as lost for good or complaining         *)
(* (receive_ses_event, connections_for_origin, ingest_event).              *)
NoticesAreOurs ==
    /\ \A r \in recorded :
           LET said == Content[r.notice] IN
           /\ said.signed
           /\ Vouched(r.project, said.topic)
           /\ \E e \in said.event :
                  /\ SenderOf[e.mail] = r.project
                  /\ r.condemned # {} => /\ r.condemned \subseteq e.listed \cap SentTo[e.mail]
                                         /\ \/ e.name = "complaint"
                                            \/ e.name = "bounce" /\ e.bounce = "Permanent"
    /\ \A a \in answered : \E p \in Projects : Vouched(p, a)
    /\ Cardinality(cached) <= CacheLimit
=============================================================================
