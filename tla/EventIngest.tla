----------------------------- MODULE EventIngest -----------------------------
(***************************************************************************)
(* Recording what SES says about a message.                                *)
(*                                                                         *)
(* A notification reaches ingest_event through poll_events (SQS) or the    *)
(* HTTPS receiver, each time in a database session of its own, and is      *)
(* delivered again until a handler has removed it.  Handlers run at once   *)
(* and see what others have committed (READ COMMITTED); an insert that     *)
(* would break a unique index waits for the transaction that got there     *)
(* first.  Each action is the code between two statements of that kind.    *)
(*                                                                         *)
(* SNS, SQS and the database are not under src/: they are modelled from    *)
(* how src/ uses them.                                                     *)
(***************************************************************************)
EXTENDS Naturals, FiniteSets

CONSTANTS
    Note,       \* notifications, by SNS MessageId
    Mail,       \* messages SESKit hands to SES for the projects in scope
    Foreign,    \* stands for any message that is not one of those
    About,      \* the message each notification is about
    Names,      \* the recipients it condemns: none but for a bounce or complaint
    Receipts,   \* notifications that the message was delivered
    Public,     \* notifications of a type that is delivered to webhooks
    Addr,       \* addresses, reduced by bare_address
    Visible,    \* the to and cc recipients of each message
    Blind,      \* its bcc recipients
    Nothing,    \* no notification, or no address, in hand
    Handler,    \* handlers that can run at once
    MaxCrashes, \* bound: handlers that die or fail on the database
    MaxTurns    \* bound: changes people make to the suppression list

ASSUME NoteAssumption == /\ About \in [Note -> Mail \cup {Foreign}]
                         /\ Foreign \notin Mail
                         /\ Names \in [Note -> SUBSET Addr]
                         /\ Receipts \subseteq Note /\ Public \subseteq Note
                         /\ Nothing \notin Note /\ Nothing \notin Addr
ASSUME MailAssumption == /\ Visible \in [Mail -> SUBSET Addr]
                         /\ Blind \in [Mail -> SUBSET Addr]
ASSUME BoundAssumption == MaxCrashes \in Nat /\ MaxTurns \in Nat

VARIABLES
    mail,       \* how far sending each message has got
    queue,      \* where each notification is
    at,         \* where each handler is
    note,       \* the notification it is handling
    already,    \* addresses it saw on the list before writing
    left,       \* addresses it has still to suppress
    adding,     \* the address it found no live row for
    wrote,      \* rows of suppressed_addresses it has inserted
    recorded,   \* notifications with an email_events row
    delivering, \* events with delivery rows: <<n, "event">> and <<n, "suppressed">>
    reported,   \* notifications with an email.suppressed event of their own
    listed,     \* live rows of suppressed_addresses
    removed,    \* addresses ever taken off the list
    delivered,  \* messages with a delivered_at
    times,      \* how many event rows each notification has
    unmatched,  \* notifications looked up before SESKit knew their message
    crashes,
    turns

mailVars == <<mail, queue>>
workVars == <<at, note, already, left, adding, wrote>>
dbVars   == <<recorded, delivering, reported, listed, removed, delivered, times>>
vars == <<mail, queue, at, note, already, left, adding, wrote, recorded, delivering,
          reported, listed, removed, delivered, times, unmatched, crashes, turns>>

(* Handlers between their first insert and their commit.                   *)
Open == {"asking", "finding", "inserting", "committing"}
Places == {"idle", "looking", "flushing", "settled"} \cup Open

(* Mutant: the bcc recipients are forgotten.                               *)
SentToVisible(m) == Visible[m]

(* The message's own addresses, and those of them the event condemns.      *)
SentTo(m) == Visible[m] \cup Blind[m]
Named(n) == IF About[n] = Foreign THEN {} ELSE Names[n] \cap SentTo(About[n])

(* Rows other transactions have inserted and not committed.                *)
Writing(h) == {note[g] : g \in {x \in Handler \ {h} : at[x] \in Open}}
Listing(h) == UNION {wrote[g] : g \in Handler \ {h}}

(* What the suppression event of handler h reports.                        *)
Added(h) == Named(note[h]) \ already[h]

-----------------------------------------------------------------------------
Init ==
    /\ mail = [m \in Mail |-> "queued"]
    /\ queue = [n \in Note |-> "unsent"]
    /\ at = [h \in Handler |-> "idle"]
    /\ note = [h \in Handler |-> Nothing]
    /\ already = [h \in Handler |-> {}]
    /\ left = [h \in Handler |-> {}]
    /\ adding = [h \in Handler |-> Nothing]
    /\ wrote = [h \in Handler |-> {}]
    /\ recorded = {}
    /\ delivering = {}
    /\ reported = {}
    /\ listed = {}
    /\ removed = {}
    /\ delivered = {}
    /\ times = [n \in Note |-> 0]
    /\ unmatched = {}
    /\ crashes = 0
    /\ turns = 0

-----------------------------------------------------------------------------
(* The message: SES takes it, and the job then stores the id SES gave it.  *)

ProviderAccepts(m) ==
    /\ mail[m] = "queued"
    /\ mail' = [mail EXCEPT ![m] = "accepted"]
    /\ UNCHANGED <<queue, workVars, dbVars, unmatched, crashes, turns>>

(* record_sent and the commit.                                             *)
RecordSent(m) ==
    /\ mail[m] = "accepted"
    /\ mail' = [mail EXCEPT ![m] = "sent"]
    /\ UNCHANGED <<queue, workVars, dbVars, unmatched, crashes, turns>>

(* The job dies in between: the id is never stored.                        *)
AnswerLost(m) ==
    /\ mail[m] = "accepted"
    /\ crashes < MaxCrashes
    /\ crashes' = crashes + 1
    /\ mail' = [mail EXCEPT ![m] = "lost"]
    /\ UNCHANGED <<queue, workVars, dbVars, unmatched, turns>>

(* SES may have news of a message as soon as it has taken it.              *)
Publish(n) ==
    /\ queue[n] = "unsent"
    /\ About[n] \in {Foreign} \cup {m \in Mail : mail[m] # "queued"}
    /\ queue' = [queue EXCEPT ![n] = "waiting"]
    /\ UNCHANGED <<mail, workVars, dbVars, unmatched, crashes, turns>>

-----------------------------------------------------------------------------
(* A handler.                                                              *)

(* drain receives it, or SNS posts it.  A handler that has not finished    *)
(* does not keep others away: the visibility timeout runs out, SNS posts   *)
(* again, and both transports may be subscribed.                           *)
Receive(h, n) ==
    /\ at[h] = "idle"
    /\ queue[n] = "waiting"
    /\ at' = [at EXCEPT ![h] = "looking"]
    /\ note' = [note EXCEPT ![h] = n]
    /\ UNCHANGED <<mailVars, already, left, adding, wrote, dbVars, unmatched, crashes, turns>>

(* By provider_message_id, within the projects the source speaks for.      *)
KnownMail(n) == About[n] # Foreign /\ mail[About[n]] = "sent"

(* The message, and an event row of the same provider_event_id: an unknown *)
(* message or a duplicate is settled as it is.                             *)
LookUp(h) ==
    /\ at[h] = "looking"
    /\ at' = [at EXCEPT ![h] = IF KnownMail(note[h]) /\ note[h] \notin recorded
                               THEN "flushing" ELSE "settled"]
    /\ unmatched' = IF KnownMail(note[h]) THEN unmatched ELSE unmatched \cup {note[h]}
    /\ UNCHANGED <<mailVars, note, already, left, adding, wrote, dbVars, crashes, turns>>

(* Mutant: provider_event_id is not unique.                                *)
FlushEventAgain(h) ==
    /\ at[h] = "flushing"
    /\ at' = [at EXCEPT ![h] = IF Named(note[h]) = {} THEN "committing" ELSE "asking"]
    /\ UNCHANGED <<mailVars, note, already, left, adding, wrote, dbVars, unmatched,
                   crashes, turns>>

(* The insert, which waits for a transaction inserting the same id, and    *)
(* loses to one that committed: a rollback and a duplicate.  What follows  *)
(* is queue_deliveries, in the same transaction, and suppression_reason:   *)
(* most events condemn nobody.                                             *)
FlushEvent(h) ==
    /\ at[h] = "flushing"
    /\ note[h] \notin Writing(h)
    /\ at' = [at EXCEPT ![h] = IF note[h] \in recorded THEN "settled"
                               ELSE IF Named(note[h]) = {} THEN "committing" ELSE "asking"]
    /\ UNCHANGED <<mailVars, note, already, left, adding, wrote, dbVars, unmatched,
                   crashes, turns>>

(* suppressed_among, "asked before writing".                               *)
AskAlready(h) ==
    /\ at[h] = "asking"
    /\ already' = [already EXCEPT ![h] = Named(note[h]) \cap listed]
    /\ left' = [left EXCEPT ![h] = Named(note[h])]
    /\ at' = [at EXCEPT ![h] = "finding"]
    /\ UNCHANGED <<mailVars, note, adding, wrote, dbVars, unmatched, crashes, turns>>

(* suppress, for each address in turn: find_suppression ...                *)
FindAddress(h, a) ==
    /\ at[h] = "finding"
    /\ a \in left[h]
    /\ IF a \in listed
       THEN /\ left' = [left EXCEPT ![h] = @ \ {a}]
            /\ at' = [at EXCEPT ![h] = IF left[h] = {a} THEN "committing" ELSE @]
            /\ UNCHANGED adding
       ELSE /\ at' = [at EXCEPT ![h] = "inserting"]
            /\ adding' = [adding EXCEPT ![h] = a]
            /\ UNCHANGED left
    /\ UNCHANGED <<mailVars, note, already, wrote, dbVars, unmatched, crashes, turns>>

(* ... and the insert, which waits for another transaction's row of the    *)
(* address.  The suppression event and its deliveries follow the last one. *)
InsertAddress(h) ==
    /\ at[h] = "inserting"
    /\ adding[h] \notin Listing(h) \cup listed
    /\ wrote' = [wrote EXCEPT ![h] = @ \cup {adding[h]}]
    /\ left' = [left EXCEPT ![h] = @ \ {adding[h]}]
    /\ adding' = [adding EXCEPT ![h] = Nothing]
    /\ at' = [at EXCEPT ![h] = IF left[h] = {adding[h]} THEN "committing" ELSE "finding"]
    /\ UNCHANGED <<mailVars, note, already, dbVars, unmatched, crashes, turns>>

(* The session closes; what it had not committed is gone.                  *)
Close(h) ==
    /\ at' = [at EXCEPT ![h] = "idle"]
    /\ note' = [note EXCEPT ![h] = Nothing]
    /\ already' = [already EXCEPT ![h] = {}]
    /\ left' = [left EXCEPT ![h] = {}]
    /\ adding' = [adding EXCEPT ![h] = Nothing]
    /\ wrote' = [wrote EXCEPT ![h] = {}]

(* Mutant: the collision is taken for a duplicate, and settled.            *)
CollisionSettles(h) ==
    /\ at[h] = "inserting"
    /\ adding[h] \notin Listing(h)
    /\ adding[h] \in listed
    /\ at' = [at EXCEPT ![h] = "settled"]
    /\ wrote' = [wrote EXCEPT ![h] = {}]
    /\ UNCHANGED <<mailVars, note, already, left, adding, dbVars, unmatched, crashes, turns>>

(* uq_suppressed_live: the address was listed since find_suppression.  The *)
(* handler raises, and the notification stays where it was.                *)
AddressCollides(h) ==
    /\ at[h] = "inserting"
    /\ adding[h] \notin Listing(h)
    /\ adding[h] \in listed
    /\ Close(h)
    /\ UNCHANGED <<mailVars, dbVars, unmatched, crashes, turns>>

(* Handlers waiting for each other's rows in a ring: the database fails    *)
(* one of them.                                                            *)
DeadlockBroken(h) ==
    /\ \E ring \in SUBSET Handler :
          /\ h \in ring
          /\ \A g \in ring :
                /\ at[g] = "inserting"
                /\ \E x \in ring \ {g} : adding[g] \in wrote[x]
                /\ \E x \in ring \ {g} : adding[x] \in wrote[g]
    /\ Close(h)
    /\ UNCHANGED <<mailVars, dbVars, unmatched, crashes, turns>>

(* session.commit: all of it becomes visible at once, apply_to_email's     *)
(* delivered_at included.                                                  *)
Commit(h) ==
    LET n == note[h] IN
    /\ at[h] = "committing"
    /\ recorded' = recorded \cup {n}
    /\ times' = [times EXCEPT ![n] = @ + 1]
    /\ listed' = listed \cup wrote[h]
    /\ delivered' = IF n \in Receipts THEN delivered \cup {About[n]} ELSE delivered
    /\ reported' = IF Added(h) = {} THEN reported ELSE reported \cup {n}
    /\ delivering' = delivering \cup (IF n \in Public THEN {<<n, "event">>} ELSE {})
                                \cup (IF Added(h) = {} THEN {} ELSE {<<n, "suppressed">>})
    /\ at' = [at EXCEPT ![h] = "settled"]
    /\ already' = [already EXCEPT ![h] = {}]
    /\ wrote' = [wrote EXCEPT ![h] = {}]
    /\ UNCHANGED <<mailVars, note, left, adding, removed, unmatched, crashes, turns>>

(* Mutant: only what was recorded is removed, the rest comes again.        *)
RemoveIfRecorded(h) ==
    /\ at[h] = "settled"
    /\ queue' = [queue EXCEPT ![note[h]] = IF note[h] \in recorded THEN "gone" ELSE @]
    /\ Close(h)
    /\ UNCHANGED <<mail, dbVars, unmatched, crashes, turns>>

(* Every outcome ingest_event returns is settled: enqueue what is pending, *)
(* then delete the message or answer 204.                                  *)
Remove(h) ==
    /\ at[h] = "settled"
    /\ queue' = [queue EXCEPT ![note[h]] = "gone"]
    /\ Close(h)
    /\ UNCHANGED <<mail, dbVars, unmatched, crashes, turns>>

(* The process dies, or the database or the queue fails.                   *)
HandlerDies(h) ==
    /\ at[h] # "idle"
    /\ crashes < MaxCrashes
    /\ crashes' = crashes + 1
    /\ Close(h)
    /\ UNCHANGED <<mailVars, dbVars, unmatched, turns>>

-----------------------------------------------------------------------------
(* People: an unsubscribe or a manual entry, and remove_suppression.       *)

ListAddress(a) ==
    /\ turns < MaxTurns
    /\ a \notin listed
    /\ \A h \in Handler : a \notin wrote[h]
    /\ listed' = listed \cup {a}
    /\ turns' = turns + 1
    /\ UNCHANGED <<mailVars, workVars, recorded, delivering, reported, removed, delivered,
                   times, unmatched, crashes>>

RemoveAddress(a) ==
    /\ turns < MaxTurns
    /\ a \in listed
    /\ listed' = listed \ {a}
    /\ removed' = removed \cup {a}
    /\ turns' = turns + 1
    /\ UNCHANGED <<mailVars, workVars, recorded, delivering, reported, delivered, times,
                   unmatched, crashes>>

-----------------------------------------------------------------------------
HandlerStep(h) ==
    \/ \E n \in Note : Receive(h, n)
    \/ LookUp(h) \/ FlushEvent(h) \/ AskAlready(h)
    \/ \E a \in Addr : FindAddress(h, a)
    \/ InsertAddress(h) \/ AddressCollides(h) \/ DeadlockBroken(h) \/ Commit(h) \/ Remove(h)

Next ==
    \/ \E m \in Mail : ProviderAccepts(m) \/ RecordSent(m) \/ AnswerLost(m)
    \/ \E n \in Note : Publish(n)
    \/ \E h \in Handler : HandlerStep(h) \/ HandlerDies(h)
    \/ \E a \in Addr : ListAddress(a) \/ RemoveAddress(a)

Spec == Init /\ [][Next]_vars

(* Passes and posts keep coming while a notification waits.  The database  *)
(* wakes an insert when the transaction it waits for ends, long before the *)
(* loser has come back to the same address: a handler with one address to  *)
(* go is not overtaken for ever.  Nothing obliges a message to be sent, a  *)
(* crash, or a person to act.                                              *)
FairSpec ==
    /\ Spec
    /\ \A h \in Handler : /\ WF_vars(HandlerStep(h))
                          /\ SF_vars(left[h] = {adding[h]} /\ InsertAddress(h))

-----------------------------------------------------------------------------
(* Properties.                                                             *)

TypeOK ==
    /\ mail \in [Mail -> {"queued", "accepted", "sent", "lost"}]
    /\ queue \in [Note -> {"unsent", "waiting", "gone"}]
    /\ at \in [Handler -> Places]
    /\ note \in [Handler -> Note \cup {Nothing}]
    /\ already \in [Handler -> SUBSET Addr]
    /\ left \in [Handler -> SUBSET Addr]
    /\ adding \in [Handler -> Addr \cup {Nothing}]
    /\ wrote \in [Handler -> SUBSET Addr]
    /\ recorded \subseteq Note
    /\ delivering \subseteq Note \X {"event", "suppressed"}
    /\ reported \subseteq Note
    /\ listed \subseteq Addr
    /\ removed \subseteq Addr
    /\ delivered \subseteq Mail
    /\ times \in [Note -> Nat]
    /\ unmatched \subseteq Note
    /\ crashes \in 0..MaxCrashes
    /\ turns \in 0..MaxTurns

(* "exactly once": however often a notification is delivered and however   *)
(* its handlers overlap, it has at most one event row.                     *)
RecordedOnce == \A n \in Note : times[n] <= 1

(* "acknowledging something we failed to record is how events disappear":  *)
(* a notification that is gone was recorded, unless SESKit did not know    *)
(* its message when a handler looked.                                      *)
GoneMeansRecorded ==
    \A n \in Note : queue[n] = "gone" => n \in recorded \cup unmatched

(* The promise this module keeps, of notifications that are each about an  *)
(* event of its own: those of unknown messages are excused.                *)
Promise == INSTANCE Inbox WITH
    Notice <- Note,
    Item <- Note,
    ItemOf <- [n \in Note |-> n],
    place <- queue,
    excused <- unmatched

(* "exactly once", and "acknowledging something we failed to record is how *)
(* events disappear": however often a notification is delivered, however   *)
(* its handlers overlap and whatever dies, it gets one event row at most,  *)
(* it leaves the queue for good, and it does so only with its row or after *)
(* a handler found no message for it.  ingest_event.                       *)
KeepsPromise == Promise!Spec

(* The recipients of its message a notification condemns.                  *)
Condemned(n) ==
    {a \in Names[n] : About[n] # Foreign /\ (a \in Visible[About[n]] \/ a \in Blind[About[n]])}

(* "no observer ever sees the suppression without the bounce", nor half of *)
(* it: everybody a committed event condemns is on the list or was taken    *)
(* off it, and it comes with its webhook rows and its delivered_at.        *)
EventsComeWhole ==
    /\ \A n \in recorded : /\ Condemned(n) \subseteq listed \cup removed
                           /\ n \in Public => <<n, "event">> \in delivering
                           /\ n \in Receipts => About[n] \in delivered
    /\ \A n \in reported : n \in recorded /\ <<n, "suppressed">> \in delivering
    /\ \A d \in delivering : d[1] \in recorded

(* A removal is a person's decision, and stays until something new happens:*)
(* a step that lists an address is a person's, or commits a notification   *)
(* never recorded before that condemns it.  Redelivery undoes no removal.  *)
ListedForCause ==
    [][\A a \in listed' \ listed :
          turns' # turns \/ \E n \in recorded' \ recorded : a \in Condemned(n)]_vars

(* "a message we cannot account for must come back", and in the end it is  *)
(* accounted for: no crash, race or deadlock leaves a notification waiting *)
(* for ever (each is published once and leaves the queue once).            *)
EventuallySettled == []<>(\A n \in Note : queue[n] # "waiting")

-----------------------------------------------------------------------------
(* What the repository says and the code does not do.                      *)

(* ingest.py, of an event for an unknown message: "not ours, remove it;    *)
(* retrying will never help".                                              *)
UnknownIsNotOurs ==
    \A n \in Note : queue[n] = "gone" /\ n \notin recorded => About[n] = Foreign

=============================================================================
