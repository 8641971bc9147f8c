---------------------------- MODULE InboundIngest ----------------------------
(***************************************************************************)
(* Recording the mail that arrives.                                        *)
(*                                                                         *)
(* SES stores a message in the account's bucket under the rule of one      *)
(* domain and announces it on the queue that the account's projects share. *)
(* A pass of poll_inbound reads once which projects the queue speaks for,  *)
(* then handles announcements, each with two short sessions (READ          *)
(* COMMITTED) around the download.  Passes overlap, and an announcement is *)
(* delivered again until one has removed it.  Meanwhile receiving is       *)
(* switched on and off, here in the few steps that a pass can see; the     *)
(* whole of it is in Receiving.                                            *)
(*                                                                         *)
(* SES, S3, SQS and the database are not under src/: they are modelled     *)
(* from how src/ uses them.                                                *)
(***************************************************************************)
EXTENDS Naturals, FiniteSets, SequencesExt

CONSTANTS
    Project,     \* projects connected to the account and region
    Domain,      \* domains
    Owns,        \* the verified domains of each project
    Unreadable,  \* projects whose stored key cannot be decrypted
    Note,        \* announcements of stored messages
    Object,      \* stored messages
    Stored,      \* the object each announcement names
    Sns,         \* its SNS message id
    Rule,        \* the domain whose rule stored it
    Address,     \* addresses
    Parents,    \* the domains an address can be received for, longest first
    Recipients,  \* the envelope recipients of each announcement
    NoOne,       \* no identity, or no announcement
    Handler,     \* passes that can run at once
    MaxChanges,  \* bound: times receiving is switched on or off
    MaxFailures  \* bound: handlers that die, calls that fail

ASSUME OwnsAssumption == Owns \in [Project -> SUBSET Domain] /\ Unreadable \subseteq Project
ASSUME NoteAssumption == /\ Stored \in [Note -> Object]
                         /\ Rule \in [Note -> Domain]
                         /\ \A m, n \in Note : Sns[m] = Sns[n] => Stored[m] = Stored[n]
                         /\ NoOne \notin Note
                         /\ NoOne \notin Project \X Domain
ASSUME AddressAssumption == /\ Parents \in [Address -> Seq(Domain)]
                            /\ Recipients \in [Note -> Seq(Address)]
ASSUME BoundAssumption == MaxChanges \in Nat /\ MaxFailures \in Nat

VARIABLES
    rules,     \* domains with a rule at SES
    claimed,   \* <<project, domain>> being switched on, not committed
    on,        \* identities with an inbound_rule_name: <<project, domain>>
    names,     \* projects whose connection names the queue and the bucket
    stored,    \* objects in the bucket
    queue,     \* announcements on the queue
    at,        \* where each pass is
    polled,    \* the projects it believes the queue speaks for
    note,      \* the announcement in hand
    owner,     \* the identity it was located for
    rows,      \* inbound_emails
    told,      \* email.received events about each object
    announced, \* announcements ever made
    since,     \* identities that received when or after each was made
    refused,   \* announcements a pass found to be nobody's
    lost,      \* announcements that went with the queue
    changes,
    failures

awsVars  == <<rules, stored, queue, announced, lost>>
dbVars   == <<claimed, on, names, since>>
mailVars == <<rows, told>>
passVars == <<at, polled, note, owner>>
bounds   == <<changes, failures>>
vars == <<rules, claimed, on, names, stored, queue, at, polled, note, owner, rows, told,
          announced, since, refused, lost, changes, failures>>

Row == [note : Note, project : Project, domain : Domain]

(* Passes that have inserted and not committed.                            *)
Open == {"raising", "committing"}
Places == {"idle", "ready", "locating", "asking", "fetching", "inserting", "removing"}
          \cup Open

(* candidate_domains: every recipient's, in their order, without repeats.  *)
Candidates(n) ==
    FoldLeft(LAMBDA seen, a : seen \o SelectSeq(Parents[a], LAMBDA d : ~ Contains(seen, d)),
             <<>>, Recipients[n])

(* Announcements that name the same object or carry the same SNS id.       *)
Same(n) == {m \in Note : Stored[m] = Stored[n] \/ Sns[m] = Sns[n]}

Init ==
    /\ rules = {} /\ claimed = {} /\ on = {} /\ names = {}
    /\ stored = {} /\ queue = {}
    /\ at = [h \in Handler |-> "idle"]
    /\ polled = [h \in Handler |-> {}]
    /\ note = [h \in Handler |-> NoOne]
    /\ owner = [h \in Handler |-> NoOne]
    /\ rows = {}
    /\ told = [o \in Object |-> 0]
    /\ announced = {} /\ since = [n \in Note |-> {}] /\ refused = {} /\ lost = {}
    /\ changes = 0 /\ failures = 0

-----------------------------------------------------------------------------
(* Receiving is switched on and off.                                       *)

(* The domain is claimed, and its rule is live before that is committed.   *)
(* The partial unique index allows one claim of a domain.                  *)
SwitchOn(p, d) ==
    /\ d \in Owns[p]
    /\ \A q \in Project : <<q, d>> \notin on \cup claimed
    /\ changes < MaxChanges
    /\ changes' = changes + 1
    /\ claimed' = claimed \cup {<<p, d>>}
    /\ rules' = rules \cup {d}
    /\ UNCHANGED <<on, names, since, stored, queue, announced, lost, refused, mailVars,
                   passVars, failures>>

SwitchedOn(p, d) ==
    /\ <<p, d>> \in claimed
    /\ claimed' = claimed \ {<<p, d>>}
    /\ on' = on \cup {<<p, d>>}
    /\ names' = names \cup {p}
    /\ since' = [n \in Note |-> since[n] \cup
                                IF n \in announced THEN {<<p, d>>} ELSE {}]
    /\ UNCHANGED <<awsVars, refused, mailVars, passVars, bounds>>

(* The request fails or dies; the rule it put may stay behind.             *)
SwitchOnFails(p, d) ==
    /\ <<p, d>> \in claimed
    /\ failures < MaxFailures
    /\ failures' = failures + 1
    /\ claimed' = claimed \ {<<p, d>>}
    /\ rules' \in {rules, rules \ {d}}
    /\ UNCHANGED <<on, names, since, stored, queue, announced, lost, refused, mailVars,
                   passVars, changes>>

SwitchOff(p, d) ==
    /\ <<p, d>> \in on
    /\ d \in rules
    /\ changes < MaxChanges
    /\ changes' = changes + 1
    /\ rules' = rules \ {d}
    /\ UNCHANGED <<dbVars, stored, queue, announced, lost, refused, mailVars, passVars,
                   failures>>

(* The last domain of the last project takes the queue with it.            *)
SwitchedOff(p, d) ==
    /\ <<p, d>> \in on
    /\ d \notin rules
    /\ on' = on \ {<<p, d>>}
    /\ names' = {q \in names : \E e \in Domain : <<q, e>> \in on'}
    /\ queue' = IF names' = {} THEN {} ELSE queue
    /\ lost' = IF names' = {} THEN lost \cup queue ELSE lost
    /\ UNCHANGED <<claimed, since, rules, stored, announced, refused, mailVars, passVars,
                   bounds>>

-----------------------------------------------------------------------------
(* Mail arrives and expires.                                               *)

Announce(n) ==
    /\ n \notin announced
    /\ Rule[n] \in rules
    /\ announced' = announced \cup {n}
    /\ queue' = queue \cup {n}
    /\ stored' = stored \cup {Stored[n]}
    /\ since' = [since EXCEPT ![n] = on]
    /\ UNCHANGED <<rules, lost, claimed, on, names, refused, mailVars, passVars, bounds>>

(* Announcements that are still to come would store the object again, so   *)
(* it expires after all of them.                                           *)
Expire(o) ==
    /\ o \in stored
    /\ \A n \in Note : Stored[n] = o => n \in announced
    /\ stored' = stored \ {o}
    /\ UNCHANGED <<rules, queue, announced, lost, dbVars, refused, mailVars, passVars,
                   bounds>>

-----------------------------------------------------------------------------
(* A pass.                                                                 *)

Go(h, place) == at' = [at EXCEPT ![h] = place]

(* Nothing in hand: the next announcement, or the end of the pass.         *)
OnToNext(h) ==
    /\ Go(h, "ready")
    /\ note' = [note EXCEPT ![h] = NoOne]
    /\ owner' = [owner EXCEPT ![h] = NoOne]
    /\ UNCHANGED polled

(* distinct_inbound_queues: a project whose key cannot be read is counted  *)
(* all the same, so long as another's opens the queue.                     *)
Poll(h) ==
    /\ at[h] = "idle"
    /\ names \ Unreadable # {}
    /\ polled' = [polled EXCEPT ![h] = names]
    /\ Go(h, "ready")
    /\ UNCHANGED <<awsVars, dbVars, mailVars, note, owner, refused, bounds>>

EndPass(h) ==
    /\ at[h] = "ready"
    /\ Go(h, "idle")
    /\ polled' = [polled EXCEPT ![h] = {}]
    /\ UNCHANGED <<awsVars, dbVars, mailVars, note, owner, refused, bounds>>

Receive(h, n) ==
    /\ at[h] = "ready"
    /\ n \in queue
    /\ note' = [note EXCEPT ![h] = n]
    /\ Go(h, "locating")
    /\ UNCHANGED <<awsVars, dbVars, mailVars, polled, owner, refused, bounds>>

(* Mutant: any domain of the project, whether or not it receives.          *)
MatchesOwned(h) ==
    {i \in Project \X Domain :
        i[2] \in Owns[i[1]] /\ i[1] \in polled[h] /\ Contains(Candidates(note[h]), i[2])}

Matches(h) ==
    {i \in on : i[1] \in polled[h] /\ Contains(Candidates(note[h]), i[2])}

(* The match whose domain comes first among the candidates.                *)
Locate(h) ==
    LET place(i) == CHOOSE k \in 1..Len(Candidates(note[h])) :
                        Candidates(note[h])[k] = i[2] IN
    /\ at[h] = "locating"
    /\ IF Matches(h) = {}
         THEN /\ refused' = refused \cup {note[h]}
              /\ UNCHANGED owner
              /\ Go(h, "removing")
         ELSE /\ \E i \in Matches(h) :
                    /\ \A j \in Matches(h) : place(i) <= place(j)
                    /\ owner' = [owner EXCEPT ![h] = i]
              /\ UNCHANGED refused
              /\ Go(h, "asking")
    /\ UNCHANGED <<awsVars, dbVars, mailVars, polled, note, bounds>>

Recorded(n) == \E r \in rows : r.note \in Same(n)

AskRecorded(h) ==
    /\ at[h] = "asking"
    /\ Go(h, IF Recorded(note[h]) THEN "removing" ELSE "fetching")
    /\ UNCHANGED <<awsVars, dbVars, mailVars, polled, note, owner, refused, bounds>>

(* Mutant: a missing object is an error like any other.                    *)
FetchOrRaise(h) ==
    /\ at[h] = "fetching"
    /\ IF Stored[note[h]] \in stored
         THEN Go(h, "inserting") /\ UNCHANGED <<polled, note, owner>>
         ELSE OnToNext(h)
    /\ UNCHANGED <<awsVars, dbVars, mailVars, refused, bounds>>

(* NOT_FOUND is settled: the object has expired.                           *)
Fetch(h) ==
    /\ at[h] = "fetching"
    /\ Go(h, IF Stored[note[h]] \in stored THEN "inserting" ELSE "removing")
    /\ UNCHANGED <<awsVars, dbVars, mailVars, polled, note, owner, refused, bounds>>

(* Mutant: only the SNS id is unique.                                      *)
CollidesBySns(n) == {m \in Note : Sns[m] = Sns[n]}

(* The unique constraints of inbound_emails.                               *)
Collides(n) == Same(n)

(* An insert waits for another that has not been committed.  The savepoint *)
(* takes a refused one, and the transaction commits without it.            *)
Insert(h) ==
    /\ at[h] = "inserting"
    /\ \A g \in Handler \ {h} : at[g] \in Open => note[g] \notin Collides(note[h])
    /\ Go(h, IF \E r \in rows : r.note \in Collides(note[h]) THEN "removing" ELSE "raising")
    /\ UNCHANGED <<awsVars, dbVars, mailVars, polled, note, owner, refused, bounds>>

(* The event and its webhook rows.                                         *)
RaiseReceived(h) ==
    /\ at[h] = "raising"
    /\ Go(h, "committing")
    /\ UNCHANGED <<awsVars, dbVars, mailVars, polled, note, owner, refused, bounds>>

Commit(h) ==
    /\ at[h] = "committing"
    /\ rows' = rows \cup {[note |-> note[h], project |-> owner[h][1], domain |-> owner[h][2]]}
    /\ told' = [told EXCEPT ![Stored[note[h]]] = @ + 1]
    /\ Go(h, "removing")
    /\ UNCHANGED <<awsVars, dbVars, polled, note, owner, refused, bounds>>

Acknowledge(h) ==
    /\ at[h] = "removing"
    /\ queue' = queue \ {note[h]}
    /\ OnToNext(h)
    /\ UNCHANGED <<rules, stored, announced, lost, dbVars, mailVars, refused, bounds>>

Busy(h) == at[h] \notin {"idle", "ready"}

(* Mutant: a failed call settles the announcement.                         *)
LeaveNothing(h) ==
    /\ Busy(h)
    /\ failures < MaxFailures
    /\ failures' = failures + 1
    /\ queue' = queue \ {note[h]}
    /\ OnToNext(h)
    /\ UNCHANGED <<rules, stored, announced, lost, dbVars, mailVars, refused, changes>>

(* The database, S3 or the queue raises: the session is rolled back, the   *)
(* announcement is left and the pass goes on.                              *)
LeaveOnQueue(h) ==
    /\ Busy(h)
    /\ failures < MaxFailures
    /\ failures' = failures + 1
    /\ OnToNext(h)
    /\ UNCHANGED <<awsVars, dbVars, mailVars, refused, changes>>

WorkerDies(h) ==
    /\ at[h] # "idle"
    /\ failures < MaxFailures
    /\ failures' = failures + 1
    /\ Go(h, "idle")
    /\ polled' = [polled EXCEPT ![h] = {}]
    /\ note' = [note EXCEPT ![h] = NoOne]
    /\ owner' = [owner EXCEPT ![h] = NoOne]
    /\ UNCHANGED <<awsVars, dbVars, mailVars, refused, changes>>

-----------------------------------------------------------------------------
Switching ==
    \E p \in Project, d \in Domain :
        SwitchOn(p, d) \/ SwitchedOn(p, d) \/ SwitchOnFails(p, d)
        \/ SwitchOff(p, d) \/ SwitchedOff(p, d)

Arrivals == (\E n \in Note : Announce(n)) \/ (\E o \in Object : Expire(o))

Handling(h) ==
    Locate(h) \/ AskRecorded(h) \/ Fetch(h) \/ Insert(h) \/ RaiseReceived(h)
    \/ Commit(h) \/ Acknowledge(h)

Pass(h) == Poll(h) \/ EndPass(h) \/ (\E n \in Note : Receive(h, n)) \/ Handling(h)

Failing(h) == LeaveOnQueue(h) \/ WorkerDies(h)

Next == Switching \/ Arrivals \/ \E h \in Handler : Pass(h) \/ Failing(h)

Spec == Init /\ [][Next]_vars

(* poll_inbound runs every minute, what a pass has begun goes on unless a  *)
(* failure ends it, and SQS keeps delivering what is on the queue.         *)
FairSpec ==
    /\ Spec
    /\ \A h \in Handler : WF_vars(Poll(h)) /\ WF_vars(Handling(h))
    /\ \A n \in Note : SF_vars(\E h \in Handler : Receive(h, n))

-----------------------------------------------------------------------------
TypeOK ==
    /\ rules \subseteq Domain
    /\ claimed \subseteq Project \X Domain /\ on \subseteq Project \X Domain
    /\ names \subseteq Project
    /\ stored \subseteq Object
    /\ queue \subseteq Note /\ announced \subseteq Note /\ refused \subseteq Note
    /\ lost \subseteq Note
    /\ at \in [Handler -> Places]
    /\ polled \in [Handler -> SUBSET Project]
    /\ note \in [Handler -> Note \cup {NoOne}]
    /\ owner \in [Handler -> (Project \X Domain) \cup {NoOne}]
    /\ rows \subseteq Row
    /\ told \in [Object -> Nat]
    /\ since \in [Note -> SUBSET (Project \X Domain)]
    /\ changes \in 0..MaxChanges /\ failures \in 0..MaxFailures

(* A stored message has at most one row, and exactly one email.received    *)
(* event with it, however often it is announced, under whatever ids, and   *)
(* however many passes handle it at once.  record_received.                *)
ToldOnce ==
    /\ \A r, s \in rows : r.note \in Same(s.note) => r = s
    /\ \A o \in Object : told[o] = Cardinality({r \in rows : Stored[r.note] = o})

(* Mail is shown only to a project that received for one of the domains it *)
(* was sent to at some time since it was announced: no change of hands in  *)
(* the middle of a pass, and no stale belief about the queue, puts it in   *)
(* the inbox of anyone else.  locate.                                      *)
OnlyReceiversGetMail ==
    \A r \in rows : /\ <<r.project, r.domain>> \in since[r.note]
                    /\ Contains(Candidates(r.note), r.domain)

(* An announcement leaves the queue only when its message is recorded, has *)
(* expired or was found to be nobody's, or with the queue itself: never    *)
(* because a pass failed or died half way.  handle_inbound.                *)
GoneMeansSettled ==
    \A n \in announced \ (queue \cup lost \cup refused) :
        Recorded(n) \/ Stored[n] \notin stored

(* The promise this module keeps, of announcements of stored messages: an  *)
(* item is an object, and recorded when email.received is raised.  Excused *)
(* are those that are nobody's, whose object has expired or that went with *)
(* the queue.                                                              *)
Promise == INSTANCE Inbox WITH
    Notice <- Note,
    Item <- Object,
    ItemOf <- Stored,
    place <- [n \in Note |-> IF n \in queue THEN "waiting"
                             ELSE IF n \in announced THEN "gone" ELSE "unsent"],
    times <- told,
    excused <- refused \cup lost \cup {n \in announced : Stored[n] \notin stored}

(* However often a message is announced, under whatever ids, however the   *)
(* passes overlap and whatever fails, it is told of once at most, and an   *)
(* announcement leaves the queue, for good, only when its message has been *)
(* or need not be.  handle_inbound.                                        *)
KeepsPromise == Promise!Spec

(* Whatever fails, an announcement is settled in the end, unless there     *)
(* comes a time when no project has a key that opens the queue.            *)
EventuallySettled ==
    \A n \in Note : []<>(n \notin queue \/ names \subseteq Unreadable)

(* "A message is deleted only once its outcome is settled: recorded,       *)
(* already recorded, not ours, not mail, or expired."                      *)
(* apps/worker/src/seskit_worker/inbound.py:9.  So an announcement is      *)
(* found to be nobody's only if nobody receives for the domain it was      *)
(* stored for.                                                             *)
NotOursIsNobodys ==
    [][\A n \in refused' \ refused : \A p \in Project : <<p, Rule[n]>> \notin on]_vars
=============================================================================
