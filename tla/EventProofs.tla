----------------------------- MODULE EventProofs -----------------------------
(***************************************************************************)
(* Safety of what reports deliveries: of EventIngest for every set of      *)
(* notifications, messages, addresses and handlers and every number of     *)
(* crashes and removals, and of EventPlumbing for every set of projects,   *)
(* zones and requests and every number of starts and failures.             *)
(*                                                                         *)
(* Each has one inductive invariant.  EventIngest's, IInv, says beside the *)
(* checked properties what the place of a handler tells of the             *)
(* notification in its hands (Hands), what the rows it has written and has *)
(* still to write come to (Working), that no two open transactions insert  *)
(* one provider_event_id (OneWriter), and how event rows are counted       *)
(* (Counted).  Under it, and with what a handler holds having been sent    *)
(* (SentInHand), every step is one of Inbox or nothing to it (PromiseStep).*)
(*                                                                         *)
(* EventPlumbing's, PlumbingInv, says what a request has in hand at each   *)
(* stage (Typed), when nobody else is at work and the row is still as the  *)
(* request loaded it (OneAtATime), that what a page says is so except      *)
(* while a request is just changing it (Flowing), and that until something *)
(* goes astray every resource is named by a row, is being made, or is      *)
(* still to be removed by the request that is at it (Accounted).           *)
(***************************************************************************)
EXTENDS EventIngest, EventPlumbing, TLAPS

(* What a handler knows of its notification at each place.                 *)
Hands ==
    \A h \in Handler :
        /\ at[h] # "idle" => note[h] \in Note
        /\ at[h] \in Open \cup {"flushing"} => About[note[h]] \in Mail
        /\ at[h] = "settled" => note[h] \in recorded \cup unmatched
        /\ at[h] \in Open => note[h] \notin recorded

(* The addresses a handler has suppressed or has still to suppress are     *)
(* those its event condemns, up to those on the list or taken off it.      *)
Working ==
    \A h \in Handler :
        /\ at[h] \in {"finding", "inserting", "committing"} =>
              /\ left[h] \cup wrote[h] \subseteq Condemned(note[h])
              /\ Condemned(note[h]) \subseteq left[h] \cup wrote[h] \cup listed \cup removed
        /\ at[h] \notin {"finding", "inserting"} => left[h] = {}
        /\ at[h] \notin {"finding", "inserting", "committing"} => wrote[h] = {}
        /\ at[h] = "inserting" => adding[h] \in left[h]

(* The unique index on provider_event_id.                                  *)
OneWriter ==
    \A g, h \in Handler : at[g] \in Open /\ at[h] \in Open /\ note[g] = note[h] => g = h

(* A notification has one event row or none.                               *)
Counted == \A n \in Note : times[n] = IF n \in recorded THEN 1 ELSE 0

IInv == TypeOK /\ Hands /\ Working /\ OneWriter /\ Counted /\ GoneMeansRecorded
        /\ EventsComeWhole

-----------------------------------------------------------------------------
(* The two ways of saying whom a notification condemns agree.              *)
LEMMA NamedIsCondemned ==
    ASSUME NEW n \in Note
    PROVE  Named(n) = Condemned(n) /\ Named(n) \subseteq Addr
  BY NoteAssumption, MailAssumption DEF Named, Condemned, SentTo

(* The invariant holds initially: no handler has anything in hand.         *)
LEMMA InitInv == Init => IInv
  BY NoteAssumption, BoundAssumption
  DEF Init, IInv, TypeOK, Places, Open, Hands, Working, OneWriter, Counted,
      GoneMeansRecorded, EventsComeWhole

(* Closing a session keeps it, whatever the handler was doing.             *)
LEMMA CloseInv ==
    ASSUME IInv, NEW h \in Handler, Close(h),
           UNCHANGED <<mail, dbVars, unmatched, turns>>,
           crashes' \in 0..MaxCrashes,
           queue' \in [Note -> {"unsent", "waiting", "gone"}],
           \A n \in Note : queue'[n] = "gone" => n \in recorded \cup unmatched
    PROVE  IInv'
<1> USE DEF IInv, Close, dbVars
<1>1. TypeOK'
  BY DEF TypeOK, Places
<1>2. Hands' /\ OneWriter'
  BY DEF TypeOK, Hands, OneWriter, Open
<1>3. Working'
  BY DEF TypeOK, Working, Condemned
<1>4. Counted' /\ GoneMeansRecorded' /\ EventsComeWhole'
  BY DEF TypeOK, Counted, GoneMeansRecorded, EventsComeWhole, Condemned
<1> QED BY <1>1, <1>2, <1>3, <1>4

(* The four ways a handler lets go of its notification.                    *)
Ends(h) == AddressCollides(h) \/ DeadlockBroken(h) \/ HandlerDies(h) \/ Remove(h)

(* Each of them keeps the invariant.                                       *)
LEMMA EndInv == ASSUME IInv, NEW h \in Handler, Ends(h) PROVE IInv'
<1>1. CASE AddressCollides(h) \/ DeadlockBroken(h) \/ HandlerDies(h)
  <2>1. /\ Close(h)
        /\ UNCHANGED <<mail, queue, dbVars, unmatched, turns>>
        /\ crashes' \in 0..MaxCrashes
    BY <1>1, BoundAssumption
    DEF AddressCollides, DeadlockBroken, HandlerDies, mailVars, IInv, TypeOK
  <2> QED BY <2>1, CloseInv DEF IInv, TypeOK, GoneMeansRecorded
<1>2. CASE Remove(h)
  <2>1. /\ Close(h)
        /\ UNCHANGED <<mail, dbVars, unmatched, crashes, turns>>
        /\ note[h] \in recorded \cup unmatched
        /\ queue' = [queue EXCEPT ![note[h]] = "gone"]
    BY <1>2 DEF Remove, IInv, Hands
  <2> QED BY <2>1, CloseInv DEF IInv, TypeOK, GoneMeansRecorded
<1> QED BY <1>1, <1>2 DEF Ends

(* Every step keeps it.                                                    *)
LEMMA StepInv == IInv /\ [Next]_vars => IInv'
<1> SUFFICES ASSUME IInv, [Next]_vars PROVE IInv'
  OBVIOUS
<1> USE NoteAssumption, MailAssumption, BoundAssumption
    DEF IInv, TypeOK, Places, Open, Hands, Working, OneWriter, Counted, GoneMeansRecorded,
        EventsComeWhole, vars, mailVars, workVars, dbVars
(* The message and its news.                                               *)
<1>1. ASSUME NEW m \in Mail, ProviderAccepts(m) \/ RecordSent(m) \/ AnswerLost(m) PROVE IInv'
  BY <1>1, SMTT(30) DEF ProviderAccepts, RecordSent, AnswerLost, Condemned
<1>2. ASSUME NEW n \in Note, Publish(n) PROVE IInv'
  BY <1>2, SMTT(30) DEF Publish, Condemned
(* A handler, up to its commit.                                            *)
<1>3. ASSUME NEW h \in Handler, NEW n \in Note, Receive(h, n) PROVE IInv'
  BY <1>3, SMTT(30) DEF Receive, Condemned
<1>4. ASSUME NEW h \in Handler, LookUp(h) PROVE IInv'
  BY <1>4, SMTT(30) DEF LookUp, KnownMail, Condemned
<1>5. ASSUME NEW h \in Handler, FlushEvent(h) PROVE IInv'
  <2>1. note[h] \in Note /\ Named(note[h]) = Condemned(note[h])
    BY <1>5, NamedIsCondemned DEF FlushEvent
  <2> QED BY <1>5, <2>1, SMTT(30) DEF FlushEvent, Writing, Condemned
<1>6. ASSUME NEW h \in Handler, AskAlready(h) PROVE IInv'
  <2>1. /\ note[h] \in Note
        /\ Named(note[h]) = Condemned(note[h]) /\ Named(note[h]) \subseteq Addr
    BY <1>6, NamedIsCondemned DEF AskAlready
  <2> QED BY <1>6, <2>1, SMTT(30) DEF AskAlready, Condemned
<1>7. ASSUME NEW h \in Handler, NEW a \in Addr, FindAddress(h, a) PROVE IInv'
  BY <1>7, SMTT(30) DEF FindAddress, Condemned
<1>8. ASSUME NEW h \in Handler, InsertAddress(h) PROVE IInv'
  BY <1>8, SMTT(30) DEF InsertAddress, Listing, Condemned
<1>9. ASSUME NEW h \in Handler, Commit(h) PROVE IInv'
  BY <1>9, NamedIsCondemned, SMTT(30) DEF Commit, Added, Condemned
(* A handler that is done, or fails.                                       *)
<1>10. ASSUME NEW h \in Handler, Ends(h) PROVE IInv'
  BY <1>10, EndInv
(* People.                                                                 *)
<1>11. ASSUME NEW a \in Addr, ListAddress(a) \/ RemoveAddress(a) PROVE IInv'
  BY <1>11, SMTT(30) DEF ListAddress, RemoveAddress, Condemned
<1>12. CASE UNCHANGED vars
  BY <1>12, SMTT(30) DEF Condemned
<1> QED
  BY <1>1, <1>2, <1>3, <1>4, <1>5, <1>6, <1>7, <1>8, <1>9, <1>10, <1>11, <1>12
  DEF Next, HandlerStep, Ends

(* IInv holds throughout every behaviour.                                  *)
THEOREM Invariance == Spec => []IInv
<1> QED BY InitInv, StepInv, PTL DEF Spec

-----------------------------------------------------------------------------
(* Every variable keeps its type.                                          *)
THEOREM TypeCorrect == Spec => []TypeOK
<1>1. IInv => TypeOK
  BY DEF IInv
<1> QED BY <1>1, Invariance, PTL

(* However often a notification arrives and however its handlers overlap,  *)
(* it is recorded at most once.                                            *)
THEOREM RecordedAtMostOnce == Spec => []RecordedOnce
<1>1. IInv => RecordedOnce
  BY DEF IInv, Counted, RecordedOnce
<1> QED BY <1>1, Invariance, PTL

(* Nothing disappears but what SESKit did not know when it looked.         *)
THEOREM NothingDisappears == Spec => []GoneMeansRecorded
<1>1. IInv => GoneMeansRecorded
  BY DEF IInv
<1> QED BY <1>1, Invariance, PTL

(* An event, its webhooks and the suppressions it causes are visible       *)
(* together or not at all.                                                 *)
THEOREM EventsAreWhole == Spec => []EventsComeWhole
<1>1. IInv => EventsComeWhole
  BY DEF IInv
<1> QED BY <1>1, Invariance, PTL

(* Addresses are listed by people and by notifications recorded with them: *)
(* no redelivery undoes a removal.                                         *)
THEOREM ListingHasCause == Spec => ListedForCause
<1> DEFINE Cause == \A a \in listed' \ listed :
                       turns' # turns \/ \E n \in recorded' \ recorded : a \in Condemned(n)
<1>1. IInv /\ [Next]_vars => [Cause]_vars
  <2> SUFFICES ASSUME IInv, Next PROVE Cause
    BY DEF Cause
  <2>1. ASSUME NEW h \in Handler, Commit(h) PROVE Cause
    BY <2>1 DEF Commit, IInv, TypeOK, Hands, Working, Open
  <2>2. ASSUME NEW a \in Addr, ListAddress(a) \/ RemoveAddress(a) PROVE Cause
    BY <2>2, BoundAssumption DEF ListAddress, RemoveAddress, IInv, TypeOK
  <2>3. ASSUME listed' = listed PROVE Cause
    BY <2>3
  <2> QED
    BY <2>1, <2>2, <2>3
    DEF Next, HandlerStep, ProviderAccepts, RecordSent, AnswerLost, Publish, Receive, LookUp,
        FlushEvent, AskAlready, FindAddress, InsertAddress, AddressCollides, DeadlockBroken,
        Remove, HandlerDies, dbVars
<1> QED BY <1>1, Invariance, PTL DEF Spec, ListedForCause

-----------------------------------------------------------------------------
(* The refinement of Inbox.                                                *)

(* A handler has nothing in hand that was never sent.                      *)
SentInHand == \A h \in Handler : at[h] # "idle" => queue[note[h]] # "unsent"

(* No notification goes back to where it was before it was sent.           *)
LEMMA SentInvariant == Spec => []SentInHand
<1>1. Init => SentInHand
  BY DEF Init, SentInHand
<1>2. IInv /\ SentInHand /\ [Next]_vars => SentInHand'
  <2> SUFFICES ASSUME IInv, SentInHand, [Next]_vars PROVE SentInHand'
    OBVIOUS
  <2> USE DEF IInv, TypeOK, Hands, SentInHand, mailVars, workVars, Close
  <2>1. ASSUME NEW n \in Note, Publish(n) PROVE SentInHand'
    BY <2>1 DEF Publish
  <2>2. ASSUME NEW h \in Handler, NEW n \in Note, Receive(h, n) PROVE SentInHand'
    BY <2>2 DEF Receive
  <2>3. ASSUME NEW h \in Handler, Remove(h) PROVE SentInHand'
    BY <2>3 DEF Remove
  <2>4. ASSUME NEW h \in Handler,
               \/ AddressCollides(h) \/ DeadlockBroken(h) \/ HandlerDies(h)
        PROVE  SentInHand'
    BY <2>4 DEF AddressCollides, DeadlockBroken, HandlerDies
  <2>5. ASSUME NEW h \in Handler,
               \/ LookUp(h) \/ FlushEvent(h) \/ AskAlready(h) \/ InsertAddress(h) \/ Commit(h)
               \/ \E a \in Addr : FindAddress(h, a)
        PROVE  SentInHand'
    BY <2>5 DEF LookUp, FlushEvent, AskAlready, FindAddress, InsertAddress, Commit
  <2>6. ASSUME \/ \E m \in Mail : ProviderAccepts(m) \/ RecordSent(m) \/ AnswerLost(m)
               \/ \E a \in Addr : ListAddress(a) \/ RemoveAddress(a)
        PROVE  SentInHand'
    BY <2>6 DEF ProviderAccepts, RecordSent, AnswerLost, ListAddress, RemoveAddress
  <2>7. CASE UNCHANGED vars
    BY <2>7 DEF vars
  <2> QED BY <2>1, <2>2, <2>3, <2>4, <2>5, <2>6, <2>7 DEF Next, HandlerStep
<1> QED BY <1>1, <1>2, Invariance, PTL DEF Spec

(* A step is one of the inbox's, or leaves what it shows alone.            *)
LEMMA PromiseStep == IInv /\ SentInHand /\ [Next]_vars => [Promise!Next]_(Promise!vars)
<1> SUFFICES ASSUME IInv, SentInHand, [Next]_vars PROVE [Promise!Next]_(Promise!vars)
  OBVIOUS
<1> USE DEF IInv, TypeOK, Hands, SentInHand
<1>0. ASSUME queue' = queue, times' = times, unmatched' = unmatched
      PROVE  UNCHANGED Promise!vars
  BY <1>0 DEF Promise!vars
<1>1. ASSUME NEW n \in Note, Publish(n) PROVE Promise!Next
  <2>1. Promise!Send(n)
    BY <1>1 DEF Publish, dbVars, Promise!Send
  <2> QED BY <2>1 DEF Promise!Next
<1>2. ASSUME NEW h \in Handler, LookUp(h) PROVE [Promise!Next]_(Promise!vars)
  <2>1. queue' = queue /\ times' = times
    BY <1>2 DEF LookUp, mailVars, dbVars
  <2>2. CASE KnownMail(note[h])
    BY <1>2, <2>1, <2>2, <1>0 DEF LookUp
  <2>3. CASE ~ KnownMail(note[h])
    <3>1. {note[h]} \in SUBSET Promise!Sent
      BY <1>2 DEF LookUp, Promise!Sent
    <3>2. Promise!Excuse
      BY <1>2, <2>1, <2>3, <3>1 DEF LookUp, Promise!Excuse
    <3> QED BY <3>2 DEF Promise!Next
  <2> QED BY <2>2, <2>3
<1>3. ASSUME NEW h \in Handler, Commit(h) PROVE Promise!Next
  <2>1. /\ note[h] \in Note /\ queue[note[h]] # "unsent"
        /\ times[note[h]] = 0
        /\ times' = [times EXCEPT ![note[h]] = 1]
        /\ queue' = queue /\ unmatched' = unmatched
    <3>1. note[h] \in Note /\ queue[note[h]] # "unsent" /\ note[h] \notin recorded
      BY <1>3 DEF Commit, Open
    <3>2. times[note[h]] = 0 /\ times \in [Note -> Nat]
      BY <3>1 DEF Counted
    <3>3. /\ times' = [times EXCEPT ![note[h]] = @ + 1]
          /\ queue' = queue /\ unmatched' = unmatched
      BY <1>3 DEF Commit, mailVars
    <3> QED BY <3>1, <3>2, <3>3
  <2>2. Promise!RecordItem(note[h])
    BY <2>1 DEF Promise!RecordItem, Promise!Sent
  <2> QED BY <2>1, <2>2 DEF Promise!Next
<1>4. ASSUME NEW h \in Handler, Remove(h) PROVE [Promise!Next]_(Promise!vars)
  <2>1. /\ note[h] \in Note /\ queue[note[h]] \in {"waiting", "gone"}
        /\ note[h] \in unmatched \/ times[note[h]] > 0
        /\ queue' = [queue EXCEPT ![note[h]] = "gone"]
        /\ times' = times /\ unmatched' = unmatched
    BY <1>4 DEF Remove, Counted, dbVars
  <2>2. CASE queue[note[h]] = "waiting"
    <3>1. Promise!Remove(note[h])
      BY <2>1, <2>2 DEF Promise!Remove, Promise!Waiting, Promise!Settled
    <3> QED BY <2>1, <3>1 DEF Promise!Next
  <2>3. CASE queue[note[h]] = "gone"
    BY <2>1, <2>3, <1>0
  <2> QED BY <2>1, <2>2, <2>3
<1>5. ASSUME NEW h \in Handler,
             \/ \E n \in Note : Receive(h, n)
             \/ FlushEvent(h) \/ AskAlready(h) \/ InsertAddress(h)
             \/ \E a \in Addr : FindAddress(h, a)
             \/ AddressCollides(h) \/ DeadlockBroken(h) \/ HandlerDies(h)
      PROVE  UNCHANGED Promise!vars
  BY <1>5, <1>0
  DEF Receive, FlushEvent, AskAlready, FindAddress, InsertAddress, AddressCollides,
      DeadlockBroken, HandlerDies, mailVars, dbVars
<1>6. ASSUME \/ \E m \in Mail : ProviderAccepts(m) \/ RecordSent(m) \/ AnswerLost(m)
             \/ \E a \in Addr : ListAddress(a) \/ RemoveAddress(a)
      PROVE  UNCHANGED Promise!vars
  BY <1>6, <1>0
  DEF ProviderAccepts, RecordSent, AnswerLost, ListAddress, RemoveAddress, mailVars, dbVars
<1>7. CASE UNCHANGED vars
  BY <1>7, <1>0 DEF vars
<1> QED BY <1>1, <1>2, <1>3, <1>4, <1>5, <1>6, <1>7 DEF Next, HandlerStep

(* Ingestion keeps the inbox's promise: however deliveries, handlers,      *)
(* deaths and people interleave, each of its behaviours is one of Inbox.   *)
THEOREM PromiseKept == Spec => KeepsPromise
<1>1. Init => Promise!Init
  BY DEF Init, Promise!Init
<1> QED BY <1>1, PromiseStep, Invariance, SentInvariant, PTL DEF Spec, KeepsPromise, Promise!Spec

-----------------------------------------------------------------------------
(* EventPlumbing.                                                          *)

(* What a request has in hand, by its kind and by where it is.             *)
InHand(r) ==
    LET o == op[r]  done == stage[r] = "committing" IN
    /\ o \in Op
    /\ o.saw.zone = Nowhere => o.saw.built = Nowhere
    /\ stage[r] = "building"   => o.kind = "setup"
    /\ stage[r] = "updating"   => o.kind = "track" /\ Enabled(o.saw)
    /\ stage[r] = "verifying"  => o.kind = "connect"
    /\ stage[r] \in {"counting", "dropping"} =>
           o.kind \in {"remove", "disconnect"} /\ Enabled(o.saw)
    /\ o.kind \in {"setup", "remove", "track"} => o.saw.zone # Nowhere
    /\ o.kind \in {"setup", "remove", "track"} => o.held.zone = o.saw.zone
    /\ o.kind = "connect" => o.held.zone # Nowhere
    /\ o.kind \in {"track", "connect"} => o.held.built = o.saw.built
    /\ o.kind \in {"setup", "connect"} => o.held.track = o.saw.track
    /\ o.kind = "setup" => o.held.built = IF done THEN o.saw.zone ELSE o.saw.built
    /\ o.kind = "remove" =>
           IF done THEN o.held.built = Nowhere ELSE o.held = o.saw

AllInHand == \A r \in Busy : InHand(r)

(* A connection names event resources only if it is one.                   *)
Connected == \A p \in Project : row[p].zone = Nowhere => row[p].built = Nowhere

(* Nobody else is at work, and the row is as it was loaded.                *)
Sole(r) ==
    /\ \A q \in Request : stage[q] \notin Ended => q = r
    /\ op[r].saw = row[op[r].project]

OneAtATime ==
    /\ \A r \in alone : stage[r] \notin Ended /\ Sole(r)
    /\ alone = {} => Busy = {} \/ disturbed = Project
    /\ "overlap" \notin strays => \A r \in Busy : Sole(r)

(* What a set-up has made so far.                                          *)
Made(r) == {Build[i] : i \in 1..op[r].step}

(* What an undisturbed request has done by now.                            *)
Progress(r) ==
    LET o == op[r]  z == o.saw.zone IN
    /\ o.kind = "setup" =>
          /\ Made(r) \subseteq exists[z]
          /\ stage[r] = "committing" => o.step = 5
          /\ o.step = 5 => setBy[z] = {o.project} /\ tracked[z] = o.held.track
    /\ stage[r] = "dropping" => OtherUsers(r) = {}
    /\ o.kind = "track" /\ stage[r] = "committing" /\ Enabled(o.saw) =>
          setBy[z] = {o.project} /\ tracked[z] = o.held.track

(* A request of p that is taking its resources away, or that has switched  *)
(* tracking and is about to say so.                                        *)
TakesAway(r, p) ==
    /\ op[r].project = p
    /\ \/ stage[r] = "dropping"
       \/ stage[r] = "committing" /\ op[r].kind \in {"remove", "disconnect"}

Switches(r, p) == op[r].project = p /\ stage[r] = "committing" /\ op[r].kind = "track"

FlowsFor(p) == Enabled(row[p]) => row[p].built = row[p].zone /\ exists[row[p].zone] = Resource

ToldFor(p) ==
    Enabled(row[p]) /\ setBy[row[p].zone] = {p} => row[p].track = tracked[row[p].zone]

Flowing ==
    /\ \A r \in alone : Progress(r)
    /\ \A p \in Project \ disturbed :
          /\ FlowsFor(p) \/ \E r \in alone : TakesAway(r, p)
          /\ ToldFor(p) \/ \E r \in alone : TakesAway(r, p) \/ Switches(r, p)

(* Without strays a row names the zone it is connected to, everything      *)
(* there is is named or about to be, and a removal has removed what it has *)
(* come to, or leaves it to somebody.                                      *)
NamesItsZone == \A p \in Project : Enabled(row[p]) => row[p].built = row[p].zone

KnownIn(z) ==
    exists[z] # {} => \/ \E p \in Project : row[p].built = z
                     \/ \E r \in Busy : op[r].kind = "setup" /\ op[r].saw.zone = z

Left(r) ==
    LET o == op[r]  z == o.saw.zone IN
    /\ stage[r] = "counting" => o.step = 0
    /\ stage[r] = "dropping" => \A i \in 1..o.step : Drop[i] \notin exists[z]
    /\ /\ stage[r] = "committing" /\ o.kind \in {"remove", "disconnect"}
       /\ Enabled(o.saw) /\ exists[z] # {}
       => \E q \in Project : q # o.project /\ row[q].built = z

Accounted ==
    strays = {} => NamesItsZone /\ (\A z \in Zone : KnownIn(z)) /\ \A r \in Busy : Left(r)

Typed == PlumbingTypeOK /\ AllInHand /\ Connected

-----------------------------------------------------------------------------
(* Types, and what a request has in hand.                                  *)

LEMMA PlumbingTypedInit == PlumbingInit => Typed
  BY ZoneAssumption, StartsAssumption
  DEF PlumbingInit, Typed, PlumbingTypeOK, Connection, Blank, Stages, Ended, AllInHand, Busy, Connected

(* What a request begins with.                                             *)
LEMMA Begun ==
    ASSUME NEW k \in {"setup", "remove", "track", "disconnect", "connect"},
           NEW p \in Project, NEW saw \in Connection, NEW held \in Connection
    PROVE  [kind |-> k, project |-> p, saw |-> saw, held |-> held, step |-> 0] \in Op
  BY DEF Op

(* A step of one request leaves the others with what they have.            *)
LEMMA OneMoves ==
    ASSUME Typed, NEW r \in Request, NEW s \in Stages, NEW o \in Op \cup {NoOp},
           stage' = [stage EXCEPT ![r] = s], op' = [op EXCEPT ![r] = o],
           s \notin Ended => InHand(r)'
    PROVE  /\ stage' \in [Request -> Stages] /\ op' \in [Request -> Op \cup {NoOp}]
           /\ AllInHand'
<1>1. stage' \in [Request -> Stages] /\ op' \in [Request -> Op \cup {NoOp}]
  BY DEF Typed, PlumbingTypeOK
<1>2. stage'[r] = s
  BY DEF Typed, PlumbingTypeOK
<1>3. ASSUME NEW q \in Request, stage'[q] \notin Ended PROVE InHand(q)'
  <2>1. CASE q = r
    BY <1>2, <1>3, <2>1
  <2>2. CASE q # r
    <3>1. stage'[q] = stage[q] /\ op'[q] = op[q]
      BY <2>2 DEF Typed, PlumbingTypeOK
    <3>2. InHand(q)
      BY <1>3, <3>1 DEF Typed, AllInHand, Busy
    <3> QED BY <3>1, <3>2 DEF InHand
  <2> QED BY <2>1, <2>2
<1> QED BY <1>1, <1>3 DEF AllInHand, Busy

(* One that has ended has nothing in hand.                                 *)
LEMMA LeaveTyped ==
    ASSUME Typed, NEW r \in Request, NEW place \in Ended,
           Go(r, place), op' = [op EXCEPT ![r] = NoOp]
    PROVE  /\ stage' \in [Request -> Stages] /\ op' \in [Request -> Op \cup {NoOp}]
           /\ AllInHand'
  BY OneMoves DEF Go, Stages

(* A request that begins has in hand what its kind asks for.               *)
LEMMA RequestsTyped == ASSUME Typed, Requests PROVE Typed'
<1> USE DEF Typed
<1>1. ASSUME NEW r \in Request, NEW p \in Project, NEW place \in Stages \ Ended,
             NEW k \in {"setup", "remove", "track", "disconnect", "connect"},
             NEW held \in Connection,
             Begin(r, k, p, held), Go(r, place), InHand(r)'
      PROVE  Typed'
  <2> DEFINE o == [kind |-> k, project |-> p, saw |-> row[p], held |-> held, step |-> 0]
  <2>1. o \in Op
    <3>1. row[p] \in Connection
      BY DEF PlumbingTypeOK
    <3> QED BY <3>1, Begun
  <2>2. /\ stage' \in [Request -> Stages] /\ op' \in [Request -> Op \cup {NoOp}]
        /\ AllInHand'
    BY <1>1, <2>1, OneMoves DEF Begin, Go
  <2>3. UNCHANGED <<row, exists, tracked, setBy, failures>>
    BY <1>1 DEF Begin, awsVars
  <2>4. alone' \subseteq Request /\ disturbed' \subseteq Project
        /\ strays' \subseteq {"overlap", "refused", "died", "passed over", "moved"}
    BY <1>1 DEF Begin, PlumbingTypeOK
  <2>5. starts' \in 0..MaxStarts
    <3>1. starts < MaxStarts /\ starts' = starts + 1
      BY <1>1 DEF Begin
    <3>2. starts \in 0..MaxStarts
      BY DEF PlumbingTypeOK
    <3> QED BY <3>1, <3>2, StartsAssumption
  <2>6. PlumbingTypeOK'
    BY <2>2, <2>3, <2>4, <2>5 DEF PlumbingTypeOK
  <2>7. Connected'
    BY <2>3 DEF Connected
  <2> QED BY <2>2, <2>6, <2>7
<1>2. PICK r \in Request, p \in Project :
         \/ Setup(r, p) \/ RemoveEvents(r, p) \/ Disconnect(r, p)
         \/ \E b \in BOOLEAN : ChangeTracking(r, p, b)
         \/ \E z \in Zone : Connect(r, p, z)
  BY DEF Requests
<1>3. row[p] \in Connection /\ (row[p].zone = Nowhere => row[p].built = Nowhere)
  BY DEF PlumbingTypeOK, Connected
<1>4. ASSUME NEW k \in {"setup", "remove", "track", "disconnect", "connect"},
             NEW held \in Connection, NEW place \in Stages \ Ended,
             Begin(r, k, p, held), Go(r, place)
      PROVE  /\ stage'[r] = place /\ op'[r] \in Op
             /\ op'[r].kind = k /\ op'[r].saw = row[p] /\ op'[r].held = held
  <2>1. op'[r] = [kind |-> k, project |-> p, saw |-> row[p], held |-> held, step |-> 0]
    BY <1>4 DEF Begin, PlumbingTypeOK
  <2>2. stage'[r] = place
    BY <1>4 DEF Go, PlumbingTypeOK
  <2> QED BY <1>3, <2>1, <2>2, Begun
<1> DEFINE Begins(k, held, place) ==
               /\ Begin(r, k, p, held) /\ Go(r, place)
               /\ stage'[r] = place /\ op'[r] \in Op
               /\ op'[r].kind = k /\ op'[r].saw = row[p] /\ op'[r].held = held
<1>5. CASE Setup(r, p)
  <2>1. Begins("setup", row[p], "building") /\ row[p].zone # Nowhere
    BY <1>3, <1>4, <1>5 DEF Setup, Stages, Ended
  <2>2. InHand(r)'
    BY <1>3, <2>1 DEF InHand
  <2> QED BY <1>1, <1>3, <2>1, <2>2 DEF Stages, Ended
<1>6. CASE RemoveEvents(r, p)
  <2>1. Begins("remove", row[p], "counting") /\ Enabled(row[p])
    BY <1>3, <1>4, <1>6 DEF RemoveEvents, Stages, Ended
  <2>2. InHand(r)'
    BY <1>3, <2>1 DEF InHand, Enabled
  <2> QED BY <1>1, <1>3, <2>1, <2>2 DEF Stages, Ended
<1>7. CASE Disconnect(r, p)
  <2> DEFINE place == IF Enabled(row[p]) THEN "counting" ELSE "committing"
  <2>1. place \in Stages \ Ended
    BY DEF Stages, Ended
  <2>2. Begins("disconnect", row[p], place)
    BY <1>3, <1>4, <1>7, <2>1 DEF Disconnect
  <2>3. InHand(r)'
    BY <1>3, <2>2 DEF InHand, Enabled
  <2> QED BY <1>1, <1>3, <2>1, <2>2, <2>3
<1>8. ASSUME NEW b \in BOOLEAN, ChangeTracking(r, p, b) PROVE Typed'
  <2> DEFINE place == IF Enabled(row[p]) THEN "updating" ELSE "committing"
             held  == [row[p] EXCEPT !.track = b]
  <2>1. /\ held \in Connection /\ held.zone = row[p].zone /\ held.built = row[p].built
        /\ place \in Stages \ Ended
    BY <1>3 DEF Connection, Stages, Ended
  <2>2. Begins("track", held, place) /\ row[p].zone # Nowhere
    BY <1>4, <1>8, <2>1 DEF ChangeTracking
  <2>3. InHand(r)'
    BY <1>3, <2>1, <2>2 DEF InHand, Enabled
  <2> QED BY <1>1, <2>1, <2>2, <2>3
<1>9. ASSUME NEW z \in Zone, Connect(r, p, z) PROVE Typed'
  <2> DEFINE held == [row[p] EXCEPT !.zone = z]
  <2>1. /\ held \in Connection /\ held.zone = z /\ held.built = row[p].built
        /\ held.track = row[p].track
    BY <1>3 DEF Connection
  <2>2. Begins("connect", held, "verifying")
    BY <1>4, <1>9, <2>1 DEF Connect, Stages, Ended
  <2>3. InHand(r)'
    BY <1>3, <2>1, <2>2, ZoneAssumption DEF InHand
  <2> QED BY <1>1, <2>1, <2>2, <2>3 DEF Stages, Ended
<1> QED BY <1>2, <1>5, <1>6, <1>7, <1>8, <1>9

(* AWS calls keep the types of what they change.                           *)
LEMMA WithoutTyped ==
    ASSUME Typed, NEW x \in Resource, NEW z, Without(z, x)
    PROVE  /\ exists' \in [Zone -> SUBSET Resource]
           /\ tracked' \in [Zone -> BOOLEAN]
           /\ setBy' \in [Zone -> SUBSET Project]
<1>1. exists' \in [Zone -> SUBSET Resource]
  BY DEF Typed, PlumbingTypeOK, Without
<1>2. tracked' \in [Zone -> BOOLEAN]
  BY DEF Typed, PlumbingTypeOK, Without
<1>3. setBy' \in [Zone -> SUBSET Project]
  BY DEF Typed, PlumbingTypeOK, Without
<1> QED BY <1>1, <1>2, <1>3

(* A destination is set by the project of the request, to its wish.        *)
LEMMA PutTyped ==
    ASSUME Typed, NEW r \in Request, op[r] \in Op, NEW b \in BOOLEAN, PutDestination(r, b)
    PROVE  tracked' \in [Zone -> BOOLEAN] /\ setBy' \in [Zone -> SUBSET Project]
<1>1. op[r].project \in Project
  BY DEF Op
<1> QED BY <1>1 DEF Typed, PlumbingTypeOK, PutDestination

(* The five resources, in either order.                                    *)
LEMMA Orders ==
    /\ Len(Build) = 5 /\ Len(Drop) = 5
    /\ \A i \in 1..5 : Build[i] \in Resource /\ Drop[i] \in Resource
    /\ \A x \in Resource : (\E i \in 1..5 : x = Build[i]) /\ (\E i \in 1..5 : x = Drop[i])
  BY DEF Build, Drop, Resource

(* Columns that the request did not change keep what is there.             *)
LEMMA Merged ==
    ASSUME NEW old \in Connection, NEW o \in Op
    PROVE  /\ Merge(old, o) \in Connection
           /\ Merge(old, o).zone = IF o.held.zone # o.saw.zone THEN o.held.zone ELSE old.zone
           /\ Merge(old, o).built = IF o.held.built # o.saw.built THEN o.held.built
                                    ELSE old.built
           /\ Merge(old, o).track = IF o.held.track # o.saw.track THEN o.held.track
                                    ELSE old.track
<1> DEFINE new == [zone  |-> IF o.held.zone # o.saw.zone THEN o.held.zone ELSE old.zone,
                   built |-> IF o.held.built # o.saw.built THEN o.held.built ELSE old.built,
                   track |-> IF o.held.track # o.saw.track THEN o.held.track ELSE old.track]
<1>1. o.held \in Connection /\ o.saw \in Connection
  BY DEF Op
<1>2. DOMAIN old = {"zone", "built", "track"}
  BY DEF Connection
<1>3. Merge(old, o) = new
  BY <1>2 DEF Merge
<1>4. new \in Connection
  BY <1>1 DEF Connection
<1> QED BY <1>3, <1>4

(* What a request has in hand, changed.                                    *)
LEMMA Changed ==
    ASSUME NEW o \in Op
    PROVE  /\ o.step < 5 => [o EXCEPT !.step = @ + 1] \in Op
           /\ \A h \in Connection : [o EXCEPT !.held = h] \in Op
           /\ o.saw \in Connection /\ o.held \in Connection /\ o.project \in Project
           /\ o.step \in 0..5
           /\ \A z \in Zone \cup {Nowhere} : [o.held EXCEPT !.built = z] \in Connection
           /\ Cleared(o.held) \in Connection
<1>1. o.saw \in Connection /\ o.held \in Connection /\ o.project \in Project /\ o.step \in 0..5
  BY DEF Op
<1>2. o.step < 5 => [o EXCEPT !.step = @ + 1] \in Op
  BY DEF Op
<1>3. \A h \in Connection : [o EXCEPT !.held = h] \in Op
  BY DEF Op
<1>4. \A z \in Zone \cup {Nowhere} : [o.held EXCEPT !.built = z] \in Connection
  BY <1>1 DEF Connection
<1>5. Cleared(o.held) \in Connection
  BY <1>1 DEF Connection, Cleared
<1> QED BY <1>1, <1>2, <1>3, <1>4, <1>5

(* What every step has to keep of the types beside the request's own.      *)
Rest ==
    /\ row \in [Project -> Connection]
    /\ exists \in [Zone -> SUBSET Resource]
    /\ tracked \in [Zone -> BOOLEAN]
    /\ setBy \in [Zone -> SUBSET Project]
    /\ starts \in 0..MaxStarts /\ failures \in 0..MaxFailures
    /\ alone \subseteq Request
    /\ disturbed \subseteq Project
    /\ strays \subseteq {"overlap", "refused", "died", "passed over", "moved"}
    /\ Connected

(* Types, and what the request itself changes, apart.                      *)
LEMMA TypedParts ==
    /\ Typed <=> /\ Rest /\ AllInHand
                 /\ stage \in [Request -> Stages] /\ op \in [Request -> Op \cup {NoOp}]
  BY DEF Typed, Rest, PlumbingTypeOK

(* A request that gives up.                                                *)
LEMMA AbandonTyped ==
    ASSUME Typed, NEW r \in Request, Abandon(r),
           failures' \in 0..MaxFailures, disturbed' \subseteq Project,
           strays' \subseteq {"overlap", "refused", "died", "passed over", "moved"}
    PROVE  Typed'
<1>1. /\ stage' \in [Request -> Stages] /\ op' \in [Request -> Op \cup {NoOp}]
      /\ AllInHand'
  BY LeaveTyped DEF Abandon, Leave, Ended
<1>2. Rest'
  BY TypedParts DEF Rest, Abandon, Leave, awsVars, Connected
<1> QED BY <1>1, <1>2 DEF Typed, Rest, PlumbingTypeOK

(* One that gives up because a call raised.                                *)
LEMMA RaisesTyped ==
    ASSUME Typed, NEW r \in Request, Raises(r), failures' \in 0..MaxFailures
    PROVE  Typed'
<1>1. /\ disturbed' \subseteq Project
      /\ strays' \subseteq {"overlap", "refused", "died", "passed over", "moved"}
  BY DEF Raises, Typed, PlumbingTypeOK
<1> QED BY <1>1, AbandonTyped DEF Raises

(* One that AWS refuses, or whose process ends.                            *)
LEMMA FailuresTyped ==
    ASSUME Typed, NEW r \in Request, Failing(r)
    PROVE  Typed'
<1>1. failures' \in 0..MaxFailures
  <2>1. failures < MaxFailures /\ failures' = failures + 1
    BY DEF Failing, AwsRefuses, Dies
  <2>2. failures \in 0..MaxFailures
    BY DEF Typed, PlumbingTypeOK
  <2> QED BY <2>1, <2>2, StartsAssumption
<1>2. CASE AwsRefuses(r)
  BY <1>1, <1>2, RaisesTyped DEF AwsRefuses
<1>3. CASE Dies(r)
  <2>1. op[r].project \in Project
    BY <1>3 DEF Dies, Typed, AllInHand, InHand, Op
  <2>2. /\ disturbed' \subseteq Project
        /\ strays' \subseteq {"overlap", "refused", "died", "passed over", "moved"}
    BY <1>3, <2>1 DEF Dies, Typed, PlumbingTypeOK
  <2> QED BY <1>1, <1>3, <2>2, AbandonTyped DEF Dies
<1> QED BY <1>2, <1>3 DEF Failing

(* The steps of a request.                                                 *)
LEMMA BusyHand ==
    ASSUME Typed, NEW r \in Request, stage[r] \notin Ended
    PROVE  InHand(r) /\ op[r] \in Op
  BY DEF Typed, AllInHand, InHand, Busy

(* A request that goes on with other columns in its session.               *)
LEMMA GoesOn ==
    ASSUME Typed, NEW r \in Request, stage[r] \notin Ended,
           NEW s \in Stages \ Ended, NEW h \in Connection,
           stage' = [stage EXCEPT ![r] = s],
           op' = [op EXCEPT ![r] = [op[r] EXCEPT !.held = h]]
    PROVE  /\ stage'[r] = s /\ op'[r] \in Op
           /\ op'[r].kind = op[r].kind /\ op'[r].project = op[r].project
           /\ op'[r].saw = op[r].saw /\ op'[r].step = op[r].step /\ op'[r].held = h
           /\ \A q \in Request \ {r} : stage'[q] = stage[q] /\ op'[q] = op[q]
<1>1. op[r] \in Op /\ [op[r] EXCEPT !.held = h] \in Op
  BY BusyHand, Changed
<1>2. op'[r] = [op[r] EXCEPT !.held = h] /\ stage'[r] = s
  BY DEF Typed, PlumbingTypeOK
<1>3. /\ op'[r].kind = op[r].kind /\ op'[r].project = op[r].project
      /\ op'[r].saw = op[r].saw /\ op'[r].step = op[r].step /\ op'[r].held = h
  BY <1>1, <1>2 DEF Op
<1>4. \A q \in Request \ {r} : stage'[q] = stage[q] /\ op'[q] = op[q]
  BY DEF Typed, PlumbingTypeOK
<1> QED BY <1>1, <1>2, <1>3, <1>4

(* One that goes on to another stage with another row in hand.             *)
LEMMA GoesOnTyped ==
    ASSUME Typed, NEW r \in Request, stage[r] \notin Ended,
           NEW s \in Stages \ Ended, NEW h \in Connection,
           stage' = [stage EXCEPT ![r] = s],
           op' = [op EXCEPT ![r] = [op[r] EXCEPT !.held = h]],
           InHand(r)'
    PROVE  stage' \in [Request -> Stages] /\ AllInHand' /\ op' \in [Request -> Op \cup {NoOp}]
<1>1. op[r] \in Op /\ [op[r] EXCEPT !.held = h] \in Op
  BY BusyHand, Changed
<1> QED BY <1>1, OneMoves

(* One that has made another call.                                         *)
LEMMA CountsOn ==
    ASSUME Typed, NEW r \in Request, stage[r] \notin Ended, op[r].step < 5,
           stage' = stage, op' = [op EXCEPT ![r].step = @ + 1]
    PROVE  /\ stage'[r] = stage[r] /\ op'[r] \in Op
           /\ op'[r].kind = op[r].kind /\ op'[r].project = op[r].project
           /\ op'[r].saw = op[r].saw /\ op'[r].held = op[r].held
           /\ op[r].step \in 0..4 /\ op'[r].step = op[r].step + 1
           /\ \A q \in Request \ {r} : stage'[q] = stage[q] /\ op'[q] = op[q]
           /\ stage' \in [Request -> Stages] /\ AllInHand' /\ op' \in [Request -> Op \cup {NoOp}]
<1> DEFINE o == [op[r] EXCEPT !.step = @ + 1]
<1>1. op[r] \in Op /\ InHand(r) /\ op[r].step \in 0..5 /\ o \in Op
  BY BusyHand, Changed
<1>2. op' = [op EXCEPT ![r] = o]
  OBVIOUS
<1>3. op'[r] = o
  BY <1>2 DEF Typed, PlumbingTypeOK
<1>4. /\ o.kind = op[r].kind /\ o.project = op[r].project
      /\ o.saw = op[r].saw /\ o.held = op[r].held /\ o.step = op[r].step + 1
  BY <1>1 DEF Op
<1>5. InHand(r)'
  <2> HIDE DEF o
  <2> QED BY <1>1, <1>3, <1>4 DEF InHand
<1>6. stage' = [stage EXCEPT ![r] = stage[r]] /\ stage[r] \in Stages
  BY DEF Typed, PlumbingTypeOK
<1>7. stage' \in [Request -> Stages] /\ AllInHand' /\ op' \in [Request -> Op \cup {NoOp}]
  BY <1>1, <1>2, <1>5, <1>6, OneMoves
<1>8. \A q \in Request \ {r} : stage'[q] = stage[q] /\ op'[q] = op[q]
  BY <1>2 DEF Typed, PlumbingTypeOK
<1>9. op[r].step \in 0..4
  BY <1>1
<1> HIDE DEF o
<1> QED BY <1>1, <1>3, <1>4, <1>7, <1>8, <1>9

(* One whose place changes and nothing else.                               *)
LEMMA WalksOn ==
    ASSUME Typed, NEW r \in Request, stage[r] \notin Ended,
           NEW s \in Stages \ Ended, stage' = [stage EXCEPT ![r] = s], op' = op
    PROVE  /\ stage'[r] = s /\ op'[r] = op[r]
           /\ \A q \in Request \ {r} : stage'[q] = stage[q] /\ op'[q] = op[q]
  BY DEF Typed, PlumbingTypeOK

(* One that only moves to another stage.                                   *)
LEMMA WalksOnTyped ==
    ASSUME Typed, NEW r \in Request, stage[r] \notin Ended,
           NEW s \in Stages \ Ended, stage' = [stage EXCEPT ![r] = s], op' = op, InHand(r)'
    PROVE  stage' \in [Request -> Stages] /\ AllInHand' /\ op' \in [Request -> Op \cup {NoOp}]
<1>1. op' = [op EXCEPT ![r] = op[r]] /\ op[r] \in Op
  BY BusyHand DEF Typed, PlumbingTypeOK
<1> QED BY <1>1, OneMoves

(* Where a request can be at work.                                         *)
LEMMA WorkPlaces ==
    Stages \ Ended = {"building", "counting", "dropping", "updating", "verifying", "committing"}
  BY DEF Stages, Ended

(* A resource is made, or what it needs is missing.                        *)
LEMMA ProvisionTyped ==
    ASSUME Typed, NEW r \in Request, Provision(r) PROVE Typed'
<1> DEFINE x == Build[op[r].step + 1]
<1>1. /\ stage[r] = "building" /\ InHand(r) /\ op[r] \in Op /\ op[r].step \in 0..4
      /\ x \in Resource
  <2>1. stage[r] = "building" /\ op[r].step < 5
    BY Orders DEF Provision, MoreToBuild
  <2>2. InHand(r) /\ op[r] \in Op
    BY <2>1, BusyHand DEF Ended
  <2>3. op[r].step \in 0..4
    <3>1. op[r].step \in 0..5
      BY <2>2, Changed
    <3> QED BY <2>1, <3>1
  <2> QED BY <2>1, <2>2, <2>3, Orders
<1>2. CASE Needs(x) \subseteq exists[Here(r)]
  <2>1. /\ exists' = [exists EXCEPT ![Here(r)] = @ \cup {x}]
        /\ IF x = "destination" THEN PutDestination(r, op[r].saw.track)
                                ELSE UNCHANGED <<tracked, setBy>>
        /\ op' = [op EXCEPT ![r].step = @ + 1]
        /\ UNCHANGED <<row, stage, starts, alone, disturbed, strays, failures>>
    BY <1>2 DEF Provision
  <2>7. stage' \in [Request -> Stages] /\ AllInHand' /\ op' \in [Request -> Op \cup {NoOp}]
    <3>1. stage[r] \notin Ended /\ op[r].step < 5
      BY <1>1 DEF Ended
    <3> QED BY <2>1, <3>1, CountsOn
  <2>8. exists' \in [Zone -> SUBSET Resource]
    BY <1>1, <2>1 DEF Typed, PlumbingTypeOK
  <2>9. tracked' \in [Zone -> BOOLEAN] /\ setBy' \in [Zone -> SUBSET Project]
    <3>1. op[r].saw.track \in BOOLEAN
      BY <1>1 DEF Op, Connection
    <3>2. UNCHANGED <<tracked, setBy>> => /\ tracked' \in [Zone -> BOOLEAN]
                                          /\ setBy' \in [Zone -> SUBSET Project]
      BY DEF Typed, PlumbingTypeOK
    <3> QED BY <1>1, <2>1, <3>1, <3>2, PutTyped
  <2>10. Rest'
    BY <2>1, <2>8, <2>9, TypedParts DEF Rest, Connected
  <2> QED BY <2>7, <2>10 DEF Typed, Rest, PlumbingTypeOK
<1>3. CASE ~ (Needs(x) \subseteq exists[Here(r)])
  <2>1. Raises(r) /\ failures' = failures
    BY <1>3 DEF Provision
  <2> QED BY <2>1, RaisesTyped DEF Typed, PlumbingTypeOK
<1> QED BY <1>2, <1>3

(* The row names what was built.                                           *)
LEMMA RecordBuiltTyped ==
    ASSUME Typed, NEW r \in Request, RecordBuilt(r) PROVE Typed'
<1> DEFINE h == [op[r].held EXCEPT !.built = Here(r)]
           o == [op[r] EXCEPT !.held = h]
<1>1. /\ stage[r] = "building" /\ InHand(r) /\ op[r] \in Op
      /\ op' = [op EXCEPT ![r].held.built = Here(r)]
      /\ stage' = [stage EXCEPT ![r] = "committing"] /\ "committing" \in Stages
      /\ UNCHANGED <<row, exists, tracked, setBy, starts, failures, alone, disturbed, strays>>
  BY BusyHand DEF RecordBuilt, Ended, Stages, Go, awsVars
<1>2. Here(r) \in Zone \cup {Nowhere} /\ h \in Connection /\ o \in Op
  <2>1. op[r].saw \in Connection
    BY <1>1, Changed
  <2>2. Here(r) \in Zone \cup {Nowhere}
    BY <2>1 DEF Here, Connection
  <2> QED BY <1>1, <2>2, Changed
<1>3. op' = [op EXCEPT ![r] = o]
  BY <1>1
<1>4. op'[r] = o /\ stage'[r] = "committing"
  BY <1>1, <1>3 DEF Typed, PlumbingTypeOK
<1>5. /\ o.kind = op[r].kind /\ o.saw = op[r].saw /\ o.held = h
      /\ h.built = Here(r) /\ h.zone = op[r].held.zone /\ h.track = op[r].held.track
  <2>1. op[r].held \in Connection
    BY <1>1, Changed
  <2> QED BY <1>1, <2>1 DEF Op, Connection
<1>6. InHand(r)'
  <2> HIDE DEF h, o
  <2> QED BY <1>1, <1>2, <1>4, <1>5 DEF InHand, Here
<1>7. /\ stage' \in [Request -> Stages] /\ op' \in [Request -> Op \cup {NoOp}]
      /\ AllInHand'
  BY <1>1, <1>2, <1>3, <1>6, OneMoves
<1>8. Rest'
  BY <1>1, TypedParts DEF Rest, Connected
<1> QED BY <1>7, <1>8 DEF Typed, Rest, PlumbingTypeOK

(* The destination is updated, or is not there.                            *)
LEMMA UpdateTyped ==
    ASSUME Typed, NEW r \in Request, UpdateDestination(r) \/ Verify(r) PROVE Typed'
<1>1. stage[r] \in {"updating", "verifying"} /\ stage[r] \notin Ended
  BY DEF UpdateDestination, Verify, Ended
<1>2. InHand(r) /\ op[r] \in Op /\ op[r].held \in Connection
  BY <1>1, BusyHand, Changed
<1>3. CASE /\ Go(r, "committing")
           /\ UNCHANGED <<row, exists, op, starts, failures, alone, disturbed, strays>>
           /\ PutDestination(r, op[r].held.track) \/ UNCHANGED <<tracked, setBy>>
  <2>1. stage'[r] = "committing" /\ op'[r] = op[r]
    BY <1>1, <1>3, WalksOn, WorkPlaces DEF Go
  <2>2. InHand(r)'
    BY <1>1, <1>2, <2>1 DEF InHand
  <2>5. stage' \in [Request -> Stages] /\ AllInHand' /\ op' \in [Request -> Op \cup {NoOp}]
    BY <1>1, <1>3, <2>2, WalksOnTyped, WorkPlaces DEF Go
  <2>3. tracked' \in [Zone -> BOOLEAN] /\ setBy' \in [Zone -> SUBSET Project]
    <3>1. op[r].held.track \in BOOLEAN
      BY <1>2 DEF Connection
    <3>2. tracked \in [Zone -> BOOLEAN] /\ setBy \in [Zone -> SUBSET Project]
      BY DEF Typed, PlumbingTypeOK
    <3> QED BY <1>2, <1>3, <3>1, <3>2, PutTyped
  <2>4. Rest'
    BY <1>3, <2>3, TypedParts DEF Rest, Connected
  <2> QED BY <2>4, <2>5 DEF Typed, Rest, PlumbingTypeOK
<1>4. CASE Raises(r) /\ UNCHANGED failures
  BY <1>4, RaisesTyped DEF Typed, PlumbingTypeOK
<1> QED BY <1>3, <1>4 DEF UpdateDestination, Verify, awsVars

(* The other users of the zone are counted, or a removal is complete.      *)
LEMMA CountTyped ==
    ASSUME Typed, NEW r \in Request, CountOthers(r) \/ RecordRemoved(r) PROVE Typed'
<1>1. stage[r] \in {"counting", "dropping"} /\ stage[r] \notin Ended
  BY DEF CountOthers, RecordRemoved, Ended
<1>2. /\ InHand(r) /\ op[r] \in Op /\ op[r].held \in Connection
      /\ Cleared(op[r].held) \in Connection
  BY <1>1, BusyHand, Changed
<1>3. UNCHANGED <<row, exists, tracked, setBy, starts, failures, alone, disturbed, strays>>
  BY DEF CountOthers, RecordRemoved, awsVars
<1>4. Rest'
  BY <1>3, TypedParts DEF Rest, Connected
<1>5. CASE UNCHANGED op /\ Go(r, "dropping") /\ stage[r] = "counting"
  <2>1. stage'[r] = "dropping" /\ op'[r] = op[r]
    BY <1>1, <1>5, WalksOn, WorkPlaces DEF Go
  <2>2. InHand(r)'
    BY <1>2, <1>5, <2>1 DEF InHand
  <2>3. stage' \in [Request -> Stages] /\ AllInHand' /\ op' \in [Request -> Op \cup {NoOp}]
    BY <1>1, <1>5, <2>2, WalksOnTyped, WorkPlaces DEF Go
  <2> QED BY <1>4, <2>3 DEF Typed, Rest, PlumbingTypeOK
<1>6. CASE op' = [op EXCEPT ![r].held = Cleared(@)] /\ Go(r, "committing")
  <2> DEFINE h == Cleared(op[r].held)
  <2>1. /\ op' = [op EXCEPT ![r] = [op[r] EXCEPT !.held = h]] /\ h \in Connection
        /\ "committing" \in Stages \ Ended /\ stage' = [stage EXCEPT ![r] = "committing"]
    BY <1>2, <1>6, WorkPlaces DEF Go
  <2>2. /\ stage'[r] = "committing" /\ op'[r] \in Op
        /\ op'[r].kind = op[r].kind /\ op'[r].saw = op[r].saw /\ op'[r].held = h
    <3> HIDE DEF h
    <3> QED BY <1>1, <2>1, GoesOn
  <2>3. h.zone = op[r].held.zone /\ h.built = Nowhere /\ h.track = FALSE
    BY <1>2 DEF Cleared, Connection
  <2>4. InHand(r)'
    <3> HIDE DEF h
    <3> QED BY <1>1, <1>2, <2>2, <2>3 DEF InHand
  <2>5. stage' \in [Request -> Stages] /\ AllInHand' /\ op' \in [Request -> Op \cup {NoOp}]
    <3> HIDE DEF h
    <3> QED BY <1>1, <2>1, <2>4, GoesOnTyped
  <2> QED BY <1>4, <2>5 DEF Typed, Rest, PlumbingTypeOK
<1> QED BY <1>5, <1>6 DEF CountOthers, RecordRemoved

(* A resource is removed, out of reach, or passed over.                    *)
LEMMA RemoveNextTyped ==
    ASSUME Typed, NEW r \in Request, RemoveNext(r) PROVE Typed'
<1> DEFINE x == Drop[op[r].step + 1]
<1>1. /\ stage[r] = "dropping" /\ InHand(r) /\ op[r] \in Op /\ op[r].step \in 0..4
      /\ x \in Resource
  <2>1. stage[r] = "dropping" /\ op[r].step < 5
    BY Orders DEF RemoveNext
  <2>2. InHand(r) /\ op[r] \in Op
    BY <2>1, BusyHand DEF Ended
  <2>3. op[r].step \in 0..4
    <3>1. op[r].step \in 0..5
      BY <2>2, Changed
    <3> QED BY <2>1, <3>1
  <2> QED BY <2>1, <2>2, <2>3, Orders
<1>2. /\ op' = [op EXCEPT ![r].step = @ + 1]
      /\ UNCHANGED <<row, stage, starts, alone, disturbed>>
  BY DEF RemoveNext
<1>7. stage' \in [Request -> Stages] /\ AllInHand' /\ op' \in [Request -> Op \cup {NoOp}]
  <2>1. stage[r] \notin Ended /\ op[r].step < 5
    BY <1>1 DEF Ended
  <2> QED BY <1>2, <2>1, CountsOn
<1>8. /\ exists' \in [Zone -> SUBSET Resource]
      /\ tracked' \in [Zone -> BOOLEAN]
      /\ setBy' \in [Zone -> SUBSET Project]
  <2>1. CASE Without(Here(r), x)
    BY <1>1, <2>1, WithoutTyped
  <2>2. CASE UNCHANGED awsVars
    BY <2>2 DEF Typed, PlumbingTypeOK, awsVars
  <2> QED BY <2>1, <2>2 DEF RemoveNext
<1>9. failures' \in 0..MaxFailures
  <2>1. failures' = failures \/ (failures < MaxFailures /\ failures' = failures + 1)
    BY DEF RemoveNext
  <2>2. failures \in 0..MaxFailures
    BY DEF Typed, PlumbingTypeOK
  <2> QED BY <2>1, <2>2, StartsAssumption
<1>10. strays' \subseteq {"overlap", "refused", "died", "passed over", "moved"}
  <2>1. strays' = strays \/ strays' = strays \cup {"passed over"}
    BY DEF RemoveNext
  <2> QED BY <2>1 DEF Typed, PlumbingTypeOK
<1>11. Rest'
  BY <1>2, <1>8, <1>9, <1>10, TypedParts DEF Rest, Connected
<1> QED BY <1>7, <1>11 DEF Typed, Rest, PlumbingTypeOK

(* A commit writes the row of its own project, by what it has in hand.     *)
LEMMA Written ==
    ASSUME Typed, NEW r \in Request, CommitRow(r)
    PROVE  LET o == op[r]  p == op[r].project IN
           /\ stage[r] = "committing" /\ stage[r] \notin Ended
           /\ InHand(r) /\ o \in Op /\ p \in Project /\ row[p] \in Connection
           /\ o.saw \in Connection /\ o.held \in Connection
           /\ UNCHANGED failures
           /\ \/ /\ o.kind # "disconnect" /\ Clashes(o)
                 /\ Abandon(r) /\ disturbed' = disturbed \cup {p} /\ UNCHANGED strays
              \/ /\ o.kind # "disconnect" => ~ Clashes(o)
                 /\ row' = [row EXCEPT ![p] = IF o.kind = "disconnect" THEN Blank
                                              ELSE Merge(row[p], o)]
                 /\ row'[p] = IF o.kind = "disconnect" THEN Blank ELSE Merge(row[p], o)
                 /\ row'[p] \in Connection
                 /\ \A q \in Project \ {p} : row'[q] = row[q]
                 /\ disturbed' = IF Moved(o) THEN disturbed \cup {p}
                                 ELSE IF o.kind = "setup" /\ r \in alone THEN disturbed \ {p}
                                 ELSE disturbed
                 /\ strays' = strays \cup IF Moved(o) THEN {"moved"} ELSE {}
                 /\ Go(r, "idle") /\ op' = [op EXCEPT ![r] = NoOp]
                 /\ alone' = alone \ {r}
                 /\ UNCHANGED <<exists, tracked, setBy, starts>>
<1> DEFINE o == op[r]
           p == op[r].project
           new == IF o.kind = "disconnect" THEN Blank ELSE Merge(row[p], o)
<1>1. stage[r] = "committing" /\ stage[r] \notin Ended
  BY DEF CommitRow, Ended
<1>2. InHand(r) /\ o \in Op /\ o.saw \in Connection /\ o.held \in Connection /\ p \in Project
  BY <1>1, BusyHand, Changed
<1>3. row[p] \in Connection /\ row \in [Project -> Connection]
  BY <1>2 DEF Typed, PlumbingTypeOK
<1>4. new \in Connection
  <2>1. Merge(row[p], o) \in Connection
    BY <1>2, <1>3, Merged
  <2> QED BY <2>1 DEF Blank, Connection
<1>5. CASE o.kind # "disconnect" /\ Clashes(o)
  BY <1>1, <1>2, <1>3, <1>5 DEF CommitRow
<1>6. CASE ~ (o.kind # "disconnect" /\ Clashes(o))
  <2>1. /\ row' = [row EXCEPT ![p] = IF o.kind = "disconnect" THEN Blank ELSE Merge(@, o)]
        /\ disturbed' = IF Moved(o) THEN disturbed \cup {p}
                        ELSE IF o.kind = "setup" /\ r \in alone THEN disturbed \ {p}
                        ELSE disturbed
        /\ strays' = strays \cup IF Moved(o) THEN {"moved"} ELSE {}
        /\ Go(r, "idle") /\ op' = [op EXCEPT ![r] = NoOp]
        /\ alone' = alone \ {r}
        /\ UNCHANGED <<exists, tracked, setBy, starts, failures>>
    BY <1>6 DEF CommitRow, awsVars
  <2>2. row' = [row EXCEPT ![p] = new]
    BY <2>1
  <2>3. row'[p] = new /\ \A q \in Project \ {p} : row'[q] = row[q]
    <3> HIDE DEF new, p
    <3> QED BY <1>2, <1>3, <2>2
  <2> QED BY <1>1, <1>2, <1>3, <1>4, <1>6, <2>1, <2>2, <2>3
<1> QED BY <1>5, <1>6

(* The row is written, or the write clashes with another.                  *)
LEMMA CommitTyped ==
    ASSUME Typed, NEW r \in Request, CommitRow(r) PROVE Typed'
<1> DEFINE o == op[r]
           p == op[r].project
<1>1. /\ stage[r] = "committing" /\ InHand(r) /\ o \in Op /\ p \in Project
      /\ row[p] \in Connection /\ o.saw \in Connection /\ o.held \in Connection
      /\ UNCHANGED failures
  BY Written
<1>2. CASE /\ Abandon(r) /\ disturbed' = disturbed \cup {p} /\ UNCHANGED strays
  <2>1. /\ failures' \in 0..MaxFailures /\ disturbed' \subseteq Project
        /\ strays' \subseteq {"overlap", "refused", "died", "passed over", "moved"}
    BY <1>1, <1>2 DEF Typed, PlumbingTypeOK
  <2> QED BY <1>2, <2>1, AbandonTyped
<1>3. CASE /\ o.kind # "disconnect" => ~ Clashes(o)
           /\ row' = [row EXCEPT ![p] = IF o.kind = "disconnect" THEN Blank
                                        ELSE Merge(row[p], o)]
           /\ row'[p] = IF o.kind = "disconnect" THEN Blank ELSE Merge(row[p], o)
           /\ row'[p] \in Connection
           /\ \A q \in Project \ {p} : row'[q] = row[q]
           /\ disturbed' = IF Moved(o) THEN disturbed \cup {p}
                           ELSE IF o.kind = "setup" /\ r \in alone THEN disturbed \ {p}
                           ELSE disturbed
           /\ strays' = strays \cup IF Moved(o) THEN {"moved"} ELSE {}
           /\ Go(r, "idle") /\ op' = [op EXCEPT ![r] = NoOp]
           /\ alone' = alone \ {r}
           /\ UNCHANGED <<exists, tracked, setBy, starts>>
  <2>1. /\ stage' \in [Request -> Stages] /\ op' \in [Request -> Op \cup {NoOp}]
        /\ AllInHand'
    BY <1>3, LeaveTyped DEF Ended
  <2>2. row' \in [Project -> Connection]
    BY <1>1, <1>3 DEF Typed, PlumbingTypeOK
  <2>3. row'[p].zone = Nowhere => row'[p].built = Nowhere
    <3>1. CASE o.kind = "disconnect"
      BY <1>3, <3>1 DEF Blank
    <3>2. CASE o.kind # "disconnect"
      <4>1. /\ row'[p].zone = IF o.held.zone # o.saw.zone THEN o.held.zone ELSE row[p].zone
            /\ row'[p].built = IF o.held.built # o.saw.built THEN o.held.built
                               ELSE row[p].built
        BY <1>1, <1>3, <3>2, Merged
      <4>2. row[p].zone = Nowhere => row[p].built = Nowhere
        BY <1>1 DEF Typed, Connected
      <4>3. o.held = o.saw \/ ((o.saw.zone = Nowhere) <=> (row[p].zone = Nowhere))
        BY <1>3, <3>2 DEF Clashes
      <4>4. o.kind \in {"setup", "remove", "track", "connect"}
        BY <1>1, <3>2 DEF Op
      <4> QED BY <1>1, <4>1, <4>2, <4>3, <4>4 DEF InHand
    <3> QED BY <3>1, <3>2
  <2>4. Connected'
    BY <1>3, <2>3 DEF Connected, Typed
  <2>5. disturbed' \subseteq Project /\ alone' \subseteq Request
        /\ strays' \subseteq {"overlap", "refused", "died", "passed over", "moved"}
    BY <1>1, <1>3 DEF Typed, PlumbingTypeOK
  <2>6. Rest'
    BY <1>1, <1>3, <2>2, <2>4, <2>5, TypedParts DEF Rest
  <2> QED BY <2>1, <2>6 DEF Typed, Rest, PlumbingTypeOK
<1> QED BY <1>2, <1>3, Written

(* Somebody deletes a resource.                                            *)
LEMMA ByHandTyped ==
    ASSUME Typed, NEW z \in Zone, NEW x \in Resource, DeletedByHand(z, x) PROVE Typed'
<1>1. /\ exists' \in [Zone -> SUBSET Resource] /\ tracked' \in [Zone -> BOOLEAN]
      /\ setBy' \in [Zone -> SUBSET Project]
  BY WithoutTyped DEF DeletedByHand
<1>2. /\ UNCHANGED <<row, stage, op, starts, strays>> /\ alone' = {} /\ disturbed' = Project
      /\ failures < MaxFailures /\ failures' = failures + 1
  BY DEF DeletedByHand
<1>3. failures' \in 0..MaxFailures
  <2>1. failures \in 0..MaxFailures
    BY DEF Typed, PlumbingTypeOK
  <2> QED BY <1>2, <2>1, StartsAssumption
<1>4. Rest'
  BY <1>1, <1>2, <1>3, TypedParts DEF Rest, Connected
<1>5. AllInHand'
  BY <1>2 DEF Typed, AllInHand, InHand, Busy
<1> QED BY <1>2, <1>4, <1>5 DEF Typed, Rest, PlumbingTypeOK

(* Every step keeps the types and what requests have in hand.              *)
LEMMA PlumbingTypedStep == Typed /\ [PlumbingNext]_plumbingVars => Typed'
<1> SUFFICES ASSUME Typed, [PlumbingNext]_plumbingVars PROVE Typed'
  OBVIOUS
<1>1. CASE UNCHANGED plumbingVars
  BY <1>1 DEF plumbingVars, awsVars, Typed, PlumbingTypeOK, AllInHand, InHand, Busy, Connected
<1> QED BY <1>1, RequestsTyped, FailuresTyped, ProvisionTyped, RecordBuiltTyped, UpdateTyped,
           CountTyped, RemoveNextTyped, CommitTyped, ByHandTyped
    DEF PlumbingNext, Steps

-----------------------------------------------------------------------------
(* What the steps do to requests and to history.                           *)

Others(r) == \A q \in Request \ {r} : stage'[q] = stage[q] /\ op'[q] = op[q]

(* A request goes on.                                                      *)
Proceeds(r) ==
    /\ stage[r] \notin Ended /\ stage'[r] \notin Ended /\ Others(r)
    /\ op'[r].kind = op[r].kind /\ op'[r].project = op[r].project /\ op'[r].saw = op[r].saw
    /\ UNCHANGED <<row, alone, disturbed>>
    /\ strays \subseteq strays'

(* It ends, with its commit or without.                                    *)
Closes(r) ==
    /\ stage[r] \notin Ended /\ stage'[r] \in Ended /\ Others(r)
    /\ alone' = alone \ {r}
    /\ r \notin alone => disturbed \subseteq disturbed'
    /\ strays \subseteq strays'

(* It begins, for p.                                                       *)
Begins(r, p) ==
    /\ stage[r] \in Ended /\ stage'[r] \notin Ended /\ Others(r)
    /\ stage'[r] # "dropping"
    /\ stage'[r] = "committing" => ~ Enabled(row[p]) /\ op'[r].kind \in {"track", "disconnect"}
    /\ op'[r].project = p /\ op'[r].saw = row[p] /\ op'[r].step = 0
    /\ alone' = IF Busy = {} THEN {r} ELSE {}
    /\ disturbed' = IF Busy = {} THEN disturbed ELSE Project
    /\ strays' = IF Busy = {} THEN strays ELSE strays \cup {"overlap"}
    /\ UNCHANGED <<row, exists, tracked, setBy>>

(* Whatever a new request asks for, it begins in the same way.             *)
LEMMA SomeoneBegins ==
    ASSUME Typed, Requests PROVE \E r \in Request, p \in Project : Begins(r, p)
<1>1. ASSUME NEW r \in Request, NEW p \in Project, NEW k, NEW held, NEW place \in Stages \ Ended,
             Begin(r, k, p, held), Go(r, place), place # "dropping",
             place = "committing" => ~ Enabled(row[p]) /\ k \in {"track", "disconnect"}
      PROVE  Begins(r, p)
  <2>1. op'[r] = [kind |-> k, project |-> p, saw |-> row[p], held |-> held, step |-> 0]
    BY <1>1 DEF Begin, Typed, PlumbingTypeOK
  <2>2. stage'[r] = place /\ Others(r)
    BY <1>1 DEF Begin, Go, Others, Typed, PlumbingTypeOK
  <2> QED BY <1>1, <2>1, <2>2 DEF Begin, Begins, awsVars
<1>2. PICK r \in Request, p \in Project :
         \/ Setup(r, p) \/ RemoveEvents(r, p) \/ Disconnect(r, p)
         \/ \E b \in BOOLEAN : ChangeTracking(r, p, b)
         \/ \E z \in Zone : Connect(r, p, z)
  BY DEF Requests
<1>3. CASE Setup(r, p)
  BY <1>1, <1>3, WorkPlaces DEF Setup
<1>4. CASE RemoveEvents(r, p)
  BY <1>1, <1>4, WorkPlaces DEF RemoveEvents
<1>5. CASE Disconnect(r, p)
  <2>1. CASE Enabled(row[p])
    BY <1>1, <1>5, <2>1, WorkPlaces DEF Disconnect
  <2>2. CASE ~ Enabled(row[p])
    BY <1>1, <1>5, <2>2, WorkPlaces DEF Disconnect
  <2> QED BY <2>1, <2>2
<1>6. ASSUME NEW b \in BOOLEAN, ChangeTracking(r, p, b) PROVE Begins(r, p)
  <2>1. CASE Enabled(row[p])
    BY <1>1, <1>6, <2>1, WorkPlaces DEF ChangeTracking
  <2>2. CASE ~ Enabled(row[p])
    BY <1>1, <1>6, <2>2, WorkPlaces DEF ChangeTracking
  <2> QED BY <2>1, <2>2
<1>7. ASSUME NEW z \in Zone, Connect(r, p, z) PROVE Begins(r, p)
  BY <1>1, <1>7, WorkPlaces DEF Connect
<1> QED BY <1>2, <1>3, <1>4, <1>5, <1>6, <1>7

(* A request that abandons its work ends with the row untouched.           *)
LEMMA AbandonEnds ==
    ASSUME Typed, NEW r \in Request, stage[r] \notin Ended, Abandon(r),
           disturbed \subseteq disturbed', strays \subseteq strays'
    PROVE  Closes(r) /\ UNCHANGED <<row, exists, tracked, setBy>>
<1>1. stage'[r] = "refused" /\ Others(r)
  BY DEF Abandon, Leave, Go, Others, Typed, PlumbingTypeOK
<1> QED BY <1>1 DEF Abandon, Leave, Closes, Ended, awsVars

(* The failures, and a commit that finds its row gone or made meanwhile.   *)
GivesUp(r) ==
    /\ Closes(r) /\ UNCHANGED <<row, exists, tracked, setBy>>
    /\ op[r].project \in disturbed' \/ stage[r] \in {"building", "updating", "verifying"}
    /\ disturbed \subseteq disturbed'
    /\ stage[r] = "building" => strays' # {}
    /\ stage[r] \in {"building", "updating", "verifying"} \/ strays' # {}
                                                         \/ Clashes(op[r])

(* One that a call raises on gives up.                                     *)
LEMMA RaisesGivesUp ==
    ASSUME Typed, NEW r \in Request, Raises(r),
           stage[r] \in {"building", "updating", "verifying"}
    PROVE  GivesUp(r)
<1>1. /\ stage[r] \notin Ended /\ disturbed \subseteq disturbed' /\ strays \subseteq strays'
      /\ stage[r] = "building" => strays' # {}
  BY DEF Raises, Ended
<1> QED BY <1>1, AbandonEnds DEF Raises, GivesUp

(* So does one that is refused or dies.                                    *)
LEMMA FailingGivesUp ==
    ASSUME Typed, NEW r \in Request, Failing(r) PROVE GivesUp(r)
<1>1. CASE AwsRefuses(r)
  BY <1>1, RaisesGivesUp DEF AwsRefuses
<1>2. CASE Dies(r)
  <2>1. /\ stage[r] \notin Ended /\ disturbed \subseteq disturbed' /\ strays \subseteq strays'
        /\ strays' # {} /\ op[r].project \in disturbed' /\ Abandon(r)
    BY <1>2 DEF Dies, Busy
  <2> QED BY <2>1, AbandonEnds DEF GivesUp
<1> QED BY <1>1, <1>2 DEF Failing

(* What each step of a request does, if it does not give up. A resource is *)
(* made, once what it needs is there.                                      *)
LEMMA ProvisionEffect ==
    ASSUME Typed, NEW r \in Request, Provision(r), ~ GivesUp(r)
    PROVE  /\ Proceeds(r) /\ stage[r] = "building" /\ stage'[r] = "building"
           /\ op'[r].held = op[r].held
           /\ op[r].step \in 0..4 /\ op'[r].step = op[r].step + 1
           /\ exists' = [exists EXCEPT ![Here(r)] = @ \cup {Build[op[r].step + 1]}]
           /\ IF op[r].step = 4 THEN PutDestination(r, op[r].saw.track)
                                ELSE UNCHANGED <<tracked, setBy>>
<1> DEFINE x == Build[op[r].step + 1]
<1>1. stage[r] = "building" /\ stage[r] \notin Ended /\ op[r].step < 5
  BY Orders DEF Provision, MoreToBuild, Ended
<1>2. /\ exists' = [exists EXCEPT ![Here(r)] = @ \cup {x}]
      /\ IF x = "destination" THEN PutDestination(r, op[r].saw.track)
                              ELSE UNCHANGED <<tracked, setBy>>
      /\ op' = [op EXCEPT ![r].step = @ + 1]
      /\ UNCHANGED <<row, stage, starts, alone, disturbed, strays>>
  BY <1>1, RaisesGivesUp DEF Provision
<1>3. /\ stage'[r] = stage[r] /\ op'[r].held = op[r].held
      /\ op'[r].kind = op[r].kind /\ op'[r].project = op[r].project /\ op'[r].saw = op[r].saw
      /\ op[r].step \in 0..4 /\ op'[r].step = op[r].step + 1
      /\ Others(r)
  BY <1>1, <1>2, CountsOn DEF Others
<1>4. x = "destination" <=> op[r].step = 4
  BY <1>3 DEF Build
<1>5. Proceeds(r)
  BY <1>1, <1>2, <1>3 DEF Proceeds
<1> QED BY <1>1, <1>2, <1>3, <1>4, <1>5

(* After the last, the row in hand names the zone.                         *)
LEMMA RecordBuiltEffect ==
    ASSUME Typed, NEW r \in Request, RecordBuilt(r)
    PROVE  /\ Proceeds(r) /\ stage[r] = "building" /\ stage'[r] = "committing"
           /\ op[r].step = 5 /\ op'[r].step = 5 /\ op'[r].held.track = op[r].held.track
           /\ UNCHANGED <<exists, tracked, setBy, strays>>
<1> DEFINE h == [op[r].held EXCEPT !.built = Here(r)]
<1>1. /\ stage[r] = "building" /\ stage[r] \notin Ended /\ ~ (op[r].step < 5)
      /\ stage' = [stage EXCEPT ![r] = "committing"] /\ "committing" \in Stages \ Ended
      /\ op' = [op EXCEPT ![r].held.built = Here(r)]
      /\ UNCHANGED <<row, exists, tracked, setBy, starts, failures, alone, disturbed, strays>>
  BY Orders, WorkPlaces DEF RecordBuilt, MoreToBuild, Ended, Go, awsVars
<1>2. op[r] \in Op /\ op[r].step \in 0..5 /\ op[r].held \in Connection /\ op[r].saw \in Connection
  BY <1>1, BusyHand, Changed
<1>3. h \in Connection /\ h.track = op[r].held.track
  <2>1. Here(r) \in Zone \cup {Nowhere}
    BY <1>2 DEF Here, Connection
  <2> QED BY <1>2, <2>1 DEF Connection
<1>4. op' = [op EXCEPT ![r] = [op[r] EXCEPT !.held = h]]
  BY <1>1
<1>5. /\ stage'[r] = "committing" /\ op'[r].held = h
      /\ op'[r].kind = op[r].kind /\ op'[r].project = op[r].project /\ op'[r].saw = op[r].saw
      /\ op'[r].step = op[r].step /\ Others(r)
  <2>1. /\ stage[r] \notin Ended /\ "committing" \in Stages \ Ended
        /\ stage' = [stage EXCEPT ![r] = "committing"] /\ h \in Connection
    BY <1>1, <1>3
  <2> HIDE DEF h
  <2> QED BY <1>4, <2>1, GoesOn DEF Others
<1>6. op[r].step = 5
  BY <1>1, <1>2
<1> HIDE DEF h
<1> QED BY <1>1, <1>3, <1>5, <1>6, WorkPlaces DEF Proceeds

(* The destination takes the wish.                                         *)
LEMMA UpdateEffect ==
    ASSUME Typed, NEW r \in Request, UpdateDestination(r), ~ GivesUp(r)
    PROVE  /\ Proceeds(r) /\ stage[r] = "updating" /\ stage'[r] = "committing"
           /\ op'[r] = op[r]
           /\ PutDestination(r, op[r].held.track)
           /\ UNCHANGED <<exists, strays>>
<1>1. stage[r] = "updating" /\ stage[r] \notin Ended
  BY DEF UpdateDestination, Ended
<1>2. /\ PutDestination(r, op[r].held.track)
      /\ Go(r, "committing")
      /\ UNCHANGED <<row, exists, op, starts, alone, disturbed, strays>>
  BY <1>1, RaisesGivesUp DEF UpdateDestination
<1>3. stage'[r] = "committing" /\ op'[r] = op[r] /\ Others(r)
  BY <1>1, <1>2, WalksOn, WorkPlaces DEF Go, Others
<1> QED BY <1>1, <1>2, <1>3, WorkPlaces DEF Proceeds

(* Verifying changes nothing in AWS.                                       *)
LEMMA VerifyEffect ==
    ASSUME Typed, NEW r \in Request, Verify(r)
    PROVE  /\ Proceeds(r) /\ stage[r] = "verifying" /\ stage'[r] = "committing"
           /\ op'[r] = op[r]
           /\ UNCHANGED <<exists, tracked, setBy, strays>>
<1>1. /\ stage[r] = "verifying" /\ stage[r] \notin Ended /\ Go(r, "committing")
      /\ UNCHANGED <<row, exists, tracked, setBy, op, alone, disturbed, strays>>
  BY DEF Verify, Ended, awsVars
<1>2. stage'[r] = "committing" /\ op'[r] = op[r] /\ Others(r)
  BY <1>1, WalksOn, WorkPlaces DEF Go, Others
<1> QED BY <1>1, <1>2, WorkPlaces DEF Proceeds

(* Nobody else uses the zone and the removal begins, or somebody does and  *)
(* nothing is removed.                                                     *)
LEMMA CountEffect ==
    ASSUME Typed, NEW r \in Request, CountOthers(r)
    PROVE  /\ Proceeds(r) /\ stage[r] = "counting"
           /\ \/ stage'[r] = "dropping" /\ OtherUsers(r) = {}
              \/ stage'[r] = "committing" /\ OtherUsers(r) # {}
           /\ op'[r].step = op[r].step
           /\ UNCHANGED <<exists, tracked, setBy, strays>>
<1>1. /\ stage[r] = "counting" /\ stage[r] \notin Ended
      /\ UNCHANGED <<row, exists, tracked, setBy, alone, disturbed, strays>>
  BY DEF CountOthers, Ended, awsVars
<1>2. CASE OtherUsers(r) = {}
  <2>1. Go(r, "dropping") /\ UNCHANGED op
    BY <1>2 DEF CountOthers
  <2>2. stage'[r] = "dropping" /\ op'[r] = op[r] /\ Others(r)
    BY <1>1, <2>1, WalksOn, WorkPlaces DEF Go, Others
  <2> QED BY <1>1, <1>2, <2>2, WorkPlaces DEF Proceeds
<1>3. CASE OtherUsers(r) # {}
  <2> DEFINE h == Cleared(op[r].held)
  <2>1. Go(r, "committing") /\ op' = [op EXCEPT ![r].held = Cleared(@)]
    BY <1>3 DEF CountOthers
  <2>2. /\ op' = [op EXCEPT ![r] = [op[r] EXCEPT !.held = h]] /\ h \in Connection
        /\ "committing" \in Stages \ Ended /\ stage' = [stage EXCEPT ![r] = "committing"]
    BY <1>1, <2>1, BusyHand, Changed, WorkPlaces DEF Go
  <2>3. /\ stage'[r] = "committing" /\ op'[r].step = op[r].step /\ Others(r)
        /\ op'[r].kind = op[r].kind /\ op'[r].project = op[r].project /\ op'[r].saw = op[r].saw
    <3> HIDE DEF h
    <3> QED BY <1>1, <2>2, GoesOn DEF Others
  <2> QED BY <1>1, <1>3, <2>3, WorkPlaces DEF Proceeds
<1> QED BY <1>2, <1>3

(* A resource is gone afterwards, with what goes with it, unless the       *)
(* client does not reach it; and what is passed over strays.               *)
LEMMA RemoveNextEffect ==
    ASSUME Typed, NEW r \in Request, RemoveNext(r)
    PROVE  /\ Proceeds(r) /\ stage[r] = "dropping" /\ stage'[r] = "dropping"
           /\ op[r].step \in 0..4 /\ op'[r].step = op[r].step + 1
           /\ \/ Without(Here(r), Drop[op[r].step + 1])
              \/ UNCHANGED <<exists, tracked, setBy>>
           /\ \/ Without(Here(r), Drop[op[r].step + 1])
              \/ ~ Reaches(r, Drop[op[r].step + 1])
              \/ strays' # {}
<1>1. /\ stage[r] = "dropping" /\ stage[r] \notin Ended /\ op[r].step < 5
      /\ op' = [op EXCEPT ![r].step = @ + 1]
      /\ UNCHANGED <<row, stage, alone, disturbed>>
  BY Orders DEF RemoveNext, Ended
<1>2. /\ strays \subseteq strays'
      /\ \/ Without(Here(r), Drop[op[r].step + 1])
         \/ UNCHANGED <<exists, tracked, setBy>>
      /\ \/ Without(Here(r), Drop[op[r].step + 1])
         \/ ~ Reaches(r, Drop[op[r].step + 1])
         \/ strays' # {}
  BY DEF RemoveNext, awsVars
<1>3. /\ stage'[r] = stage[r]
      /\ op'[r].kind = op[r].kind /\ op'[r].project = op[r].project /\ op'[r].saw = op[r].saw
      /\ op[r].step \in 0..4 /\ op'[r].step = op[r].step + 1
      /\ Others(r)
  BY <1>1, CountsOn DEF Others
<1>4. Proceeds(r)
  BY <1>1, <1>2, <1>3 DEF Proceeds
<1> QED BY <1>1, <1>2, <1>3, <1>4

(* After the last, the row in hand names nothing.                          *)
LEMMA RecordRemovedEffect ==
    ASSUME Typed, NEW r \in Request, RecordRemoved(r)
    PROVE  /\ Proceeds(r) /\ stage[r] = "dropping" /\ stage'[r] = "committing"
           /\ op[r].step = 5
           /\ UNCHANGED <<exists, tracked, setBy, strays>>
<1> DEFINE h == Cleared(op[r].held)
<1>1. /\ stage[r] = "dropping" /\ stage[r] \notin Ended /\ op[r].step = 5
      /\ op' = [op EXCEPT ![r].held = Cleared(@)] /\ Go(r, "committing")
      /\ UNCHANGED <<row, exists, tracked, setBy, alone, disturbed, strays>>
  BY Orders DEF RecordRemoved, Ended, awsVars
<1>2. /\ op' = [op EXCEPT ![r] = [op[r] EXCEPT !.held = h]] /\ h \in Connection
      /\ "committing" \in Stages \ Ended /\ stage' = [stage EXCEPT ![r] = "committing"]
  BY <1>1, BusyHand, Changed, WorkPlaces DEF Go
<1>3. /\ stage'[r] = "committing" /\ Others(r)
      /\ op'[r].kind = op[r].kind /\ op'[r].project = op[r].project /\ op'[r].saw = op[r].saw
  <2>1. stage[r] \notin Ended
    BY <1>1
  <2> HIDE DEF h
  <2> QED BY <1>2, <2>1, GoesOn DEF Others
<1> QED BY <1>1, <1>3, WorkPlaces DEF Proceeds

(* A commit that is made.                                                  *)
LEMMA CommitEffect ==
    ASSUME Typed, NEW r \in Request, CommitRow(r), ~ GivesUp(r)
    PROVE  LET o == op[r]  p == op[r].project IN
           /\ Closes(r) /\ stage[r] = "committing" /\ p \in Project
           /\ row'[p] = IF o.kind = "disconnect" THEN Blank ELSE Merge(row[p], o)
           /\ \A q \in Project \ {p} : row'[q] = row[q]
           /\ disturbed' = IF Moved(o) THEN disturbed \cup {p}
                           ELSE IF o.kind = "setup" /\ r \in alone THEN disturbed \ {p}
                           ELSE disturbed
           /\ strays' = strays \cup IF Moved(o) THEN {"moved"} ELSE {}
           /\ UNCHANGED <<exists, tracked, setBy>>
<1> DEFINE o == op[r]
           p == op[r].project
<1>1. stage[r] = "committing" /\ stage[r] \notin Ended /\ p \in Project
  BY Written
<1>2. ~ (/\ o.kind # "disconnect" /\ Clashes(o)
         /\ Abandon(r) /\ disturbed' = disturbed \cup {p} /\ UNCHANGED strays)
  BY <1>1, AbandonEnds DEF GivesUp
<1>3. /\ row'[p] = IF o.kind = "disconnect" THEN Blank ELSE Merge(row[p], o)
      /\ \A q \in Project \ {p} : row'[q] = row[q]
      /\ disturbed' = IF Moved(o) THEN disturbed \cup {p}
                      ELSE IF o.kind = "setup" /\ r \in alone THEN disturbed \ {p}
                      ELSE disturbed
      /\ strays' = strays \cup IF Moved(o) THEN {"moved"} ELSE {}
      /\ Go(r, "idle") /\ op' = [op EXCEPT ![r] = NoOp]
      /\ alone' = alone \ {r}
      /\ UNCHANGED <<exists, tracked, setBy, starts>>
  BY <1>2, Written
<1>4. stage'[r] = "idle" /\ Others(r)
  BY <1>3 DEF Go, Others, Typed, PlumbingTypeOK
<1>5. strays \subseteq strays' /\ (r \notin alone => disturbed \subseteq disturbed')
  BY <1>3
<1>6. Closes(r)
  BY <1>1, <1>3, <1>4, <1>5 DEF Closes, Ended
<1> QED BY <1>1, <1>3, <1>6

(* Every step of a request is one of these.                                *)
LEMMA StepKinds ==
    ASSUME Typed, NEW r \in Request, Steps(r) \/ Failing(r) PROVE Proceeds(r) \/ Closes(r)
<1>1. GivesUp(r) => Closes(r)
  BY DEF GivesUp
<1>2. CASE Provision(r)
  BY <1>1, <1>2, ProvisionEffect
<1>3. CASE RecordBuilt(r)
  BY <1>3, RecordBuiltEffect
<1>4. CASE UpdateDestination(r)
  BY <1>1, <1>4, UpdateEffect
<1>5. CASE Verify(r)
  BY <1>5, VerifyEffect
<1>6. CASE CountOthers(r)
  BY <1>6, CountEffect
<1>7. CASE RemoveNext(r)
  BY <1>7, RemoveNextEffect
<1>8. CASE RecordRemoved(r)
  BY <1>8, RecordRemovedEffect
<1>9. CASE CommitRow(r)
  BY <1>1, <1>9, CommitEffect
<1> QED BY <1>1, <1>2, <1>3, <1>4, <1>5, <1>6, <1>7, <1>8, <1>9, FailingGivesUp DEF Steps

-----------------------------------------------------------------------------
(* One request at a time, while nothing says otherwise.                    *)

LEMMA AloneInit == PlumbingInit => OneAtATime
  BY DEF PlumbingInit, OneAtATime, Busy, Ended

(* A request at work is the only one, or nothing is promised.              *)
LEMMA AloneOrNot ==
    ASSUME OneAtATime, NEW r \in Request, stage[r] \notin Ended, Typed
    PROVE  (alone = {r} /\ Sole(r)) \/ (alone = {} /\ disturbed = Project)
<1>1. \A q \in alone : q = r /\ Sole(r)
  <2>1. \A q \in alone : Sole(q) /\ r = q
    BY DEF OneAtATime, Sole
  <2> QED BY <2>1
<1>2. r \in Busy
  BY DEF Busy
<1> QED BY <1>1, <1>2 DEF OneAtATime

(* A request that goes on leaves OneAtATime as it is.                      *)
LEMMA ProceedsAlone ==
    ASSUME Typed, OneAtATime, NEW r \in Request, Proceeds(r) PROVE OneAtATime'
<1>1. ASSUME NEW q \in Request PROVE (stage'[q] \notin Ended) <=> (stage[q] \notin Ended)
  BY DEF Proceeds, Others
<1>2. Busy' = Busy
  BY <1>1 DEF Busy
<1>3. ASSUME NEW q \in Request, Sole(q) PROVE Sole(q)'
  BY <1>1, <1>3 DEF Sole, Proceeds, Others
<1>4. alone \subseteq Request
  BY DEF Typed, PlumbingTypeOK
<1> QED BY <1>1, <1>2, <1>3, <1>4 DEF OneAtATime, Proceeds, Busy

(* So does one that ends.                                                  *)
LEMMA EndsAlone ==
    ASSUME Typed, OneAtATime, NEW r \in Request, Closes(r), disturbed' \subseteq Project
    PROVE  OneAtATime' /\ alone' = {}
<1>1. stage[r] \notin Ended /\ stage'[r] \in Ended /\ \A q \in Request \ {r} : stage'[q] = stage[q]
  BY DEF Closes, Others
<1>2. CASE alone = {r} /\ Sole(r)
  <2>1. alone' = {} /\ Busy' = {}
    BY <1>1, <1>2 DEF Sole, Closes, Busy
  <2> QED BY <2>1 DEF OneAtATime
<1>3. CASE alone = {} /\ disturbed = Project
  <2>1. alone' = {} /\ disturbed' = Project
    BY <1>3 DEF Closes
  <2>2. "overlap" \notin strays' => \A q \in Busy' : Sole(q)'
    <3> SUFFICES ASSUME "overlap" \notin strays', NEW q \in Busy' PROVE FALSE
      OBVIOUS
    <3>1. "overlap" \notin strays
      BY DEF Closes
    <3>2. q \in Request /\ q # r /\ stage[q] \notin Ended
      BY <1>1 DEF Busy
    <3>3. r \in Busy /\ q \in Busy
      BY <1>1, <3>2 DEF Busy
    <3> QED BY <1>1, <3>1, <3>2, <3>3 DEF OneAtATime, Sole
  <2> QED BY <2>1, <2>2 DEF OneAtATime
<1> QED BY <1>1, <1>2, <1>3, AloneOrNot

(* One that begins is alone, or an overlap is noted.                       *)
LEMMA BeginsAlone ==
    ASSUME Typed, OneAtATime, NEW r \in Request, NEW p \in Project, Begins(r, p)
    PROVE  OneAtATime'
<1>1. /\ stage[r] \in Ended /\ stage'[r] \notin Ended
      /\ \A q \in Request \ {r} : stage'[q] = stage[q]
      /\ op'[r].project = p /\ op'[r].saw = row[p] /\ row' = row
  BY DEF Begins, Others
<1>2. CASE Busy = {}
  <2>1. \A q \in Request : stage'[q] \notin Ended => q = r
    BY <1>1, <1>2 DEF Busy
  <2>2. Sole(r)'
    BY <1>1, <2>1 DEF Sole
  <2>3. alone' = {r}
    BY <1>2 DEF Begins
  <2>4. \A q \in Busy' : q = r
    BY <2>1 DEF Busy
  <2> QED BY <1>1, <2>2, <2>3, <2>4 DEF OneAtATime
<1>3. CASE Busy # {}
  BY <1>3 DEF Begins, OneAtATime
<1> QED BY <1>2, <1>3

(* Every step keeps OneAtATime.                                            *)
LEMMA AloneStep ==
    ASSUME Typed, Typed', OneAtATime, [PlumbingNext]_plumbingVars PROVE OneAtATime'
<1>1. ASSUME NEW r \in Request, Steps(r) \/ Failing(r) PROVE OneAtATime'
  <2>1. disturbed' \subseteq Project
    BY DEF Typed, PlumbingTypeOK
  <2> QED BY <1>1, <2>1, StepKinds, ProceedsAlone, EndsAlone
<1>2. CASE Requests
  BY <1>2, SomeoneBegins, BeginsAlone
<1>3. ASSUME NEW z \in Zone, NEW x \in Resource, DeletedByHand(z, x) PROVE OneAtATime'
  BY <1>3 DEF DeletedByHand, OneAtATime, Sole, Busy
<1>4. CASE UNCHANGED plumbingVars
  BY <1>4 DEF plumbingVars, OneAtATime, Sole, Busy
<1> QED BY <1>1, <1>2, <1>3, <1>4 DEF PlumbingNext

-----------------------------------------------------------------------------
(* What flows to undisturbed projects, and what their pages say.           *)

LEMMA FlowingInit == PlumbingInit => Flowing
<1> SUFFICES ASSUME PlumbingInit PROVE Flowing
  OBVIOUS
<1>1. \A p \in Project : ~ Enabled(row[p])
  BY DEF PlumbingInit, Blank, Enabled
<1> QED BY <1>1 DEF PlumbingInit, Flowing, FlowsFor, ToldFor

(* When every project is disturbed nothing is claimed.                     *)
LEMMA NothingClaimed ==
    ASSUME alone' = {}, disturbed' = Project PROVE Flowing'
  BY DEF Flowing

(* A request that is alone, what it has done, and the claims beside it.    *)
Claimed(r) ==
    \A p \in Project \ disturbed :
        /\ FlowsFor(p) \/ TakesAway(r, p)
        /\ ToldFor(p) \/ TakesAway(r, p) \/ Switches(r, p)

Claims(r) ==
    /\ alone = {r} /\ Sole(r) /\ Progress(r) /\ InHand(r) /\ Claimed(r)
    /\ op[r] \in Op /\ op[r].project \in Project /\ row \in [Project -> Connection]
    /\ row[op[r].project] = op[r].saw
    /\ op[r].saw \in Connection /\ op[r].held \in Connection /\ op[r].step \in 0..5

(* A request that goes on alone keeps Flowing, if it has made progress and *)
(* what is claimed of the projects still holds.                            *)
LEMMA FlowingAlone ==
    ASSUME NEW r \in Request, alone' = {r}, Progress(r)', Claimed(r)' PROVE Flowing'
  BY DEF Flowing, Claimed

(* A request at work is alone and its project is as it should be, or       *)
(* nothing is promised of any project.                                     *)
LEMMA ClaimsHold ==
    ASSUME Typed, OneAtATime, Flowing, NEW r \in Request, stage[r] \notin Ended
    PROVE  Claims(r) \/ (alone = {} /\ disturbed = Project)
<1>1. InHand(r) /\ op[r] \in Op
  BY BusyHand
<1>2. /\ op[r].saw \in Connection /\ op[r].held \in Connection /\ op[r].project \in Project
      /\ op[r].step \in 0..5
  BY <1>1, Changed
<1>3. CASE alone = {r} /\ Sole(r)
  <2>1. Progress(r)
    BY <1>3 DEF Flowing
  <2>2. row[op[r].project] = op[r].saw
    BY <1>3 DEF Sole
  <2>3. row \in [Project -> Connection]
    BY DEF Typed, PlumbingTypeOK
  <2>4. Claimed(r)
    BY <1>3 DEF Flowing, Claimed
  <2> QED BY <1>1, <1>2, <1>3, <2>1, <2>2, <2>3, <2>4 DEF Claims
<1> QED BY <1>3, AloneOrNot

(* A step that leaves the account and the rows alone.                      *)
LEMMA QuietFlows ==
    ASSUME NEW r \in Request, Claims(r), Proceeds(r), Progress(r)',
           UNCHANGED <<exists, tracked, setBy>>,
           \A p \in Project : TakesAway(r, p) => TakesAway(r, p)',
           \A p \in Project : Switches(r, p) => Switches(r, p)'
    PROVE  Flowing'
<1>1. ASSUME NEW p \in Project
      PROVE  (FlowsFor(p)' <=> FlowsFor(p)) /\ (ToldFor(p)' <=> ToldFor(p))
  BY DEF FlowsFor, ToldFor, Proceeds
<1>2. alone' = {r} /\ disturbed' = disturbed /\ Claimed(r)
  BY DEF Claims, Proceeds
<1>3. Claimed(r)'
  BY <1>1, <1>2 DEF Claimed
<1> QED BY <1>2, <1>3, FlowingAlone

(* Making a resource takes none away; the last one sets tracking as the    *)
(* row says.                                                               *)
LEMMA ProvisionFlows ==
    ASSUME Typed, NEW r \in Request, Claims(r), Provision(r), ~ GivesUp(r) PROVE Flowing'
<1> DEFINE o == op[r]
           z == op[r].saw.zone
           x == Build[op[r].step + 1]
<1>1. /\ Proceeds(r) /\ stage[r] = "building" /\ stage'[r] = "building"
      /\ op'[r].held = op[r].held
      /\ op[r].step \in 0..4 /\ op'[r].step = op[r].step + 1
      /\ exists' = [exists EXCEPT ![z] = @ \cup {x}]
      /\ IF op[r].step = 4 THEN PutDestination(r, op[r].saw.track)
                           ELSE UNCHANGED <<tracked, setBy>>
  BY ProvisionEffect DEF Here
<1>2. /\ o.kind = "setup" /\ z # Nowhere /\ o.held.track = o.saw.track /\ z \in Zone
      /\ x \in Resource /\ o.saw.track \in BOOLEAN
      /\ op'[r].kind = "setup" /\ op'[r].saw = o.saw /\ op'[r].project = o.project
  BY <1>1, Orders DEF Claims, InHand, Proceeds, Connection
<1>3. /\ exists \in [Zone -> SUBSET Resource] /\ tracked \in [Zone -> BOOLEAN]
      /\ setBy \in [Zone -> SUBSET Project]
  BY DEF Typed, PlumbingTypeOK
<1>4. /\ exists'[z] = exists[z] \cup {x}
      /\ \A y \in Zone : y # z => exists'[y] = exists[y]
  BY <1>1, <1>2, <1>3
<1>5. /\ o.step = 4 => setBy'[z] = {o.project} /\ tracked'[z] = o.saw.track
      /\ \A y \in Zone : y # z \/ o.step # 4 => setBy'[y] = setBy[y] /\ tracked'[y] = tracked[y]
  BY <1>1, <1>2, <1>3 DEF PutDestination, Here
<1>6. Progress(r)'
  <2>1. Made(r)' \subseteq exists'[z]
    <3>1. Made(r) \subseteq exists[z]
      BY <1>2 DEF Claims, Progress
    <3>2. \A i \in 1..(o.step + 1) : i \in 1..o.step \/ i = o.step + 1
      BY <1>1
    <3>3. Made(r)' = {Build[i] : i \in 1..(o.step + 1)}
      BY <1>1 DEF Made
    <3>4. Made(r)' \subseteq Made(r) \cup {x}
      BY <3>2, <3>3 DEF Made
    <3> QED BY <1>4, <3>1, <3>4
  <2>2. op'[r].step = 5 => setBy'[z] = {o.project} /\ tracked'[z] = op'[r].held.track
    BY <1>1, <1>2, <1>5
  <2> QED BY <1>1, <1>2, <2>1, <2>2 DEF Progress
<1>7. ASSUME NEW p \in Project \ disturbed PROVE FlowsFor(p)' /\ ToldFor(p)'
  <2>1. FlowsFor(p) /\ ToldFor(p) /\ row'[p] = row[p] /\ row[p] \in Connection
    BY <1>1 DEF Claims, Claimed, TakesAway, Switches, Proceeds
  <2>2. FlowsFor(p)'
    BY <1>2, <1>3, <1>4, <2>1 DEF FlowsFor, Enabled, Connection
  <2>3. ToldFor(p)'
    <3>1. CASE row[p].zone = z /\ o.step = 4
      <4>1. setBy'[z] = {p} => p = o.project
        BY <1>5, <3>1
      <4>2. p = o.project => row[p] = o.saw
        BY DEF Claims
      <4> QED BY <1>5, <2>1, <3>1, <4>1, <4>2 DEF ToldFor
    <3>2. CASE row[p].zone # z \/ o.step # 4
      <4>1. Enabled(row[p]) => row[p].zone \in Zone
        BY <2>1 DEF FlowsFor, Enabled, Connection
      <4> QED BY <1>5, <2>1, <3>2, <4>1 DEF ToldFor
    <3> QED BY <3>1, <3>2
  <2> QED BY <2>2, <2>3
<1>8. alone' = {r} /\ Claimed(r)'
  BY <1>1, <1>7 DEF Claims, Proceeds, Claimed
<1> QED BY <1>6, <1>8, FlowingAlone

(* After the last, everything is there.                                    *)
LEMMA RecordBuiltFlows ==
    ASSUME Typed, NEW r \in Request, Claims(r), RecordBuilt(r) PROVE Flowing'
<1>1. /\ Proceeds(r) /\ stage[r] = "building" /\ stage'[r] = "committing"
      /\ op[r].step = 5 /\ op'[r].step = 5 /\ op'[r].held.track = op[r].held.track
      /\ UNCHANGED <<exists, tracked, setBy>>
  BY RecordBuiltEffect
<1>2. op[r].kind = "setup" /\ op'[r].kind = "setup"
  BY <1>1 DEF Claims, InHand, Proceeds
<1>3. Progress(r)'
  <2>1. Made(r)' = Made(r)
    BY <1>1 DEF Made
  <2>2. Progress(r)
    BY DEF Claims
  <2> QED BY <1>1, <1>2, <2>1, <2>2 DEF Progress, Proceeds
<1> QED BY <1>1, <1>3, QuietFlows DEF TakesAway, Switches

(* Updating the destination switches tracking; the row is about to say so. *)
LEMMA UpdateFlows ==
    ASSUME Typed, NEW r \in Request, Claims(r), UpdateDestination(r), ~ GivesUp(r)
    PROVE  Flowing'
<1> DEFINE o == op[r]
           z == op[r].saw.zone
<1>1. /\ Proceeds(r) /\ stage[r] = "updating" /\ stage'[r] = "committing"
      /\ op'[r] = op[r] /\ PutDestination(r, op[r].held.track)
      /\ UNCHANGED exists
  BY UpdateEffect
<1>2. o.kind = "track" /\ z \in Zone
  BY <1>1 DEF Claims, InHand, Connection
<1>3. /\ setBy'[z] = {o.project} /\ tracked'[z] = o.held.track
      /\ \A y \in Zone \ {z} : setBy'[y] = setBy[y] /\ tracked'[y] = tracked[y]
  BY <1>1, <1>2 DEF PutDestination, Here, Typed, PlumbingTypeOK
<1>4. Progress(r)'
  BY <1>1, <1>2, <1>3 DEF Progress
<1>5. ASSUME NEW p \in Project \ disturbed PROVE FlowsFor(p)' /\ (ToldFor(p)' \/ Switches(r, p)')
  <2>1. FlowsFor(p) /\ ToldFor(p) /\ row'[p] = row[p] /\ row[p] \in Connection
    BY <1>1 DEF Claims, Claimed, TakesAway, Switches, Proceeds
  <2>2. FlowsFor(p)'
    BY <1>1, <2>1 DEF FlowsFor, Enabled
  <2>3. CASE p = o.project
    BY <1>1, <1>2, <2>2, <2>3 DEF Switches
  <2>4. CASE p # o.project /\ row[p].zone = z
    BY <1>3, <2>1, <2>2, <2>4 DEF ToldFor
  <2>5. CASE row[p].zone # z
    <3>1. Enabled(row[p]) => row[p].zone \in Zone \ {z}
      BY <2>1, <2>5 DEF FlowsFor, Enabled, Connection
    <3> QED BY <1>3, <2>1, <2>2, <3>1 DEF ToldFor
  <2> QED BY <2>3, <2>4, <2>5
<1>6. alone' = {r} /\ Claimed(r)'
  BY <1>1, <1>5 DEF Claims, Proceeds, Claimed
<1> QED BY <1>4, <1>6, FlowingAlone

(* Verifying takes nothing away.                                           *)
LEMMA VerifyFlows ==
    ASSUME Typed, NEW r \in Request, Claims(r), Verify(r) PROVE Flowing'
<1>1. /\ Proceeds(r) /\ stage[r] = "verifying" /\ stage'[r] = "committing" /\ op'[r] = op[r]
      /\ UNCHANGED <<exists, tracked, setBy>>
  BY VerifyEffect
<1>2. op[r].kind = "connect"
  BY <1>1 DEF Claims, InHand
<1>3. Progress(r)'
  BY <1>1, <1>2 DEF Progress
<1> QED BY <1>1, <1>3, QuietFlows DEF TakesAway, Switches

(* A removal begins only where nobody else is.                             *)
LEMMA CountFlows ==
    ASSUME Typed, NEW r \in Request, Claims(r), CountOthers(r) PROVE Flowing'
<1>1. /\ Proceeds(r) /\ stage[r] = "counting"
      /\ \/ stage'[r] = "dropping" /\ OtherUsers(r) = {}
         \/ stage'[r] = "committing"
      /\ UNCHANGED <<exists, tracked, setBy>>
  BY CountEffect
<1>2. op[r].kind \in {"remove", "disconnect"}
  BY <1>1 DEF Claims, InHand
<1>3. OtherUsers(r)' = OtherUsers(r)
  BY <1>1 DEF OtherUsers, Proceeds, Here
<1>4. Progress(r)'
  BY <1>1, <1>2, <1>3 DEF Progress, Proceeds
<1> QED BY <1>1, <1>4, QuietFlows DEF TakesAway, Switches

(* After a removal, the row is about to say so.                            *)
LEMMA RecordRemovedFlows ==
    ASSUME Typed, NEW r \in Request, Claims(r), RecordRemoved(r) PROVE Flowing'
<1>1. /\ Proceeds(r) /\ stage[r] = "dropping" /\ stage'[r] = "committing"
      /\ UNCHANGED <<exists, tracked, setBy>>
  BY RecordRemovedEffect
<1>2. op[r].kind \in {"remove", "disconnect"}
  BY <1>1 DEF Claims, InHand
<1>3. Progress(r)'
  BY <1>1, <1>2 DEF Progress, Proceeds
<1> QED BY <1>1, <1>2, <1>3, QuietFlows DEF TakesAway, Switches, Proceeds

(* A removal takes away from its own project only.                         *)
LEMMA RemoveNextFlows ==
    ASSUME Typed, NEW r \in Request, Claims(r), RemoveNext(r) PROVE Flowing'
<1> DEFINE o == op[r]
           z == op[r].saw.zone
           x == Drop[op[r].step + 1]
<1>1. /\ Proceeds(r) /\ stage[r] = "dropping" /\ stage'[r] = "dropping"
      /\ op[r].step \in 0..4 /\ op'[r].step = op[r].step + 1
      /\ Without(z, x) \/ UNCHANGED <<exists, tracked, setBy>>
  BY RemoveNextEffect DEF Here
<1>2. /\ o.kind \in {"remove", "disconnect"} /\ OtherUsers(r) = {}
      /\ op'[r].kind = o.kind /\ op'[r].project = o.project
  BY <1>1 DEF Claims, InHand, Progress, Proceeds
<1>3. OtherUsers(r)' = OtherUsers(r)
  BY <1>1 DEF OtherUsers, Proceeds, Here
<1>4. Progress(r)'
  BY <1>1, <1>2, <1>3 DEF Progress, Proceeds
<1>5. /\ exists \in [Zone -> SUBSET Resource] /\ tracked \in [Zone -> BOOLEAN]
      /\ setBy \in [Zone -> SUBSET Project]
  BY DEF Typed, PlumbingTypeOK
<1>6. ASSUME NEW y \in Zone
      PROVE  /\ y # z => exists'[y] = exists[y] /\ tracked'[y] = tracked[y] /\ setBy'[y] = setBy[y]
             /\ setBy'[y] = {} \/ (tracked'[y] = tracked[y] /\ setBy'[y] = setBy[y])
  <2>1. CASE Without(z, x)
    <3>1. \/ setBy'[y] = {}
          \/ tracked'[y] = tracked[y] /\ setBy'[y] = setBy[y]
      BY <1>5, <2>1 DEF Without
    <3>2. y # z => exists'[y] = exists[y] /\ tracked'[y] = tracked[y] /\ setBy'[y] = setBy[y]
      BY <1>5, <2>1 DEF Without
    <3> QED BY <3>1, <3>2
  <2> QED BY <1>1, <2>1
<1>7. ASSUME NEW p \in Project \ disturbed, p # o.project PROVE FlowsFor(p)' /\ ToldFor(p)'
  <2>1. FlowsFor(p) /\ ToldFor(p) /\ row'[p] = row[p] /\ row[p] \in Connection
    BY <1>1, <1>7 DEF Claims, Claimed, TakesAway, Switches, Proceeds
  <2>2. Enabled(row[p]) => row[p].zone \in Zone /\ row[p].zone # z
    BY <1>2, <1>7, <2>1 DEF FlowsFor, Enabled, Connection, OtherUsers, Here
  <2> QED BY <1>6, <2>1, <2>2 DEF FlowsFor, ToldFor
<1>8. ASSUME NEW p \in Project, p = o.project PROVE TakesAway(r, p)'
  BY <1>1, <1>2, <1>8 DEF TakesAway
<1>9. alone' = {r} /\ Claimed(r)'
  BY <1>1, <1>7, <1>8 DEF Claims, Proceeds, Claimed
<1> QED BY <1>4, <1>9, FlowingAlone

(* A request that ends without its commit leaves no exception behind.      *)
LEMMA GivesUpFlows ==
    ASSUME Typed, NEW r \in Request, Claims(r), GivesUp(r), alone' = {} PROVE Flowing'
<1>1. ASSUME NEW p \in Project \ disturbed' PROVE FlowsFor(p)' /\ ToldFor(p)'
  <2>1. p \in Project \ disturbed
    BY DEF GivesUp
  <2>2. p # op[r].project \/ stage[r] \in {"building", "updating", "verifying"}
    BY DEF GivesUp
  <2>3. FlowsFor(p) /\ ToldFor(p)
    BY <2>1, <2>2 DEF Claims, Claimed, TakesAway, Switches
  <2> QED BY <2>3 DEF FlowsFor, ToldFor, GivesUp
<1> QED BY <1>1 DEF Flowing

(* A commit makes the row say what was done.                               *)
LEMMA CommitFlows ==
    ASSUME Typed, NEW r \in Request, Claims(r), CommitRow(r), ~ GivesUp(r), alone' = {}
    PROVE  Flowing'
<1> DEFINE o == op[r]
           z == op[r].saw.zone
<1>0. PICK p \in Project : p = o.project
  BY DEF Claims
<1>1. /\ stage[r] = "committing"
      /\ row'[p] = IF o.kind = "disconnect" THEN Blank ELSE Merge(row[p], o)
      /\ \A q \in Project \ {p} : row'[q] = row[q]
      /\ disturbed' = IF Moved(o) THEN disturbed \cup {p}
                      ELSE IF o.kind = "setup" /\ r \in alone THEN disturbed \ {p}
                      ELSE disturbed
      /\ UNCHANGED <<exists, tracked, setBy>>
  BY <1>0, CommitEffect
<1>2. ASSUME NEW q \in Project \ disturbed', q # p PROVE FlowsFor(q)' /\ ToldFor(q)'
  <2>1. q \in Project \ disturbed /\ row'[q] = row[q]
    BY <1>1, <1>2
  <2>2. FlowsFor(q) /\ ToldFor(q)
    BY <1>0, <1>2, <2>1 DEF Claims, Claimed, TakesAway, Switches
  <2> QED BY <1>1, <2>1, <2>2 DEF FlowsFor, ToldFor
<1>3. ASSUME p \notin disturbed' PROVE FlowsFor(p)' /\ ToldFor(p)'
  <2>1. CASE o.kind = "disconnect"
    BY <1>1, <2>1 DEF Blank, FlowsFor, ToldFor, Enabled
  <2>2. CASE o.kind # "disconnect"
    <3>1. /\ row'[p].zone = o.held.zone /\ row'[p].built = o.held.built
          /\ row'[p].track = o.held.track
      BY <1>0, <1>1, <2>2, Merged DEF Claims
    <3>2. CASE o.kind = "setup"
      <4>1. o.held.built = z /\ o.held.zone = z /\ z # Nowhere /\ z \in Zone
        BY <1>1, <3>2 DEF Claims, InHand, Connection
      <4>2. Made(r) \subseteq exists[z] /\ o.step = 5 /\ tracked[z] = o.held.track
        BY <1>1, <3>2 DEF Claims, Progress
      <4>3. exists[z] = Resource
        <5>1. Resource \subseteq Made(r)
          BY <4>2, Orders DEF Made
        <5> QED BY <4>1, <4>2, <5>1 DEF Typed, PlumbingTypeOK
      <4> QED BY <1>1, <3>1, <4>1, <4>2, <4>3 DEF FlowsFor, ToldFor
    <3>3. CASE o.kind = "remove"
      BY <1>1, <3>1, <3>3 DEF Claims, InHand, FlowsFor, ToldFor, Enabled
    <3>4. CASE o.kind = "track"
      <4>1. o.held.zone = z /\ o.held.built = o.saw.built
        BY <3>4 DEF Claims, InHand
      <4>2. p \notin disturbed /\ FlowsFor(p) /\ row[p] = o.saw
        BY <1>0, <1>1, <1>3, <3>4 DEF Claims, Claimed, TakesAway
      <4>3. Enabled(o.saw) => tracked[z] = o.held.track
        BY <1>1, <3>4 DEF Claims, Progress
      <4> QED BY <1>1, <3>1, <4>1, <4>2, <4>3 DEF FlowsFor, ToldFor, Enabled
    <3>5. CASE o.kind = "connect"
      <4>1. o.held.built = o.saw.built /\ o.held.track = o.saw.track
        BY <3>5 DEF Claims, InHand
      <4>2. p \notin disturbed /\ (Enabled(o.saw) => o.held.zone = z)
        BY <1>1, <1>3, <3>5, <4>1 DEF Moved, Enabled
      <4>3. FlowsFor(p) /\ ToldFor(p) /\ row[p] = o.saw
        BY <1>0, <1>1, <3>5, <4>2 DEF Claims, Claimed, TakesAway, Switches
      <4> QED BY <1>1, <3>1, <4>1, <4>2, <4>3 DEF FlowsFor, ToldFor, Enabled
    <3>6. o.kind \in {"setup", "remove", "track", "disconnect", "connect"}
      BY DEF Claims, Op
    <3> QED BY <2>2, <3>2, <3>3, <3>4, <3>5, <3>6
  <2> QED BY <2>1, <2>2
<1> QED BY <1>2, <1>3 DEF Flowing

(* A request that begins alone has made no progress yet.                   *)
LEMMA BeginsFlows ==
    ASSUME Typed, OneAtATime, Flowing, NEW r \in Request, NEW p \in Project, Begins(r, p)
    PROVE  Flowing'
<1>1. CASE Busy = {}
  <2>1. alone' = {r} /\ UNCHANGED <<disturbed, row, exists, tracked, setBy>>
    BY <1>1 DEF Begins
  <2>2. alone = {}
    BY <1>1 DEF OneAtATime, Busy, Typed, PlumbingTypeOK
  <2>3. Claimed(r)'
    BY <2>1, <2>2 DEF Flowing, Claimed, FlowsFor, ToldFor
  <2>4. Progress(r)'
    <3>1. Made(r)' = {}
      BY DEF Begins, Made
    <3> QED BY <3>1 DEF Begins, Progress, Enabled
  <2> QED BY <2>1, <2>3, <2>4, FlowingAlone
<1>2. CASE Busy # {}
  BY <1>2, NothingClaimed DEF Begins
<1> QED BY <1>1, <1>2

(* Every step keeps Flowing.                                               *)
LEMMA FlowingStep ==
    ASSUME Typed, Typed', OneAtATime, Flowing, [PlumbingNext]_plumbingVars PROVE Flowing'
<1>1. ASSUME NEW r \in Request, Steps(r) \/ Failing(r) PROVE Flowing'
  <2>1. CASE alone = {} /\ disturbed = Project
    <3>1. Proceeds(r) \/ Closes(r)
      BY <1>1, StepKinds
    <3>2. alone' = {} /\ disturbed' = Project
      BY <2>1, <3>1 DEF Proceeds, Closes, Typed, PlumbingTypeOK
    <3> QED BY <3>2, NothingClaimed
  <2>2. CASE Claims(r)
    <3>1. ASSUME Closes(r) PROVE alone' = {}
      BY <2>2, <3>1 DEF Claims, Closes
    <3>2. CASE GivesUp(r)
      BY <2>2, <3>1, <3>2, GivesUpFlows DEF GivesUp
    <3>3. CASE ~ GivesUp(r) /\ CommitRow(r)
      <4>1. Closes(r)
        BY <3>3, CommitEffect
      <4> QED BY <2>2, <3>1, <3>3, <4>1, CommitFlows
    <3> QED BY <1>1, <2>2, <3>2, <3>3, FailingGivesUp, ProvisionFlows, RecordBuiltFlows,
               UpdateFlows, VerifyFlows, CountFlows, RemoveNextFlows, RecordRemovedFlows DEF Steps
  <2>3. stage[r] \notin Ended
    BY <1>1, StepKinds DEF Proceeds, Closes
  <2> QED BY <2>1, <2>2, <2>3, ClaimsHold
<1>2. CASE Requests
  BY <1>2, SomeoneBegins, BeginsFlows
<1>3. ASSUME NEW z \in Zone, NEW x \in Resource, DeletedByHand(z, x) PROVE Flowing'
  BY <1>3, NothingClaimed DEF DeletedByHand
<1>4. CASE UNCHANGED plumbingVars
  BY <1>4 DEF plumbingVars, awsVars, Flowing, Progress, Made, OtherUsers, Here, TakesAway, Switches,
              FlowsFor, ToldFor
<1> QED BY <1>1, <1>2, <1>3, <1>4 DEF PlumbingNext

-----------------------------------------------------------------------------
(* What is left in the account is named, as long as nothing went astray.   *)

LEMMA AccountedInit == PlumbingInit => Accounted
<1> SUFFICES ASSUME PlumbingInit PROVE Accounted
  OBVIOUS
<1>1. /\ \A p \in Project : ~ Enabled(row[p])
      /\ \A z \in Zone : exists[z] = {}
      /\ Busy = {}
  BY DEF PlumbingInit, Blank, Enabled, Busy, Ended
<1> QED BY <1>1 DEF Accounted, NamesItsZone, KnownIn

(* What is known of a request while nothing has gone astray.               *)
Tidy(r) ==
    /\ NamesItsZone /\ (\A z \in Zone : KnownIn(z)) /\ Left(r)
    /\ stage[r] \notin Ended /\ (\A q \in Request : stage[q] \notin Ended => q = r) /\ InHand(r)
    /\ op[r] \in Op /\ op[r].project \in Project /\ row \in [Project -> Connection]
    /\ row[op[r].project] = op[r].saw
    /\ op[r].saw \in Connection /\ op[r].held \in Connection
    /\ exists \in [Zone -> SUBSET Resource]

(* Without strays, a request at work has the zone to itself.               *)
LEMMA TidyHolds ==
    ASSUME Typed, OneAtATime, Accounted, strays = {}, NEW r \in Request, stage[r] \notin Ended
    PROVE  Tidy(r)
<1>1. InHand(r) /\ op[r] \in Op
  BY BusyHand
<1>2. /\ op[r].saw \in Connection /\ op[r].held \in Connection /\ op[r].project \in Project
  BY <1>1, Changed
<1>3. r \in Busy /\ Sole(r)
  BY DEF Busy, OneAtATime
<1>4. row \in [Project -> Connection] /\ exists \in [Zone -> SUBSET Resource]
  BY DEF Typed, PlumbingTypeOK
<1> QED BY <1>1, <1>2, <1>3, <1>4 DEF Tidy, Accounted, Sole

(* Going on without anything new in the account.                           *)
LEMMA ProceedsTidy ==
    ASSUME NEW r \in Request, Tidy(r), Proceeds(r), Left(r)',
           \A z \in Zone : exists'[z] \subseteq exists[z]
                          \/ (op[r].kind = "setup" /\ op[r].saw.zone = z)
    PROVE  Accounted'
<1>1. NamesItsZone'
  BY DEF Tidy, NamesItsZone, Proceeds
<1>2. ASSUME NEW z \in Zone PROVE KnownIn(z)'
  <2>1. CASE exists'[z] \subseteq exists[z] /\ \E p \in Project : row[p].built = z
    BY <2>1 DEF KnownIn, Proceeds
  <2>2. CASE op[r].kind = "setup" /\ op[r].saw.zone = z
    BY <2>2 DEF KnownIn, Proceeds, Busy
  <2>3. CASE exists'[z] \subseteq exists[z] /\ \E q \in Busy : op[q].kind = "setup" /\ op[q].saw.zone = z
    BY <2>2, <2>3 DEF Tidy, Busy
  <2>4. CASE exists'[z] \subseteq exists[z] /\ exists[z] = {}
    BY <2>4 DEF KnownIn
  <2> QED BY <2>1, <2>2, <2>3, <2>4 DEF Tidy, KnownIn
<1>3. \A q \in Busy' : q = r
  BY DEF Tidy, Proceeds, Others, Busy
<1> QED BY <1>1, <1>2, <1>3 DEF Accounted

(* A step that goes on leaves nothing unaccounted for.                     *)
LEMMA StepTidy ==
    ASSUME Typed, NEW r \in Request, Tidy(r), Steps(r), ~ GivesUp(r), ~ CommitRow(r), strays' = {}
    PROVE  Accounted'
<1> DEFINE o == op[r]
           z == op[r].saw.zone
<1>1. CASE Provision(r)
  <2>1. /\ Proceeds(r) /\ stage[r] = "building" /\ stage'[r] = "building"
        /\ exists' = [exists EXCEPT ![z] = @ \cup {Build[op[r].step + 1]}]
    BY <1>1, ProvisionEffect DEF Here
  <2>2. op[r].kind = "setup" /\ \A y \in Zone : y # z => exists'[y] = exists[y]
    BY <2>1 DEF Tidy, InHand
  <2> QED BY <2>1, <2>2, ProceedsTidy DEF Left
<1>2. CASE RecordBuilt(r)
  <2>1. /\ Proceeds(r) /\ stage[r] = "building" /\ stage'[r] = "committing" /\ exists' = exists
    BY <1>2, RecordBuiltEffect
  <2>2. Left(r)'
    BY <2>1 DEF Left, Proceeds, Tidy, InHand
  <2> QED BY <2>1, <2>2, ProceedsTidy
<1>3. CASE UpdateDestination(r)
  <2>1. /\ Proceeds(r) /\ stage[r] = "updating" /\ stage'[r] = "committing" /\ exists' = exists
    BY <1>3, UpdateEffect
  <2>2. Left(r)'
    BY <2>1 DEF Left, Proceeds, Tidy, InHand
  <2> QED BY <2>1, <2>2, ProceedsTidy
<1>4. CASE Verify(r)
  <2>1. /\ Proceeds(r) /\ stage[r] = "verifying" /\ stage'[r] = "committing" /\ exists' = exists
    BY <1>4, VerifyEffect
  <2>2. Left(r)'
    BY <2>1 DEF Left, Proceeds, Tidy, InHand
  <2> QED BY <2>1, <2>2, ProceedsTidy
<1>5. CASE CountOthers(r)
  <2>1. /\ Proceeds(r) /\ stage[r] = "counting" /\ exists' = exists /\ op'[r].step = o.step
        /\ \/ stage'[r] = "dropping"
           \/ stage'[r] = "committing" /\ OtherUsers(r) # {}
    BY <1>5, CountEffect
  <2>2. o.step = 0
    BY <2>1 DEF Tidy, Left
  <2>3. CASE stage'[r] = "dropping"
    BY <2>1, <2>2, <2>3, ProceedsTidy DEF Left
  <2>4. CASE stage'[r] = "committing" /\ OtherUsers(r) # {}
    <3>1. PICK q \in Project : q # o.project /\ row[q].zone = z /\ Enabled(row[q])
      BY <2>4 DEF OtherUsers, Here
    <3>2. row[q].built = z
      BY <3>1 DEF Tidy, NamesItsZone
    <3>3. Left(r)'
      BY <2>1, <2>4, <3>1, <3>2 DEF Left, Proceeds
    <3> QED BY <2>1, <3>3, ProceedsTidy
  <2> QED BY <2>1, <2>3, <2>4
<1>6. CASE RemoveNext(r)
  <2> DEFINE x == Drop[op[r].step + 1]
  <2>1. /\ Proceeds(r) /\ stage[r] = "dropping" /\ stage'[r] = "dropping"
        /\ o.step \in 0..4 /\ op'[r].step = o.step + 1
        /\ Without(z, x) \/ ~ Reaches(r, x)
    BY <1>6, RemoveNextEffect DEF Here
  <2>2. Enabled(o.saw) /\ o.saw.built = z /\ z \in Zone
    BY <2>1 DEF Tidy, InHand, NamesItsZone, Enabled, Connection
  <2>3. Without(z, x)
    BY <2>1, <2>2 DEF Reaches, Here
  <2>4. /\ exists'[z] = exists[z] \ GoesWith(x)
        /\ \A y \in Zone : y # z => exists'[y] = exists[y]
    BY <2>2, <2>3 DEF Without, Tidy
  <2>5. x \in GoesWith(x)
    BY DEF GoesWith
  <2>6. \A y \in Zone : exists'[y] \subseteq exists[y]
    BY <2>4
  <2>7. \A i \in 1..(o.step + 1) : Drop[i] \notin exists'[z]
    <3>1. \A i \in 1..(o.step + 1) : i \in 1..o.step \/ i = o.step + 1
      BY <2>1
    <3>2. \A i \in 1..o.step : Drop[i] \notin exists[z]
      BY <2>1 DEF Tidy, Left
    <3> QED BY <2>4, <2>5, <3>1, <3>2
  <2>8. Left(r)'
    BY <2>1, <2>7 DEF Left, Proceeds
  <2> QED BY <2>1, <2>6, <2>8, ProceedsTidy
<1>7. CASE RecordRemoved(r)
  <2>1. /\ Proceeds(r) /\ stage[r] = "dropping" /\ stage'[r] = "committing"
        /\ o.step = 5 /\ exists' = exists
    BY <1>7, RecordRemovedEffect
  <2>2. z \in Zone
    BY <2>1 DEF Tidy, InHand, NamesItsZone, Enabled, Connection
  <2>3. exists[z] \subseteq Resource /\ \A i \in 1..5 : Drop[i] \notin exists[z]
    BY <2>1, <2>2 DEF Tidy, Left
  <2>4. exists[z] = {}
    BY <2>3, Orders
  <2>5. Left(r)'
    BY <2>1, <2>4 DEF Left, Proceeds
  <2> QED BY <2>1, <2>5, ProceedsTidy
<1> QED BY <1>1, <1>2, <1>3, <1>4, <1>5, <1>6, <1>7 DEF Steps

(* After a request that has ended nobody is at work.                       *)
LEMMA EndsTidy ==
    ASSUME NEW r \in Request, Tidy(r), Closes(r), NamesItsZone',
           \A z \in Zone : exists'[z] # {} => \E p \in Project : row'[p].built = z
    PROVE  Accounted'
<1>1. Busy' = {}
  BY DEF Tidy, Closes, Others, Busy
<1> QED BY <1>1 DEF Accounted, KnownIn

(* A request that gives up without a stray had made nothing.               *)
LEMMA GivesUpTidy ==
    ASSUME NEW r \in Request, Tidy(r), GivesUp(r), strays' = {} PROVE Accounted'
<1>1. ~ Clashes(op[r])
  BY DEF Clashes, Tidy
<1>2. stage[r] \in {"updating", "verifying"}
  BY <1>1 DEF GivesUp
<1>3. op[r].kind # "setup"
  BY <1>2 DEF Tidy, InHand
<1>4. \A z \in Zone : exists[z] # {} => \E p \in Project : row[p].built = z
  BY <1>3 DEF Tidy, KnownIn, Busy
<1> QED BY <1>4, EndsTidy DEF GivesUp, Tidy, NamesItsZone

(* The commit names what was built, or forgets only what is gone or        *)
(* somebody else names.                                                    *)
LEMMA CommitTidy ==
    ASSUME Typed, NEW r \in Request, Tidy(r), CommitRow(r), ~ GivesUp(r), strays' = {}
    PROVE  Accounted'
<1> DEFINE o == op[r]
           z == op[r].saw.zone
<1>1. PICK p \in Project : p = o.project
  BY DEF Tidy
<1>2. /\ Closes(r) /\ stage[r] = "committing" /\ ~ Moved(o) /\ exists' = exists
      /\ row'[p] = IF o.kind = "disconnect" THEN Blank ELSE Merge(row[p], o)
      /\ \A q \in Project \ {p} : row'[q] = row[q]
  BY <1>1, CommitEffect
<1>3. row[p] = o.saw /\ (Enabled(o.saw) => o.saw.built = z)
  BY <1>1 DEF Tidy, NamesItsZone
<1>4. o.kind # "disconnect" => row'[p].zone = o.held.zone /\ row'[p].built = o.held.built
  BY <1>2, <1>3, Merged DEF Tidy
<1>5. o.kind \in {"setup", "remove", "track", "disconnect", "connect"}
  BY DEF Tidy, Op
<1>6. Enabled(row'[p]) => row'[p].built = row'[p].zone
  <2>1. CASE o.kind = "disconnect"
    BY <1>2, <2>1 DEF Blank, Enabled
  <2>2. CASE o.kind \in {"setup", "remove", "track"}
    BY <1>2, <1>3, <1>4, <2>2 DEF Tidy, InHand, Enabled
  <2>3. CASE o.kind = "connect"
    BY <1>2, <1>3, <1>4, <2>3 DEF Tidy, InHand, Enabled, Moved
  <2> QED BY <1>5, <2>1, <2>2, <2>3
<1>7. NamesItsZone'
  BY <1>2, <1>6 DEF Tidy, NamesItsZone, Enabled
<1>8. ASSUME NEW y \in Zone, exists'[y] # {} PROVE \E q \in Project : row'[q].built = y
  <2>1. CASE \E q \in Project : q # p /\ row[q].built = y
    BY <1>2, <2>1
  <2>2. CASE o.kind = "setup" /\ z = y
    BY <1>2, <1>4, <2>2 DEF Tidy, InHand
  <2>3. CASE row[p].built = y
    <3>1. Enabled(o.saw) /\ z = y
      BY <1>3, <2>3, ZoneAssumption DEF Enabled
    <3>2. CASE o.kind \in {"track", "connect"}
      BY <1>3, <1>4, <2>3, <3>2 DEF Tidy, InHand
    <3>3. CASE o.kind \in {"remove", "disconnect"}
      <4>1. \E q \in Project : q # p /\ row[q].built = y
        BY <1>1, <1>2, <1>8, <3>1, <3>3 DEF Tidy, Left
      <4> QED BY <2>1, <4>1
    <3> QED BY <1>5, <2>2, <3>1, <3>2, <3>3
  <2> QED BY <1>2, <1>8, <2>1, <2>2, <2>3 DEF Tidy, KnownIn, Busy
<1> QED BY <1>2, <1>7, <1>8, EndsTidy

(* Every step keeps Accounted.                                             *)
LEMMA AccountedStep ==
    ASSUME Typed, OneAtATime, Accounted, [PlumbingNext]_plumbingVars PROVE Accounted'
<1> SUFFICES ASSUME strays' = {} PROVE Accounted'
  BY DEF Accounted
<1>1. ASSUME NEW r \in Request, Steps(r) \/ Failing(r) PROVE Accounted'
  <2>1. Proceeds(r) \/ Closes(r)
    BY <1>1, StepKinds
  <2>2. strays = {} /\ stage[r] \notin Ended
    BY <2>1 DEF Proceeds, Closes
  <2>3. Tidy(r)
    BY <2>2, TidyHolds
  <2> QED BY <1>1, <2>3, FailingGivesUp, GivesUpTidy, CommitTidy, StepTidy
<1>2. ASSUME NEW r \in Request, NEW p \in Project, Begins(r, p) PROVE Accounted'
  <2>1. strays = {} /\ Busy = {}
    BY <1>2 DEF Begins
  <2>2. \A q \in Busy' : q = r
    BY <1>2, <2>1 DEF Begins, Others, Busy
  <2>3. NamesItsZone' /\ \A z \in Zone : KnownIn(z)'
    BY <1>2, <2>1 DEF Accounted, NamesItsZone, KnownIn, Begins
  <2>4. Left(r)'
    BY <1>2 DEF Begins, Left, Enabled
  <2> QED BY <2>2, <2>3, <2>4 DEF Accounted
<1>3. ASSUME NEW z \in Zone, NEW x \in Resource, DeletedByHand(z, x) PROVE Accounted'
  <2>1. UNCHANGED <<row, stage, op, strays>> /\ Busy' = Busy
    BY <1>3 DEF DeletedByHand, Busy
  <2>2. \A y \in Zone : exists'[y] \subseteq exists[y]
    BY <1>3 DEF DeletedByHand, Without, Typed, PlumbingTypeOK
  <2>3. NamesItsZone'
    BY <2>1 DEF Accounted, NamesItsZone
  <2>4. ASSUME NEW y \in Zone PROVE KnownIn(y)'
    BY <2>1, <2>2 DEF Accounted, KnownIn
  <2>5. ASSUME NEW r \in Busy' PROVE Left(r)'
    <3> DEFINE y == op[r].saw.zone
    <3>1. r \in Busy /\ Left(r) /\ InHand(r)
      BY <2>1 DEF Accounted, Typed, AllInHand
    <3>2. Enabled(op[r].saw) => y \in Zone
      BY <3>1 DEF InHand, Enabled, Op, Connection
    <3>3. stage[r] = "dropping" => y \in Zone
      BY <3>1, <3>2 DEF InHand
    <3> QED BY <2>1, <2>2, <3>1, <3>2, <3>3 DEF Left
  <2> QED BY <2>3, <2>4, <2>5 DEF Accounted
<1>4. CASE UNCHANGED plumbingVars
  BY <1>4 DEF plumbingVars, awsVars, Accounted, NamesItsZone, KnownIn, Left, Busy
<1> QED BY <1>1, <1>2, <1>3, <1>4, SomeoneBegins DEF PlumbingNext

-----------------------------------------------------------------------------
PlumbingInv == Typed /\ OneAtATime /\ Flowing /\ Accounted

(* PlumbingInv holds throughout every behaviour.                                  *)
THEOREM PlumbingInvariance == PlumbingSpec => []PlumbingInv
<1>1. PlumbingInit => PlumbingInv
  BY PlumbingTypedInit, AloneInit, FlowingInit, AccountedInit DEF PlumbingInv
<1>2. PlumbingInv /\ [PlumbingNext]_plumbingVars => PlumbingInv'
  BY PlumbingTypedStep, AloneStep, FlowingStep, AccountedStep DEF PlumbingInv
<1> QED BY <1>1, <1>2, PTL DEF PlumbingSpec

(* Every variable keeps its type.                                          *)
THEOREM PlumbingTypeCorrect == PlumbingSpec => []PlumbingTypeOK
<1>1. PlumbingInv => PlumbingTypeOK
  BY DEF PlumbingInv, Typed
<1> QED BY <1>1, PlumbingInvariance, PTL

(* Events flow to every undisturbed project whose page says so.            *)
THEOREM EventsDoFlow == PlumbingSpec => []EventsFlow
<1>1. PlumbingInv => EventsFlow
  BY DEF PlumbingInv, OneAtATime, Flowing, EventsFlow, FlowsFor, Busy, Typed, PlumbingTypeOK
<1> QED BY <1>1, PlumbingInvariance, PTL

(* Nothing is left that no row names, unless something went astray.        *)
THEOREM NothingStays == PlumbingSpec => []NothingLeftBehind
<1>1. PlumbingInv => NothingLeftBehind
  BY DEF PlumbingInv, Accounted, KnownIn, NothingLeftBehind
<1> QED BY <1>1, PlumbingInvariance, PTL

(* The page says of tracking what the destination does.                    *)
THEOREM PagesTellTracking == PlumbingSpec => []TrackingToldTruly
<1>1. PlumbingInv => TrackingToldTruly
  BY DEF PlumbingInv, OneAtATime, Flowing, TrackingToldTruly, ToldFor, Busy, Typed, PlumbingTypeOK
<1> QED BY <1>1, PlumbingInvariance, PTL

=============================================================================
