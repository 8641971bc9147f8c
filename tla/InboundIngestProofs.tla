------------------------- MODULE InboundIngestProofs -------------------------
(***************************************************************************)
(* Safety of InboundIngest for every set of projects, domains,             *)
(* announcements and passes, and every number of changes and failures; and *)
(* of Mime, the reading of what was ingested and of what was sent, for     *)
(* messages of any number of parts and for every pair of caps.             *)
(*                                                                         *)
(* InboundIngest has one inductive invariant, IInv.  Beside the checked    *)
(* properties it says what is known of an announcement once it is made     *)
(* (Announced), what the place of a pass tells of the one in its hands     *)
(* (Hands), and what the unique constraints leave to open transactions     *)
(* (OneWriter).  Under it every step is one of Inbox or nothing to it      *)
(* (PromiseSwitching, PromiseArrivals, PromisePass), an object with a row  *)
(* having been told of once and one without never (RecordedIsTold).        *)
(*                                                                         *)
(* Mime's invariant, MimeInv, says how a message splits.  The rest is      *)
(* about the walk over any such message.  A fold is first shown to go from *)
(* one value to the next (FoldGoesOn); what is then true of the walk part  *)
(* by part (Walked, Complete), of the files leaf by leaf (FiledInto) and   *)
(* of a message that is built attachment by attachment (AttachedRead) is   *)
(* shown by induction on how far it has got (Upward).                      *)
(***************************************************************************)
EXTENDS InboundIngest, Mime, FiniteSetTheorems, WellFoundedInduction, TLAPS

(* Only announced messages are queued or recorded, whoever receives now    *)
(* has received since, and no announcement follows the object's expiry.    *)
Announced ==
    /\ queue \subseteq announced
    /\ \A r \in rows : r.note \in announced
    /\ \A n \in announced : on \subseteq since[n]
    /\ \A m, n \in Note :
          m \in announced /\ Stored[m] \notin stored /\ Stored[n] = Stored[m]
              => n \in announced

(* Places between finding the owner and the commit.                        *)
Owned == {"asking", "fetching", "inserting"} \cup Open

(* What a pass knows of its announcement at each place.                    *)
Hands ==
    \A h \in Handler :
        /\ at[h] \notin {"idle", "ready"} => note[h] \in announced
        /\ at[h] \in Owned =>
              /\ owner[h] \in since[note[h]]
              /\ Contains(Candidates(note[h]), owner[h][2])
        /\ at[h] = "removing" =>
              Recorded(note[h]) \/ note[h] \in refused \/ Stored[note[h]] \notin stored

(* An insert that was let through has no like among the rows, committed or *)
(* not.                                                                    *)
OneWriter ==
    \A h \in Handler : at[h] \in Open =>
        /\ ~ Recorded(note[h])
        /\ \A g \in Handler \ {h} : at[g] \in Open => note[g] \notin Same(note[h])

IInv == TypeOK /\ Announced /\ Hands /\ OneWriter /\ ToldOnce /\ OnlyReceiversGetMail
        /\ GoneMeansSettled

-----------------------------------------------------------------------------
(* Being the same message is mutual.                                       *)
LEMMA SameIsMutual ==
    ASSUME NEW m \in Note, NEW n \in Note
    PROVE  m \in Same(n) <=> n \in Same(m)
  BY DEF Same

(* The invariant holds initially: there is nothing yet.                    *)
LEMMA InitInv == Init => IInv
<1> SUFFICES ASSUME Init PROVE IInv
  OBVIOUS
<1>1. TypeOK
  BY NoteAssumption, BoundAssumption DEF Init, TypeOK, Places, Open
<1>2. ToldOnce
  <2>1. \A o \in Object : {r \in rows : Stored[r.note] = o} = {}
    BY DEF Init
  <2> QED BY <2>1, FS_EmptySet DEF Init, ToldOnce
<1>3. Announced /\ Hands /\ OneWriter /\ OnlyReceiversGetMail /\ GoneMeansSettled
  BY DEF Init, Announced, Hands, Owned, OneWriter, Open, OnlyReceiversGetMail,
         GoneMeansSettled
<1> QED BY <1>1, <1>2, <1>3 DEF IInv

(* A step that leaves the rows keeps what is said of them alone.           *)
LEMMA RowsInv ==
    ASSUME IInv, UNCHANGED mailVars,
           \A n \in announced : since[n] \subseteq since'[n]
    PROVE  ToldOnce' /\ OnlyReceiversGetMail'
  BY DEF IInv, TypeOK, Row, Announced, ToldOnce, OnlyReceiversGetMail, mailVars

(* Switching receiving on and off keeps the invariant.                     *)
LEMMA SwitchingInv == ASSUME IInv, Switching PROVE IInv'
<1> USE BoundAssumption DEF IInv, TypeOK, Announced, Hands, Owned, Open, OneWriter, Recorded,
                            GoneMeansSettled, awsVars, dbVars, mailVars, passVars, bounds
<1>1. PICK p \in Project, d \in Domain :
         SwitchOn(p, d) \/ SwitchedOn(p, d) \/ SwitchOnFails(p, d)
         \/ SwitchOff(p, d) \/ SwitchedOff(p, d)
  BY DEF Switching
<1>2. CASE SwitchOn(p, d) \/ SwitchOnFails(p, d) \/ SwitchOff(p, d)
  BY <1>1, <1>2, RowsInv DEF SwitchOn, SwitchOnFails, SwitchOff
<1>3. CASE SwitchedOn(p, d)
  BY <1>1, <1>3, RowsInv DEF SwitchedOn
<1>4. CASE SwitchedOff(p, d)
  BY <1>1, <1>4, RowsInv DEF SwitchedOff
<1> QED BY <1>1, <1>2, <1>3, <1>4

(* Mail that arrives or expires keeps it.                                  *)
LEMMA ArrivalsInv == ASSUME IInv, Arrivals PROVE IInv'
<1> USE BoundAssumption, NoteAssumption
    DEF IInv, TypeOK, Announced, Hands, Owned, Open, OneWriter, Recorded,
        GoneMeansSettled, awsVars, dbVars, mailVars, passVars, bounds
<1>1. ASSUME NEW n \in Note, Announce(n) PROVE IInv'
  BY <1>1, RowsInv DEF Announce
<1>2. ASSUME NEW o \in Object, Expire(o) PROVE IInv'
  BY <1>2, RowsInv DEF Expire
<1> QED BY <1>1, <1>2 DEF Arrivals

(* The commit of a row keeps it: no row is like the new one.               *)
LEMMA CommitInv == ASSUME IInv, NEW h \in Handler, Commit(h) PROVE IInv'
<1> DEFINE new == [note |-> note[h], project |-> owner[h][1], domain |-> owner[h][2]]
           old(o) == {r \in rows : Stored[r.note] = o}
<1>1. /\ note[h] \in Note /\ note[h] \in announced
      /\ owner[h] \in Project \X Domain
      /\ owner[h] = <<new.project, new.domain>>
      /\ owner[h] \in since[note[h]] /\ Contains(Candidates(note[h]), new.domain)
  BY DEF Commit, IInv, TypeOK, Hands, Owned, Open
<1>2. new \in Row /\ rows' = rows \cup {new} /\ rows \subseteq Row
  BY <1>1 DEF Commit, Row, IInv, TypeOK
<1>3. \A r \in rows : r.note \in Note /\ r.note \notin Same(note[h])
                      /\ note[h] \notin Same(r.note)
  BY <1>1, <1>2, SameIsMutual DEF Commit, IInv, OneWriter, Recorded, Open, Row
<1>4. told[Stored[note[h]]] = 0 /\ told'[Stored[note[h]]] = 1
  <2>1. old(Stored[note[h]]) = {}
    BY <1>1, <1>3 DEF Same
  <2>2. Stored[note[h]] \in Object
    BY <1>1, NoteAssumption
  <2> QED BY <2>1, <2>2, FS_EmptySet DEF Commit, IInv, TypeOK, ToldOnce
<1>5. ToldOnce'
  <2>1. \A r, s \in rows' : r.note \in Same(s.note) => r = s
    BY <1>2, <1>3 DEF IInv, ToldOnce
  <2>2. ASSUME NEW o \in Object
        PROVE  told'[o] = Cardinality({r \in rows' : Stored[r.note] = o})
    <3>1. CASE o = Stored[note[h]]
      <4>1. {r \in rows' : Stored[r.note] = o} = {new}
        BY <1>1, <1>2, <1>3, <3>1 DEF Same
      <4> QED BY <1>4, <3>1, <4>1, FS_Singleton
    <3>2. CASE o # Stored[note[h]]
      <4>1. {r \in rows' : Stored[r.note] = o} = old(o)
        BY <1>2, <3>2
      <4> QED BY <3>2, <4>1 DEF Commit, IInv, TypeOK, ToldOnce
    <3> QED BY <3>1, <3>2
  <2> QED BY <2>1, <2>2 DEF ToldOnce, Same
<1>6. TypeOK'
  BY <1>1, <1>2, <1>4, NoteAssumption
  DEF Commit, Go, IInv, TypeOK, Places, Open, awsVars, dbVars, bounds
<1>7. OnlyReceiversGetMail'
  <2>1. ASSUME NEW r \in rows'
        PROVE  /\ <<r.project, r.domain>> \in since[r.note]
               /\ Contains(Candidates(r.note), r.domain)
    <3>1. CASE r \in rows
      BY <3>1 DEF IInv, OnlyReceiversGetMail
    <3>2. CASE r = new
      BY <1>1, <3>2
    <3> QED BY <1>2, <3>1, <3>2
  <2> QED BY <2>1 DEF Commit, OnlyReceiversGetMail, dbVars
<1>8. Announced' /\ GoneMeansSettled'
  BY <1>1, <1>2 DEF Commit, IInv, Announced, GoneMeansSettled, Recorded, Same, awsVars, dbVars
<1>9. Hands'
  <2>1. Recorded(note[h])'
    BY <1>1, <1>2 DEF Commit, Recorded, Same
  <2>2. \A n \in Note : Recorded(n) => Recorded(n)'
    BY <1>2 DEF Recorded, Same
  <2> QED BY <1>1, <2>1, <2>2 DEF Commit, Go, IInv, TypeOK, Hands, Owned, Open, awsVars, dbVars
<1>10. OneWriter'
  BY <1>1, <1>2, SameIsMutual
  DEF Commit, Go, IInv, TypeOK, OneWriter, Hands, Owned, Open, Recorded, Same
<1> QED BY <1>5, <1>6, <1>7, <1>8, <1>9, <1>10 DEF IInv

(* So does every other step of a pass.                                     *)
LEMMA PassInv == ASSUME IInv, NEW h \in Handler, Pass(h) \/ Failing(h) PROVE IInv'
<1> USE BoundAssumption
    DEF IInv, TypeOK, Places, Announced, Hands, Owned, Open, OneWriter, Recorded,
        GoneMeansSettled, Go, OnToNext, Busy, awsVars, dbVars, mailVars, bounds
<1>1. CASE Poll(h) \/ EndPass(h) \/ AskRecorded(h) \/ Fetch(h) \/ RaiseReceived(h)
  BY <1>1, RowsInv DEF Poll, EndPass, AskRecorded, Fetch, RaiseReceived
<1>2. ASSUME NEW n \in Note, Receive(h, n) PROVE IInv'
  BY <1>2, RowsInv DEF Receive
<1>3. CASE Locate(h)
  <2>1. CASE Matches(h) = {}
    BY <1>3, <2>1, RowsInv DEF Locate
  <2>2. CASE Matches(h) # {}
    <3>1. PICK i \in Matches(h) : owner' = [owner EXCEPT ![h] = i]
      BY <1>3, <2>2 DEF Locate
    <3>2. i \in on /\ Contains(Candidates(note[h]), i[2])
      BY <3>1 DEF Matches
    <3>3. note[h] \in announced /\ i \in since[note[h]] /\ i \in Project \X Domain
      BY <1>3, <3>2 DEF Locate
    <3>4. /\ at' = [at EXCEPT ![h] = "asking"]
          /\ UNCHANGED <<awsVars, dbVars, mailVars, polled, note, refused, bounds>>
      BY <1>3, <2>2 DEF Locate
    <3> QED BY <3>1, <3>2, <3>3, <3>4, RowsInv
  <2> QED BY <2>1, <2>2
<1>4. CASE Insert(h)
  BY <1>4, RowsInv, SameIsMutual DEF Insert, Collides
<1>5. CASE Commit(h)
  BY <1>5, CommitInv
<1>6. CASE Acknowledge(h)
  BY <1>6, RowsInv DEF Acknowledge
<1>7. CASE LeaveOnQueue(h) \/ WorkerDies(h)
  BY <1>7, RowsInv DEF LeaveOnQueue, WorkerDies
<1> QED
  BY <1>1, <1>2, <1>3, <1>4, <1>5, <1>6, <1>7 DEF Pass, Handling, Failing

(* Every step keeps the invariant.                                         *)
LEMMA StepInv == IInv /\ [Next]_vars => IInv'
<1> SUFFICES ASSUME IInv, [Next]_vars PROVE IInv'
  OBVIOUS
<1>1. CASE UNCHANGED vars
  BY <1>1 DEF IInv, vars, TypeOK, Announced, Hands, OneWriter, ToldOnce, OnlyReceiversGetMail,
              GoneMeansSettled, Recorded
<1> QED BY <1>1, SwitchingInv, ArrivalsInv, PassInv DEF Next

(* IInv holds throughout every behaviour.                                  *)
THEOREM Invariance == Spec => []IInv
<1> QED BY InitInv, StepInv, PTL DEF Spec

-----------------------------------------------------------------------------
(* Every variable keeps its type.                                          *)
THEOREM TypeCorrect == Spec => []TypeOK
<1>1. IInv => TypeOK
  BY DEF IInv
<1> QED BY <1>1, Invariance, PTL

(* A message is recorded at most once and told of as often, whatever       *)
(* announces it and however passes overlap.                                *)
THEOREM RecordedAndToldOnce == Spec => []ToldOnce
<1>1. IInv => ToldOnce
  BY DEF IInv
<1> QED BY <1>1, Invariance, PTL

(* Whoever is shown a message received for one of its domains since it was *)
(* announced.                                                              *)
THEOREM MailReachesReceivers == Spec => []OnlyReceiversGetMail
<1>1. IInv => OnlyReceiversGetMail
  BY DEF IInv
<1> QED BY <1>1, Invariance, PTL

(* No failure or death of a pass removes an announcement.                  *)
THEOREM GoneIsSettled == Spec => []GoneMeansSettled
<1>1. IInv => GoneMeansSettled
  BY DEF IInv
<1> QED BY <1>1, Invariance, PTL

-----------------------------------------------------------------------------
(* The refinement of Inbox.                                                *)

(* What is refused, or went with the queue, was announced.                 *)
OnceAnnounced == refused \subseteq announced /\ lost \subseteq announced

(* So it stays.                                                            *)
LEMMA OnceInvariant == Spec => []OnceAnnounced
<1>1. Init => OnceAnnounced
  BY DEF Init, OnceAnnounced
<1>2. IInv /\ OnceAnnounced /\ [Next]_vars => OnceAnnounced'
  <2> SUFFICES ASSUME IInv, OnceAnnounced, [Next]_vars PROVE OnceAnnounced'
    OBVIOUS
  <2> USE DEF IInv, TypeOK, Announced, OnceAnnounced, awsVars, dbVars
  <2>1. CASE Switching
    BY <2>1 DEF Switching, SwitchOn, SwitchedOn, SwitchOnFails, SwitchOff, SwitchedOff
  <2>2. CASE Arrivals
    BY <2>2 DEF Arrivals, Announce, Expire
  <2>3. ASSUME NEW h \in Handler, Locate(h) PROVE OnceAnnounced'
    BY <2>3 DEF Locate, Hands
  <2>4. ASSUME NEW h \in Handler, Pass(h) \/ Failing(h), ~ Locate(h) PROVE OnceAnnounced'
    BY <2>4
    DEF Pass, Handling, Failing, Poll, EndPass, Receive, AskRecorded, Fetch, Insert,
        RaiseReceived, Commit, Acknowledge, LeaveOnQueue, WorkerDies
  <2>5. CASE UNCHANGED vars
    BY <2>5 DEF vars
  <2> QED BY <2>1, <2>2, <2>3, <2>4, <2>5 DEF Next
<1> QED BY <1>1, <1>2, Invariance, PTL DEF Spec

(* What Inbox sees of the queue, and the announcements it sees excused.    *)
PlaceOf == [n \in Note |-> IF n \in queue THEN "waiting"
                           ELSE IF n \in announced THEN "gone" ELSE "unsent"]
Excused == refused \cup lost \cup {n \in announced : Stored[n] \notin stored}

(* Whatever leaves those and the events alone is nothing to Inbox.         *)
LEMMA PromiseStutters ==
    ASSUME UNCHANGED <<PlaceOf, told, Excused>>
    PROVE  UNCHANGED Promise!vars
  BY DEF Promise!vars, PlaceOf, Excused

(* Recorded is recorded: an object with a row has been told of.            *)
LEMMA RecordedIsTold ==
    ASSUME IInv, NEW n \in Note
    PROVE  /\ Recorded(n) => told[Stored[n]] = 1
           /\ ~ Recorded(n) => told[Stored[n]] = 0
<1> DEFINE S == {r \in rows : Stored[r.note] = Stored[n]}
<1>1. Stored[n] \in Object /\ told[Stored[n]] = Cardinality(S)
  BY NoteAssumption DEF IInv, ToldOnce
<1>2. \A r \in rows : r.note \in Note
  BY DEF IInv, TypeOK, Row
<1>3. CASE Recorded(n)
  <2>1. PICK r \in rows : r.note \in Same(n)
    BY <1>3 DEF Recorded
  <2>2. r \in S
    BY <2>1, <1>2, NoteAssumption DEF Same
  <2>3. \A s \in S : s = r
    BY <2>2, <1>2 DEF IInv, ToldOnce, Same
  <2>4. S = {r}
    BY <2>2, <2>3
  <2> QED BY <1>1, <1>3, <2>4, FS_Singleton
<1>4. CASE ~ Recorded(n)
  <2>1. S = {}
    BY <1>4, <1>2 DEF Recorded, Same
  <2> QED BY <1>1, <1>4, <2>1, FS_EmptySet
<1> QED BY <1>3, <1>4

(* What is excused was sent, and is what has been excused if more is.      *)
LEMMA PromiseExcuses ==
    ASSUME IInv, OnceAnnounced, UNCHANGED <<PlaceOf, told>>,
           NEW some \in SUBSET announced, Excused' = Excused \cup some
    PROVE  Promise!Next
<1>1. some \in SUBSET Promise!Sent
  BY DEF Promise!Sent, IInv, TypeOK
<1>2. Promise!Excuse
  BY <1>1 DEF Promise!Excuse, PlaceOf, Excused
<1> QED BY <1>2 DEF Promise!Next

(* Switching is nothing to it, unless the queue goes.                      *)
LEMMA PromiseSwitching ==
    ASSUME IInv, OnceAnnounced, Switching
    PROVE  [Promise!Next]_(Promise!vars)
<1>1. PICK p \in Project, d \in Domain :
         SwitchOn(p, d) \/ SwitchedOn(p, d) \/ SwitchOnFails(p, d)
         \/ SwitchOff(p, d) \/ SwitchedOff(p, d)
  BY DEF Switching
<1>2. CASE SwitchOn(p, d) \/ SwitchedOn(p, d) \/ SwitchOnFails(p, d) \/ SwitchOff(p, d)
  <2>1. UNCHANGED <<queue, announced, told, refused, lost, stored>>
    BY <1>2 DEF SwitchOn, SwitchedOn, SwitchOnFails, SwitchOff, awsVars, mailVars
  <2> QED BY <2>1, PromiseStutters DEF PlaceOf, Excused
<1>3. CASE SwitchedOff(p, d) /\ names' # {}
  <2>1. UNCHANGED <<queue, announced, told, refused, lost, stored>>
    BY <1>3 DEF SwitchedOff, mailVars
  <2> QED BY <2>1, PromiseStutters DEF PlaceOf, Excused
<1>4. CASE SwitchedOff(p, d) /\ names' = {}
  <2>1. /\ queue' = {} /\ lost' = lost \cup queue
        /\ UNCHANGED <<announced, told, refused, stored>>
    BY <1>4 DEF SwitchedOff, mailVars
  <2>2. queue = Promise!Waiting
    BY DEF Promise!Waiting, IInv, TypeOK
  <2>3. PlaceOf' = [n \in Note |-> IF n \in queue THEN "gone" ELSE PlaceOf[n]]
    BY <2>1 DEF PlaceOf, IInv, Announced
  <2>4. Excused' = Excused \cup queue
    BY <2>1 DEF Excused
  <2>5. Promise!LoseQueue
    BY <2>1, <2>2, <2>3, <2>4 DEF Promise!LoseQueue, PlaceOf, Excused
  <2> QED BY <2>5 DEF Promise!Next
<1> QED BY <1>1, <1>2, <1>3, <1>4

(* An announcement sends a notice; an object that expires excuses those    *)
(* that announced it.                                                      *)
LEMMA PromiseArrivals ==
    ASSUME IInv, OnceAnnounced, Arrivals
    PROVE  Promise!Next
<1>1. ASSUME NEW n \in Note, Announce(n) PROVE Promise!Next
  <2>1. /\ n \notin announced /\ n \notin queue
        /\ announced' = announced \cup {n} /\ queue' = queue \cup {n}
        /\ stored' = stored \cup {Stored[n]}
        /\ UNCHANGED <<told, refused, lost>>
    BY <1>1 DEF Announce, mailVars, IInv, Announced
  <2>2. PlaceOf' = [PlaceOf EXCEPT ![n] = "waiting"] /\ PlaceOf[n] = "unsent"
    BY <2>1 DEF PlaceOf
  <2>3. \A m \in announced : Stored[m] \notin stored => Stored[m] # Stored[n]
    BY <2>1 DEF IInv, Announced, TypeOK
  <2>4. Excused' = Excused
    BY <2>1, <2>3 DEF Excused
  <2>5. Promise!Send(n)
    BY <2>1, <2>2, <2>4 DEF Promise!Send, PlaceOf, Excused
  <2> QED BY <2>5 DEF Promise!Next
<1>2. ASSUME NEW o \in Object, Expire(o) PROVE Promise!Next
  <2> DEFINE some == {n \in announced : Stored[n] = o}
  <2>1. /\ stored' = stored \ {o}
        /\ UNCHANGED <<queue, announced, told, refused, lost>>
    BY <1>2 DEF Expire, mailVars
  <2>2. Excused' = Excused \cup some /\ some \in SUBSET announced
    BY <2>1 DEF Excused
  <2>3. UNCHANGED <<PlaceOf, told>>
    BY <2>1 DEF PlaceOf
  <2> HIDE DEF some
  <2> QED BY <2>2, <2>3, PromiseExcuses
<1> QED BY <1>1, <1>2 DEF Arrivals

(* A pass refuses, records or removes, or does what Inbox does not see.    *)
LEMMA PromisePass ==
    ASSUME IInv, OnceAnnounced, NEW h \in Handler, Pass(h) \/ Failing(h)
    PROVE  [Promise!Next]_(Promise!vars)
<1>1. CASE Locate(h)
  <2>1. UNCHANGED <<queue, announced, told, lost, stored>>
    BY <1>1 DEF Locate, awsVars, mailVars
  <2>2. note[h] \in announced
    BY <1>1 DEF Locate, IInv, Hands
  <2>3. UNCHANGED PlaceOf
    BY <2>1 DEF PlaceOf
  <2>4. refused' = refused \cup {note[h]} \/ refused' = refused
    BY <1>1 DEF Locate
  <2>5. CASE refused' = refused \cup {note[h]}
    <3>1. Excused' = Excused \cup {note[h]} /\ {note[h]} \in SUBSET announced
      BY <2>1, <2>2, <2>5 DEF Excused
    <3> QED BY <2>1, <2>3, <3>1, PromiseExcuses
  <2>6. CASE refused' = refused
    <3>1. UNCHANGED Excused
      BY <2>1, <2>6 DEF Excused
    <3> QED BY <2>1, <2>3, <3>1, PromiseStutters
  <2> QED BY <2>4, <2>5, <2>6
<1>2. CASE Commit(h)
  <2>1. /\ note[h] \in Note /\ note[h] \in announced /\ ~ Recorded(note[h])
    BY <1>2 DEF Commit, IInv, TypeOK, Hands, OneWriter, Open
  <2>2. /\ told' = [told EXCEPT ![Stored[note[h]]] = @ + 1]
        /\ UNCHANGED <<queue, announced, refused, lost, stored>>
    BY <1>2 DEF Commit, awsVars
  <2>3. told[Stored[note[h]]] = 0
    BY <2>1, RecordedIsTold
  <2>4. told' = [told EXCEPT ![Stored[note[h]]] = 1]
    BY <2>2, <2>3
  <2>5. note[h] \in Promise!Sent
    BY <2>1 DEF Promise!Sent
  <2>6. UNCHANGED <<PlaceOf, Excused>>
    BY <2>2 DEF PlaceOf, Excused
  <2>7. Promise!RecordItem(note[h])
    BY <2>3, <2>4, <2>5, <2>6 DEF Promise!RecordItem, PlaceOf, Excused
  <2> QED BY <2>1, <2>7 DEF Promise!Next
<1>3. CASE Acknowledge(h)
  <2>1. /\ note[h] \in Note /\ note[h] \in announced
        /\ Recorded(note[h]) \/ note[h] \in Excused
    BY <1>3 DEF Acknowledge, IInv, TypeOK, Hands, Excused
  <2>2. /\ queue' = queue \ {note[h]}
        /\ UNCHANGED <<announced, told, refused, lost, stored>>
    BY <1>3 DEF Acknowledge, mailVars
  <2>3. Excused' = Excused
    BY <2>2 DEF Excused
  <2>4. CASE note[h] \in queue
    <3>1. PlaceOf' = [PlaceOf EXCEPT ![note[h]] = "gone"]
      BY <2>1, <2>2 DEF PlaceOf
    <3>2. note[h] \in Promise!Waiting
      BY <2>1, <2>4 DEF Promise!Waiting
    <3>3. told[Stored[note[h]]] = 1 \/ note[h] \in Excused
      BY <2>1, RecordedIsTold
    <3>4. Promise!Settled(note[h])
      BY <3>3 DEF Promise!Settled, Excused
    <3>5. Promise!Remove(note[h])
      BY <2>2, <2>3, <3>1, <3>2, <3>4 DEF Promise!Remove, PlaceOf, Excused
    <3> QED BY <2>1, <3>5 DEF Promise!Next, Promise!Remove
  <2>5. CASE note[h] \notin queue
    <3>1. UNCHANGED PlaceOf
      BY <2>2, <2>5 DEF PlaceOf
    <3> QED BY <2>2, <2>3, <3>1, PromiseStutters
  <2> QED BY <2>4, <2>5
<1>4. CASE ~ (Locate(h) \/ Commit(h) \/ Acknowledge(h))
  <2>1. UNCHANGED <<queue, announced, told, refused, lost, stored>>
    BY <1>4
    DEF Pass, Handling, Failing, Poll, EndPass, Receive, AskRecorded, Fetch, Insert,
        RaiseReceived, LeaveOnQueue, WorkerDies, awsVars, mailVars
  <2> QED BY <2>1, PromiseStutters DEF PlaceOf, Excused
<1> QED BY <1>1, <1>2, <1>3, <1>4

(* Inbound mail keeps the inbox's promise: whoever receives, whatever      *)
(* fails and however passes overlap, each of its behaviours is one of      *)
(* Inbox.                                                                  *)
THEOREM PromiseKept == Spec => KeepsPromise
<1>1. Init => Promise!Init
  BY DEF Init, Promise!Init
<1>2. IInv /\ OnceAnnounced /\ [Next]_vars => [Promise!Next]_(Promise!vars)
  <2> SUFFICES ASSUME IInv, OnceAnnounced, [Next]_vars PROVE [Promise!Next]_(Promise!vars)
    OBVIOUS
  <2>1. CASE UNCHANGED vars
    <3>1. UNCHANGED <<PlaceOf, told, Excused>>
      BY <2>1 DEF vars, PlaceOf, Excused
    <3> QED BY <3>1, PromiseStutters
  <2> QED BY <2>1, PromiseSwitching, PromiseArrivals, PromisePass DEF Next
<1> QED BY <1>1, <1>2, Invariance, OnceInvariant, PTL DEF Spec, KeepsPromise, Promise!Spec

-----------------------------------------------------------------------------
(* "Less than" is well founded on the naturals.                            *)
Less == {p \in Nat \X Nat : p[1] < p[2]}

(* So it has no descending chain.                                          *)
LEMMA LessIsWellFounded == IsWellFoundedOn(Less, Nat)
<1>1. IsWellFoundedOn(OpToRel(<, Nat), Nat)
  BY NatLessThanWellFounded
<1> QED BY <1>1 DEF OpToRel, Less

(* So a set of naturals has a least element, which is its minimum.         *)
LEMMA Least ==
    ASSUME NEW S, S \subseteq Nat, S # {} PROVE Min(S) \in S /\ \A y \in S : Min(S) <= y
<1>1. PICK x \in S : \A y \in S : ~ (<<y, x>> \in Less)
  BY LessIsWellFounded, WFMin
<1>2. ASSUME NEW y \in S PROVE x <= y
  <2>1. x \in Nat /\ y \in Nat /\ <<y, x>> \notin Less
    BY <1>1
  <2> QED BY <2>1 DEF Less
<1>3. \E z \in S : \A y \in S : z <= y
  BY <1>2
<1> QED BY <1>3 DEF Min

(* Induction up to n: what holds of zero, and of the next with each, holds *)
(* all the way.                                                            *)
LEMMA Upward ==
    ASSUME NEW n \in Nat, NEW P, 0 \in P, \A k \in 1..n : k - 1 \in P => k \in P
    PROVE  \A k \in 0..n : k \in P
<1> DEFINE Bad == {k \in 0..n : k \notin P}
           b == Min(Bad)
<1> SUFFICES ASSUME Bad # {} PROVE FALSE
  OBVIOUS
<1>1. Bad \subseteq Nat
  OBVIOUS
<1>2. b \in Bad /\ \A y \in Bad : b <= y
  <2> HIDE DEF Bad
  <2> QED BY <1>1, Least
<1> HIDE DEF b
<1>3. b \in 1..n /\ b - 1 \in 0..n /\ b - 1 < b
  BY <1>2
<1>4. b - 1 \in P
  BY <1>2, <1>3
<1> QED BY <1>2, <1>3, <1>4

(* What is made of the subsets of D, taking pick[s] of s and adding it to  *)
(* what is made of the rest.                                               *)
Made(it, D, pick, V, start, step) ==
    /\ it \in [SUBSET D -> V]
    /\ \A s \in SUBSET D :
           it[s] = IF s = {} THEN start ELSE step[<<it[s \ {pick[s]}], pick[s]>>]

(* Recursion over the subsets of a finite set that takes one element at a  *)
(* time, pick[s] of s, has a solution.                                     *)
LEMMA Recursion ==
    ASSUME NEW D, IsFiniteSet(D), NEW pick, \A s \in SUBSET D : s # {} => pick[s] \in s,
           NEW V, NEW start \in V, NEW step \in [V \X D -> V]
    PROVE  \E it : Made(it, D, pick, V, start, step)
<1> DEFINE Follows(it, s) ==
               it[s] = IF s = {} THEN start ELSE step[<<it[s \ {pick[s]}], pick[s]>>]
           Solves(it, n) == \A s \in SUBSET D : Cardinality(s) <= n => Follows(it, s)
           P == {n \in Nat : \E it \in [SUBSET D -> V] : Solves(it, n)}
           size == Cardinality(D)
<1>1. size \in Nat /\ \A s \in SUBSET D : /\ IsFiniteSet(s) /\ Cardinality(s) \in Nat
                                          /\ Cardinality(s) <= size
  BY FS_Subset, FS_CardinalityType
<1>2. 0 \in P
  <2> DEFINE it == [s \in SUBSET D |-> start]
  <2>1. ASSUME NEW s \in SUBSET D, Cardinality(s) <= 0 PROVE Follows(it, s)
    <3>1. s = {}
      BY <1>1, <2>1, FS_EmptySet
    <3> QED BY <3>1
  <2>2. it \in [SUBSET D -> V]
    OBVIOUS
  <2> HIDE DEF it, Follows
  <2> QED BY <2>1, <2>2
<1>3. ASSUME NEW n \in 1..size, n - 1 \in P PROVE n \in P
  <2>1. PICK it \in [SUBSET D -> V] : Solves(it, n - 1)
    <3> HIDE DEF Solves
    <3> QED BY <1>3
  <2> DEFINE Value(s) == IF s = {} THEN start ELSE step[<<it[s \ {pick[s]}], pick[s]>>]
             more == [s \in SUBSET D |-> Value(s)]
  <2>2. ASSUME NEW s \in SUBSET D, s # {}
        PROVE  /\ pick[s] \in D /\ s \ {pick[s]} \in SUBSET D
               /\ Cardinality(s \ {pick[s]}) = Cardinality(s) - 1
    <3>1. pick[s] \in s
      BY <2>2
    <3> QED BY <1>1, <3>1, FS_RemoveElement
  <2>3. more \in [SUBSET D -> V]
    <3>1. ASSUME NEW s \in SUBSET D PROVE Value(s) \in V
      <4>1. CASE s # {}
        <5>1. it[s \ {pick[s]}] \in V /\ pick[s] \in D
          BY <2>2, <4>1
        <5>2. <<it[s \ {pick[s]}], pick[s]>> \in V \X D
          BY <5>1
        <5> QED BY <4>1, <5>2
      <4> QED BY <4>1
    <3> HIDE DEF Value
    <3> QED BY <3>1
  <2>4. ASSUME NEW s \in SUBSET D, Cardinality(s) <= n - 1 PROVE more[s] = it[s]
    BY <2>1, <2>4
  <2>5. ASSUME NEW s \in SUBSET D, Cardinality(s) <= n PROVE Follows(more, s)
    <3>1. CASE s = {}
      BY <3>1
    <3>2. CASE s # {}
      <4>1. s \ {pick[s]} \in SUBSET D /\ Cardinality(s \ {pick[s]}) <= n - 1
        BY <1>1, <2>2, <2>5, <3>2
      <4>2. more[s \ {pick[s]}] = it[s \ {pick[s]}]
        BY <2>4, <4>1
      <4>3. more[s] = step[<<it[s \ {pick[s]}], pick[s]>>]
        BY <3>2
      <4> HIDE DEF more
      <4> QED BY <3>2, <4>2, <4>3
    <3> QED BY <3>1, <3>2
  <2> HIDE DEF more, Follows
  <2>6. Solves(more, n)
    BY <2>5
  <2>7. n \in Nat
    OBVIOUS
  <2> HIDE DEF Solves
  <2> QED BY <2>3, <2>6, <2>7
<1>4. size \in P
  <2> HIDE DEF P, size
  <2>1. \A k \in 0..size : k \in P
    BY <1>1, <1>2, <1>3, Upward
  <2> QED BY <1>1, <2>1
<1>5. PICK it \in [SUBSET D -> V] : Solves(it, size)
  <2> HIDE DEF Solves
  <2> QED BY <1>4
<1> HIDE DEF Follows, size
<1>6. \A s \in SUBSET D : Follows(it, s)
  BY <1>1, <1>5
<1> QED BY <1>6 DEF Follows, Made

(* The last of the first k is k, and those before it are the first k - 1.  *)
LEMMA LastIsMax ==
    ASSUME NEW k \in Nat \ {0}
    PROVE  Max(1..k) = k /\ (1..k) \ {k} = 1..(k - 1)
<1>1. k \in 1..k /\ \A y \in 1..k : k >= y
  OBVIOUS
<1>2. \A x \in 1..k : (\A y \in 1..k : x >= y) => x = k
  BY <1>1
<1> QED BY <1>1, <1>2 DEF Max

(* The subsets of an interval have a greatest element.                     *)
LEMMA MaxIsThere ==
    ASSUME NEW n \in Nat, NEW s \in SUBSET (1..n), s # {} PROVE Max(s) \in s
<1> DEFINE T == {n - y : y \in s}
<1>1. T \subseteq Nat /\ T # {}
  <2>1. \A y \in s : n - y \in Nat
    <3>1. \A y \in s : y \in 1..n
      OBVIOUS
    <3> QED BY <3>1
  <2> QED BY <2>1
<1>2. Min(T) \in T /\ \A t \in T : Min(T) <= t
  <2> HIDE DEF T
  <2> QED BY <1>1, Least
<1>3. PICK x \in s : Min(T) = n - x
  BY <1>2
<1>4. ASSUME NEW y \in s PROVE x >= y
  <2>1. n - y \in T
    OBVIOUS
  <2>2. n - x <= n - y
    BY <1>2, <1>3, <2>1
  <2>3. x \in 1..n /\ y \in 1..n
    OBVIOUS
  <2> HIDE DEF T
  <2> QED BY <2>2, <2>3
<1> QED BY <1>4 DEF Max

(* What FoldLeft makes of the places 1..n, and of the first k of them.     *)
Folded(it, n, V, start, step) ==
    /\ it \in [SUBSET (1..n) -> V]
    /\ \A s \in SUBSET (1..n) :
           it[s] = IF s = {} THEN start ELSE step[<<it[s \ {Max(s)}], Max(s)>>]
    /\ it[1..0] = start
    /\ \A k \in 1..n : it[1..k] = step[<<it[1..(k - 1)], k>>]

(* So a fold over the places 1..n, as FoldLeft computes it, goes from one  *)
(* value to the next: values[k] is what the first k places give.           *)
LEMMA FoldGoesOn ==
    ASSUME NEW n \in Nat, NEW V, NEW start \in V, NEW step \in [V \X (1..n) -> V]
    PROVE  \E it : Folded(it, n, V, start, step)
<1> DEFINE D == 1..n
           pick == [s \in SUBSET D |-> Max(s)]
<1>1. IsFiniteSet(D)
  BY FS_Interval
<1>2. (\A s \in SUBSET D : s # {} => pick[s] \in s) /\ step \in [V \X D -> V]
  BY MaxIsThere
<1>3. PICK it : Made(it, D, pick, V, start, step)
  <2> HIDE DEF D, pick
  <2> QED BY <1>1, <1>2, Recursion
<1>4. \A s \in SUBSET D :
          it[s] = IF s = {} THEN start ELSE step[<<it[s \ {Max(s)}], Max(s)>>]
  BY <1>3 DEF Made
<1>5. it[1..0] = start
  <2>1. 1..0 = {}
    OBVIOUS
  <2> QED BY <1>4, <2>1
<1>6. ASSUME NEW k \in 1..n PROVE it[1..k] = step[<<it[1..(k - 1)], k>>]
  <2>1. Max(1..k) = k /\ (1..k) \ {k} = 1..(k - 1)
    BY LastIsMax
  <2>2. 1..k \in SUBSET D /\ 1..k # {}
    OBVIOUS
  <2> QED BY <1>4, <2>1, <2>2
<1> QED BY <1>3, <1>4, <1>5, <1>6 DEF Folded, Made

-----------------------------------------------------------------------------
(* What a walk has, and what a message is.                                 *)
Walk == [leaves : Seq(Nat), truncated : BOOLEAN, within : Int]
Mails == Seq(Part)

(* A step of the walk gives a walk.                                        *)
LEMMA VisitType ==
    ASSUME NEW mail \in Mails, NEW walk \in Walk, NEW i \in 1..Len(mail)
    PROVE  Visit(mail, walk, i) \in Walk
<1>1. mail[i] \in Part
  BY DEF Mails
<1>2. mail[i].depth \in Int /\ i \in Nat
  BY <1>1 DEF Part
<1>3. Append(walk.leaves, i) \in Seq(Nat)
  BY <1>2 DEF Walk
<1>4. /\ [walk EXCEPT !.truncated = TRUE, !.within = mail[i].depth] \in Walk
      /\ [walk EXCEPT !.within = -1] \in Walk
  <2>1. \A x \in Int : [walk EXCEPT !.within = x] \in Walk
    BY DEF Walk
  <2>2. \A x \in Int : [walk EXCEPT !.truncated = TRUE, !.within = x] \in Walk
    BY DEF Walk
  <2>3. -1 \in Int
    OBVIOUS
  <2> QED BY <1>2, <2>1, <2>2, <2>3
<1>5. [leaves |-> Append(walk.leaves, i), within |-> mail[i].depth,
       truncated |-> walk.truncated \/ mail[i].kind = "multi"] \in Walk
  BY <1>2, <1>3 DEF Walk
<1> QED BY <1>4, <1>5 DEF Visit

(* The walk goes from part to part.                                        *)
LEMMA WalkGoesOn ==
    ASSUME NEW mail \in Mails
    PROVE  \E w \in [0..Len(mail) -> Walk] :
               /\ w[0] = Start
               /\ \A k \in 1..Len(mail) : w[k] = Visit(mail, w[k - 1], k)
               /\ Leaves(mail) = w[Len(mail)]
<1> DEFINE n == Len(mail)
           seq == [i \in DOMAIN mail |-> i]
           step == [p \in Walk \X (1..n) |-> Visit(mail, p[1], p[2])]
           Right(it) == it = [s \in SUBSET DOMAIN seq |->
                                 IF s = {} THEN Start
                                 ELSE LET x == Max(s) IN Visit(mail, it[s \ {x}], seq[x])]
           fold == CHOOSE it : Right(it)
<1>1. n \in Nat /\ DOMAIN mail = 1..n /\ DOMAIN seq = 1..n
  BY DEF Mails
<1>2. Start \in Walk
  BY DEF Start, Walk
<1>3. step \in [Walk \X (1..n) -> Walk]
  BY VisitType
<1>4. PICK it : Folded(it, n, Walk, Start, step)
  <2> HIDE DEF step, n
  <2> QED BY <1>1, <1>2, <1>3, FoldGoesOn
<1>5. Right(it)
  <2>1. ASSUME NEW s \in SUBSET (1..n)
        PROVE  it[s] = IF s = {} THEN Start
                       ELSE LET x == Max(s) IN Visit(mail, it[s \ {x}], seq[x])
    <3>1. CASE s # {}
      <4>1. Max(s) \in s
        BY <1>1, <3>1, MaxIsThere
      <4> DEFINE x == Max(s)
      <4>2. x \in 1..n /\ it[s \ {x}] \in Walk /\ seq[x] = x
        BY <1>1, <1>4, <4>1 DEF Folded
      <4> HIDE DEF x
      <4>3. step[<<it[s \ {x}], x>>] = Visit(mail, it[s \ {x}], x)
        BY <4>2
      <4>4. it[s] = step[<<it[s \ {x}], x>>]
        BY <1>4, <3>1 DEF x, Folded
      <4>5. it[s] = Visit(mail, it[s \ {x}], seq[x])
        BY <4>2, <4>3, <4>4
      <4> QED BY <3>1, <4>5 DEF x
    <3>2. CASE s = {}
      BY <1>4, <3>2 DEF Folded
    <3> QED BY <3>1, <3>2
  <2> QED BY <1>1, <1>4, <2>1 DEF Folded
<1>6. Right(fold)
  <2> HIDE DEF Right
  <2> QED BY <1>5
<1>7. Leaves(mail) = fold[DOMAIN seq]
  BY DEF Leaves, FoldLeft, MapThenFoldSet
<1> HIDE DEF fold
<1>8. fold[1..0] = Start
  BY <1>1, <1>6
<1>9. ASSUME NEW k \in 1..n PROVE fold[1..k] = Visit(mail, fold[1..(k - 1)], k)
  <2>1. Max(1..k) = k /\ (1..k) \ {k} = 1..(k - 1)
    BY LastIsMax
  <2>2. 1..k \in SUBSET DOMAIN seq /\ 1..k # {} /\ seq[k] = k
    BY <1>1
  <2> QED BY <1>6, <2>1, <2>2
<1> DEFINE w == [k \in 0..n |-> fold[1..k]]
<1>10. \A k \in 0..n : w[k] \in Walk
  <2> DEFINE P == {k \in 0..n : w[k] \in Walk}
  <2>1. 0 \in P
    BY <1>1, <1>2, <1>8
  <2>2. ASSUME NEW k \in 1..n, k - 1 \in P PROVE k \in P
    <3>1. w[k] = Visit(mail, w[k - 1], k)
      BY <1>9
    <3> HIDE DEF w
    <3> QED BY <1>1, <2>2, <3>1, VisitType
  <2> HIDE DEF P
  <2>3. \A k \in 0..n : k \in P
    BY <1>1, <2>1, <2>2, Upward
  <2> QED BY <2>3 DEF P
<1>11. /\ w \in [0..n -> Walk] /\ w[0] = Start
       /\ \A k \in 1..n : w[k] = Visit(mail, w[k - 1], k)
       /\ Leaves(mail) = w[n]
  BY <1>1, <1>7, <1>8, <1>9, <1>10
<1> HIDE DEF w, n
<1>12. \E f \in [0..n -> Walk] :
               /\ f[0] = Start
               /\ \A k \in 1..n : f[k] = Visit(mail, f[k - 1], k)
               /\ Leaves(mail) = f[n]
  BY <1>11
<1> QED BY <1>12 DEF n

(* What happens to the files at one leaf.                                  *)
Filing(leaves, roles, files, i) ==
    IF roles[i] = "attachment" THEN Append(files, leaves[i]) ELSE files

(* It gives files.                                                         *)
LEMMA FilingType ==
    ASSUME NEW leaves \in Seq(Nat), NEW roles, NEW files \in Seq(Nat), NEW i \in 1..Len(leaves)
    PROVE  Filing(leaves, roles, files, i) \in Seq(Nat)
  BY DEF Filing

(* The files are gathered from leaf to leaf.                               *)
LEMMA FilesGoOn ==
    ASSUME NEW leaves \in Seq(Nat), NEW roles
    PROVE  \E w \in [0..Len(leaves) -> Seq(Nat)] :
               /\ w[0] = <<>>
               /\ \A k \in 1..Len(leaves) : w[k] = Filing(leaves, roles, w[k - 1], k)
               /\ Files(leaves, roles) = w[Len(leaves)]
<1> DEFINE n == Len(leaves)
           seq == [i \in DOMAIN leaves |-> i]
           step == [p \in Seq(Nat) \X (1..n) |-> Filing(leaves, roles, p[1], p[2])]
           Right(it) == it = [s \in SUBSET DOMAIN seq |->
                                 IF s = {} THEN <<>>
                                 ELSE LET x == Max(s) IN Filing(leaves, roles, it[s \ {x}], seq[x])]
           fold == CHOOSE it : Right(it)
<1>1. n \in Nat /\ DOMAIN leaves = 1..n /\ DOMAIN seq = 1..n
  OBVIOUS
<1>2. <<>> \in Seq(Nat)
  OBVIOUS
<1>3. step \in [Seq(Nat) \X (1..n) -> Seq(Nat)]
  BY FilingType
<1>4. PICK it : Folded(it, n, Seq(Nat), <<>>, step)
  <2> HIDE DEF step, n
  <2> QED BY <1>1, <1>2, <1>3, FoldGoesOn
<1>5. Right(it)
  <2>1. ASSUME NEW s \in SUBSET (1..n)
        PROVE  it[s] = IF s = {} THEN <<>>
                       ELSE LET x == Max(s) IN Filing(leaves, roles, it[s \ {x}], seq[x])
    <3>1. CASE s # {}
      <4>1. Max(s) \in s
        BY <1>1, <3>1, MaxIsThere
      <4> DEFINE x == Max(s)
      <4>2. x \in 1..n /\ it[s \ {x}] \in Seq(Nat) /\ seq[x] = x
        BY <1>1, <1>4, <4>1 DEF Folded
      <4> HIDE DEF x
      <4>3. step[<<it[s \ {x}], x>>] = Filing(leaves, roles, it[s \ {x}], x)
        BY <4>2
      <4>4. it[s] = step[<<it[s \ {x}], x>>]
        BY <1>4, <3>1 DEF x, Folded
      <4>5. it[s] = Filing(leaves, roles, it[s \ {x}], seq[x])
        BY <4>2, <4>3, <4>4
      <4> QED BY <3>1, <4>5 DEF x
    <3>2. CASE s = {}
      BY <1>4, <3>2 DEF Folded
    <3> QED BY <3>1, <3>2
  <2> QED BY <1>1, <1>4, <2>1 DEF Folded
<1>6. Right(fold)
  <2> HIDE DEF Right
  <2> QED BY <1>5
<1>7. Files(leaves, roles) = fold[DOMAIN seq]
  BY DEF Files, Filing, FoldLeft, MapThenFoldSet
<1> HIDE DEF fold
<1>8. fold[1..0] = <<>>
  BY <1>1, <1>6
<1>9. ASSUME NEW k \in 1..n PROVE fold[1..k] = Filing(leaves, roles, fold[1..(k - 1)], k)
  <2>1. Max(1..k) = k /\ (1..k) \ {k} = 1..(k - 1)
    BY LastIsMax
  <2>2. 1..k \in SUBSET DOMAIN seq /\ 1..k # {} /\ seq[k] = k
    BY <1>1
  <2> QED BY <1>6, <2>1, <2>2
<1> DEFINE w == [k \in 0..n |-> fold[1..k]]
<1>10. \A k \in 0..n : w[k] \in Seq(Nat)
  <2> DEFINE P == {k \in 0..n : w[k] \in Seq(Nat)}
  <2>1. 0 \in P
    <3>1. w[0] = <<>> /\ 0 \in 0..n
      BY <1>1, <1>8
    <3> HIDE DEF w
    <3>2. w[0] \in Seq(Nat)
      BY <1>2, <3>1
    <3> QED BY <3>1, <3>2
  <2>2. ASSUME NEW k \in 1..n, k - 1 \in P PROVE k \in P
    <3>1. w[k] = Filing(leaves, roles, w[k - 1], k)
      BY <1>9
    <3> HIDE DEF w
    <3> QED BY <1>1, <2>2, <3>1, FilingType
  <2> HIDE DEF P
  <2>3. \A k \in 0..n : k \in P
    BY <1>1, <2>1, <2>2, Upward
  <2> QED BY <2>3 DEF P
<1>11. /\ w \in [0..n -> Seq(Nat)] /\ w[0] = <<>>
       /\ \A k \in 1..n : w[k] = Filing(leaves, roles, w[k - 1], k)
       /\ Files(leaves, roles) = w[n]
  BY <1>1, <1>7, <1>8, <1>9, <1>10
<1> HIDE DEF w, n
<1>12. \E f \in [0..n -> Seq(Nat)] :
               /\ f[0] = <<>>
               /\ \A k \in 1..n : f[k] = Filing(leaves, roles, f[k - 1], k)
               /\ Files(leaves, roles) = f[n]
  BY <1>11
<1> QED BY <1>12 DEF n

(* What an attachment may be declared.                                     *)
Attachable == {"plain", "html", "other", "message", "multi"}

(* The kind of part that one comes to be.                                  *)
KindIn(kind) == IF kind = "multi" THEN "hollow" ELSE kind

(* What a message with attachments begins with, and one attachment more.   *)
Beginning(o) == <<At(0, "multi", FALSE)>> \o Bodies(o, 1)
Adding(o, mail, i) == mail \o AttachedAs(o.attachments[i])

(* A few parts in a row.                                                   *)
LEMMA FewParts ==
    ASSUME NEW a \in Part
    PROVE  /\ <<a>> \in Mails /\ Len(<<a>>) = 1 /\ <<a>>[1] = a
           /\ \A b \in Part : <<a, b>> \in Mails /\ Len(<<a, b>>) = 2
                              /\ <<a, b>>[1] = a /\ <<a, b>>[2] = b
           /\ \A b \in Part, c \in Part :
                  /\ <<a, b, c>> \in Mails /\ Len(<<a, b, c>>) = 3
                  /\ <<a, b, c>>[1] = a /\ <<a, b, c>>[2] = b /\ <<a, b, c>>[3] = c
  BY DEF Mails

(* The parts that messages are built of.                                   *)
LEMMA AtIsPart ==
    ASSUME NEW depth \in Nat, NEW kind \in Kinds
    PROVE  At(depth, kind, TRUE) \in Part /\ At(depth, kind, FALSE) \in Part
  BY DEF At, Part

(* The parts of an attachment.                                             *)
LEMMA AttachedType ==
    ASSUME NEW kind \in Attachable
    PROVE  AttachedAs(kind) \in Mails
<1>1. /\ At(1, "message", TRUE) \in Part /\ At(2, "plain", FALSE) \in Part
      /\ At(1, "hollow", TRUE) \in Part
  BY AtIsPart DEF Kinds, Whole, Texts
<1>2. CASE kind = "message"
  BY <1>1, <1>2, FewParts DEF AttachedAs
<1>3. CASE kind = "multi"
  BY <1>1, <1>3, FewParts DEF AttachedAs
<1>4. CASE kind \notin {"message", "multi"}
  <2>1. kind \in Kinds
    BY <1>4 DEF Attachable, Kinds, Whole, Texts
  <2>2. At(1, kind, TRUE) \in Part
    BY <2>1, AtIsPart
  <2>3. AttachedAs(kind) = <<At(1, kind, TRUE)>>
    BY <1>4 DEF AttachedAs
  <2> QED BY <2>2, <2>3, FewParts
<1> QED BY <1>2, <1>3, <1>4

(* The parts that the bodies are.                                          *)
LEMMA BodiesType ==
    ASSUME NEW o, NEW depth \in Nat
    PROVE  Bodies(o, depth) \in Mails
<1>1. /\ At(depth, "multi", FALSE) \in Part /\ At(depth + 1, "plain", FALSE) \in Part
      /\ At(depth + 1, "html", FALSE) \in Part /\ At(depth, "plain", FALSE) \in Part
      /\ At(depth, "html", FALSE) \in Part
  <2>1. "plain" \in Kinds /\ "html" \in Kinds /\ "multi" \in Kinds /\ depth + 1 \in Nat
    BY DEF Kinds, Whole, Texts
  <2> QED BY <2>1, AtIsPart
<1>2. CASE o.plain /\ o.html
  BY <1>1, <1>2, FewParts DEF Bodies
<1>3. CASE ~(o.plain /\ o.html)
  <2> DEFINE kind == IF o.plain THEN "plain" ELSE "html"
  <2>1. Bodies(o, depth) = <<At(depth, kind, FALSE)>>
    BY <1>3 DEF Bodies
  <2>2. kind \in Kinds
    BY DEF Kinds, Whole, Texts
  <2> HIDE DEF kind
  <2>3. At(depth, kind, FALSE) \in Part
    BY <2>2, AtIsPart
  <2> QED BY <2>1, <2>3, FewParts
<1> QED BY <1>2, <1>3

(* What is built is a message.                                             *)
LEMMA AddingType ==
    ASSUME NEW o, o.attachments \in Seq(Attachable)
    PROVE  /\ Beginning(o) \in Mails
           /\ \A mail \in Mails, i \in 1..Len(o.attachments) : Adding(o, mail, i) \in Mails
<1>1. Beginning(o) \in Mails
  <2>1. Bodies(o, 1) \in Mails
    BY BodiesType
  <2> DEFINE root == <<At(0, "multi", FALSE)>>
             bodies == Bodies(o, 1)
  <2>2. root \in Mails
    <3>1. At(0, "multi", FALSE) \in Part
      BY AtIsPart DEF Kinds
    <3> QED BY <3>1, FewParts
  <2>3. Beginning(o) = root \o bodies
    BY DEF Beginning
  <2> HIDE DEF root, bodies
  <2> QED BY <2>1, <2>2, <2>3 DEF Mails, bodies
<1>2. ASSUME NEW mail \in Mails, NEW i \in 1..Len(o.attachments) PROVE Adding(o, mail, i) \in Mails
  <2>1. o.attachments[i] \in Attachable
    OBVIOUS
  <2>2. AttachedAs(o.attachments[i]) \in Mails
    BY <2>1, AttachedType
  <2> QED BY <2>2 DEF Adding, Mails
<1> QED BY <1>1, <1>2

(* A message is built from attachment to attachment.                       *)
LEMMA BuildGoesOn ==
    ASSUME NEW o, o.attachments \in Seq(Attachable), o.attachments # <<>>
    PROVE  \E w \in [0..Len(o.attachments) -> Mails] :
               /\ w[0] = Beginning(o)
               /\ \A k \in 1..Len(o.attachments) : w[k] = Adding(o, w[k - 1], k)
               /\ Build(o) = w[Len(o.attachments)]
<1> DEFINE n == Len(o.attachments)
           seq == o.attachments
           step == [p \in Mails \X (1..n) |-> Adding(o, p[1], p[2])]
           Right(it) == it = [s \in SUBSET DOMAIN seq |->
                                 IF s = {} THEN Beginning(o)
                                 ELSE LET x == Max(s) IN it[s \ {x}] \o AttachedAs(seq[x])]
           fold == CHOOSE it : Right(it)
<1>1. n \in Nat /\ DOMAIN seq = 1..n
  OBVIOUS
<1>2. Beginning(o) \in Mails
  BY AddingType
<1>3. step \in [Mails \X (1..n) -> Mails]
  BY AddingType
<1>4. PICK it : Folded(it, n, Mails, Beginning(o), step)
  <2> HIDE DEF step, n
  <2> QED BY <1>1, <1>2, <1>3, FoldGoesOn
<1>5. Right(it)
  <2>1. ASSUME NEW s \in SUBSET (1..n)
        PROVE  it[s] = IF s = {} THEN Beginning(o)
                       ELSE LET x == Max(s) IN it[s \ {x}] \o AttachedAs(seq[x])
    <3>1. CASE s # {}
      <4>1. Max(s) \in s
        BY <1>1, <3>1, MaxIsThere
      <4> DEFINE x == Max(s)
      <4>2. x \in 1..n /\ it[s \ {x}] \in Mails 
        BY <1>1, <1>4, <4>1 DEF Folded
      <4> HIDE DEF x
      <4>3. step[<<it[s \ {x}], x>>] = Adding(o, it[s \ {x}], x)
        BY <4>2
      <4>4. it[s] = step[<<it[s \ {x}], x>>]
        BY <1>4, <3>1 DEF x, Folded
      <4>5. it[s] = it[s \ {x}] \o AttachedAs(seq[x])
        BY <4>2, <4>3, <4>4 DEF Adding
      <4> QED BY <3>1, <4>5 DEF x
    <3>2. CASE s = {}
      BY <1>4, <3>2 DEF Folded
    <3> QED BY <3>1, <3>2
  <2> QED BY <1>1, <1>4, <2>1 DEF Folded
<1>6. Right(fold)
  <2> HIDE DEF Right
  <2> QED BY <1>5
<1>7. Build(o) = fold[DOMAIN seq]
  BY DEF Build, Beginning, FoldLeft, MapThenFoldSet
<1> HIDE DEF fold
<1>8. fold[1..0] = Beginning(o)
  BY <1>1, <1>6
<1>9. ASSUME NEW k \in 1..n PROVE fold[1..k] = Adding(o, fold[1..(k - 1)], k)
  <2>1. Max(1..k) = k /\ (1..k) \ {k} = 1..(k - 1)
    BY LastIsMax
  <2>2. 1..k \in SUBSET DOMAIN seq /\ 1..k # {}
    <3>1. \A x \in 1..k : x \in 1..n
      BY <1>1
    <3>2. k \in 1..k
      BY <1>1
    <3> QED BY <1>1, <3>1, <3>2
  <2> QED BY <1>6, <2>1, <2>2 DEF Adding
<1> DEFINE w == [k \in 0..n |-> fold[1..k]]
<1>10. \A k \in 0..n : w[k] \in Mails
  <2> DEFINE P == {k \in 0..n : w[k] \in Mails}
  <2>1. 0 \in P
    BY <1>1, <1>2, <1>8
  <2>2. ASSUME NEW k \in 1..n, k - 1 \in P PROVE k \in P
    <3>1. w[k] = Adding(o, w[k - 1], k)
      BY <1>9
    <3> HIDE DEF w
    <3> QED BY <1>1, <2>2, <3>1, AddingType
  <2> HIDE DEF P
  <2>3. \A k \in 0..n : k \in P
    BY <1>1, <2>1, <2>2, Upward
  <2> QED BY <2>3 DEF P
<1> HIDE DEF n
<1>11. /\ w \in [0..n -> Mails] /\ w[0] = Beginning(o)
       /\ \A k \in 1..n : w[k] = Adding(o, w[k - 1], k)
       /\ Build(o) = w[n]
  BY <1>1, <1>7, <1>8, <1>9, <1>10
<1> HIDE DEF w, n
<1>12. \E f \in [0..n -> Mails] :
               /\ f[0] = Beginning(o)
               /\ \A k \in 1..n : f[k] = Adding(o, f[k - 1], k)
               /\ Build(o) = f[n]
  BY <1>11
<1> QED BY <1>12 DEF n

-----------------------------------------------------------------------------
(* What the parts of a message are.                                        *)
LEMMA PartsOf ==
    ASSUME NEW mail \in Mails
    PROVE  /\ Len(mail) \in Nat /\ DOMAIN mail = 1..Len(mail)
           /\ \A n \in 1..Len(mail) : /\ mail[n] \in Part /\ mail[n].depth \in Nat
                                      /\ mail[n].kind \in Kinds /\ mail[n].filed \in BOOLEAN
<1>1. Len(mail) \in Nat /\ DOMAIN mail = 1..Len(mail) /\ \A n \in 1..Len(mail) : mail[n] \in Part
  BY DEF Mails
<1>2. \A part \in Part : part.depth \in Nat /\ part.kind \in Kinds /\ part.filed \in BOOLEAN
  BY DEF Part
<1> QED BY <1>1, <1>2

(* Between a part and one further on there is one that is not beneath it.  *)
Left(mail, i, k) == \E n \in (i + 1)..k : mail[n].depth <= mail[i].depth

(* Whatever the message: the leaves are in order and below the cap, none   *)
(* is beneath another, and the walk knows when it is out of each.          *)
Walked(mail, walk, k) ==
    /\ walk \in Walk
    /\ walk.within >= -1
    /\ Len(walk.leaves) <= MaxParts
    /\ \A x \in 1..Len(walk.leaves) :
           /\ walk.leaves[x] \in 1..k
           /\ \/ /\ walk.within = mail[walk.leaves[x]].depth
                 /\ \A n \in (walk.leaves[x] + 1)..k : mail[n].depth > mail[walk.leaves[x]].depth
              \/ Left(mail, walk.leaves[x], k)
    /\ \A x, y \in 1..Len(walk.leaves) :
           x < y => /\ walk.leaves[x] < walk.leaves[y]
                    /\ Left(mail, walk.leaves[x], walk.leaves[y])

(* It stays so further on.                                                 *)
LEMMA LeftStays ==
    ASSUME NEW mail, NEW i \in Nat, NEW k \in Nat, NEW l \in Nat, k <= l, Left(mail, i, k)
    PROVE  Left(mail, i, l)
<1>1. PICK n \in (i + 1)..k : mail[n].depth <= mail[i].depth
  BY DEF Left
<1>2. n \in (i + 1)..l
  OBVIOUS
<1> QED BY <1>1, <1>2 DEF Left

(* One more part leaves that so.                                           *)
LEMMA WalkedOn ==
    ASSUME NEW mail \in Mails, NEW k \in 1..Len(mail), NEW walk, Walked(mail, walk, k - 1)
    PROVE  Walked(mail, Visit(mail, walk, k), k)
<1> DEFINE next == Visit(mail, walk, k)
           leaves == walk.leaves
<1>0. next \in Walk
  BY VisitType DEF Walked
<1>1. \A n \in 1..Len(mail) : mail[n].depth \in Nat
  BY PartsOf
<1>2. /\ walk \in Walk /\ walk.within >= -1 /\ Len(leaves) <= MaxParts /\ leaves \in Seq(Nat)
      /\ walk.within \in Int
  BY DEF Walked, Walk
<1>3. CASE walk.within >= 0 /\ mail[k].depth > walk.within
  <2>1. next = walk
    BY <1>3 DEF Visit
  <2>2. ASSUME NEW x \in 1..Len(leaves)
        PROVE  /\ leaves[x] \in 1..k
               /\ \/ /\ walk.within = mail[leaves[x]].depth
                     /\ \A n \in (leaves[x] + 1)..k : mail[n].depth > mail[leaves[x]].depth
                  \/ Left(mail, leaves[x], k)
    <3>1. leaves[x] \in 1..(k - 1)
      BY DEF Walked
    <3>2. CASE Left(mail, leaves[x], k - 1)
      BY <3>1, <3>2, LeftStays
    <3>3. CASE /\ walk.within = mail[leaves[x]].depth
               /\ \A n \in (leaves[x] + 1)..(k - 1) : mail[n].depth > mail[leaves[x]].depth
      <4>1. \A n \in (leaves[x] + 1)..k : n \in (leaves[x] + 1)..(k - 1) \/ n = k
        BY <3>1
      <4> QED BY <1>3, <3>1, <3>3, <4>1
    <3> QED BY <3>1, <3>2, <3>3 DEF Walked
  <2> QED BY <1>0, <2>1, <2>2 DEF Walked
<1>4. CASE ~ (walk.within >= 0 /\ mail[k].depth > walk.within)
  <2>1. ASSUME NEW x \in 1..Len(leaves)
        PROVE  leaves[x] \in 1..(k - 1) /\ Left(mail, leaves[x], k)
    <3>1. leaves[x] \in 1..(k - 1)
      BY DEF Walked
    <3>2. CASE Left(mail, leaves[x], k - 1)
      BY <3>1, <3>2, LeftStays
    <3>3. CASE walk.within = mail[leaves[x]].depth
      <4>1. k \in (leaves[x] + 1)..k /\ mail[k].depth <= mail[leaves[x]].depth
        BY <1>1, <1>4, <3>1, <3>3
      <4> QED BY <3>1, <4>1 DEF Left
    <3> QED BY <3>1, <3>2, <3>3 DEF Walked
  <2>2. CASE next.leaves = leaves /\ next.within >= -1
    BY <1>0, <1>2, <2>1, <2>2 DEF Walked
  <2>3. CASE /\ next.leaves = Append(leaves, k) /\ next.within = mail[k].depth
             /\ Len(leaves) < MaxParts
    <3>1. /\ Len(next.leaves) = Len(leaves) + 1
          /\ \A x \in 1..Len(leaves) : next.leaves[x] = leaves[x]
          /\ next.leaves[Len(leaves) + 1] = k
      BY <1>2, <2>3
    <3>2. Len(next.leaves) <= MaxParts /\ next.within >= -1
      BY <1>1, <1>2, <2>3, <3>1, CapAssumption
    <3>3. ASSUME NEW x \in 1..Len(next.leaves)
          PROVE  /\ next.leaves[x] \in 1..k
                 /\ \/ /\ next.within = mail[next.leaves[x]].depth
                       /\ \A n \in (next.leaves[x] + 1)..k :
                              mail[n].depth > mail[next.leaves[x]].depth
                    \/ Left(mail, next.leaves[x], k)
      <4>1. x \in 1..Len(leaves) \/ x = Len(leaves) + 1
        BY <1>2, <3>1
      <4> QED BY <2>1, <2>3, <3>1, <4>1
    <3>4. ASSUME NEW x \in 1..Len(next.leaves), NEW y \in 1..Len(next.leaves), x < y
          PROVE  /\ next.leaves[x] < next.leaves[y]
                 /\ Left(mail, next.leaves[x], next.leaves[y])
      <4>1. x \in 1..Len(leaves) /\ (y \in 1..Len(leaves) \/ y = Len(leaves) + 1)
        BY <1>2, <3>1, <3>4
      <4>2. CASE y \in 1..Len(leaves)
        BY <3>1, <3>4, <4>1, <4>2 DEF Walked
      <4>3. CASE y = Len(leaves) + 1
        BY <2>1, <3>1, <4>1, <4>3
      <4> QED BY <4>1, <4>2, <4>3
    <3> QED BY <1>0, <3>2, <3>3, <3>4 DEF Walked
  <2>4. CASE Len(leaves) >= MaxParts
    <3>1. next = [walk EXCEPT !.truncated = TRUE, !.within = mail[k].depth]
      BY <1>4, <2>4 DEF Visit
    <3>2. next.leaves = leaves /\ next.within = mail[k].depth
      BY <1>2, <3>1 DEF Walk
    <3> QED BY <1>1, <2>2, <3>2
  <2>5. CASE Len(leaves) < MaxParts /\ mail[k].kind = "multi" /\ mail[k].depth < MaxDepth
    <3>1. next = [walk EXCEPT !.within = -1]
      BY <1>2, <1>4, <2>5, CapAssumption DEF Visit
    <3>2. next.leaves = leaves /\ next.within = -1
      BY <1>2, <3>1 DEF Walk
    <3> QED BY <2>2, <3>2
  <2>6. CASE Len(leaves) < MaxParts /\ ~ (mail[k].kind = "multi" /\ mail[k].depth < MaxDepth)
    <3>1. next = [leaves |-> Append(walk.leaves, k), within |-> mail[k].depth,
                  truncated |-> walk.truncated \/ mail[k].kind = "multi"]
      BY <1>2, <1>4, <2>6, CapAssumption DEF Visit
    <3> QED BY <2>3, <2>6, <3>1
  <2> QED BY <1>2, <2>4, <2>5, <2>6, CapAssumption
<1> QED BY <1>3, <1>4

(* What is beneath no message and is not a multipart is to be a leaf.      *)
Apart(mail, i) == \A j \in 1..Len(mail) : mail[j].kind = "message" => i \notin Beneath(mail, j)

(* How a message splits: a part is deeper than the one before it only if   *)
(* that is a message or a multipart.                                       *)
Splits(mail) ==
    \A n \in 1..Len(mail) :
        n > 1 => \/ mail[n].depth <= mail[n - 1].depth
                 \/ mail[n - 1].kind \in {"message", "multi"}

(* A part that the walk has taken as a leaf.                               *)
IsLeaf(walk, i) == \E x \in 1..Len(walk.leaves) : walk.leaves[x] = i

(* Until something is left out, the leaves so far are the parts so far     *)
(* that are to be leaves, and the walk is within the last one, or after a  *)
(* multipart that is in no message.                                        *)
Complete(mail, walk, k) ==
    ~walk.truncated =>
        /\ \A i \in 1..k : IsLeaf(walk, i) <=> mail[i].kind # "multi" /\ Apart(mail, i)
        /\ walk.within >= 0 =>
               \E m \in 1..k : /\ IsLeaf(walk, m) /\ walk.within = mail[m].depth
                               /\ \A n \in (m + 1)..k : mail[n].depth > mail[m].depth
        /\ walk.within = -1 => k = 0 \/ (mail[k].kind = "multi" /\ Apart(mail, k))

(* One more part leaves that so, if the message splits.                    *)
LEMMA CompleteOn ==
    ASSUME NEW mail \in Mails, Splits(mail), NEW k \in 1..Len(mail), NEW walk,
           Walked(mail, walk, k - 1), Complete(mail, walk, k - 1)
    PROVE  Complete(mail, Visit(mail, walk, k), k)
<1> DEFINE next == Visit(mail, walk, k)
           leaves == walk.leaves
<1>0. next \in Walk
  BY VisitType DEF Walked
<1> SUFFICES ASSUME ~next.truncated PROVE Complete(mail, next, k)
  BY DEF Complete
<1>1. /\ \A n \in 1..Len(mail) : mail[n].depth \in Nat
      /\ DOMAIN mail = 1..Len(mail) /\ Len(mail) \in Nat
  BY PartsOf
<1>2. /\ walk \in Walk /\ walk.within >= -1 /\ leaves \in Seq(Nat)
      /\ walk.within \in Int
      /\ \A x \in 1..Len(leaves) : leaves[x] \in 1..(k - 1)
  BY DEF Walked, Walk
<1>3. CASE walk.within >= 0 /\ mail[k].depth > walk.within
  <2>1. next = walk
    BY <1>3 DEF Visit
  <2>2. PICK m \in 1..(k - 1) : /\ IsLeaf(walk, m) /\ walk.within = mail[m].depth
                                /\ \A n \in (m + 1)..(k - 1) : mail[n].depth > mail[m].depth
    BY <1>3, <2>1 DEF Complete
  <2>3. \A n \in (m + 1)..k : mail[n].depth > mail[m].depth
    <3>1. \A n \in (m + 1)..k : n \in (m + 1)..(k - 1) \/ n = k
      OBVIOUS
    <3> QED BY <1>3, <2>2, <3>1
  <2>4. k \in Beneath(mail, m)
    BY <1>1, <2>3 DEF Beneath
  <2>5. mail[m].kind = "message"
    <3>1. mail[m].kind # "multi"
      BY <2>1, <2>2 DEF Complete
    <3>2. m + 1 \in (m + 1)..k /\ m + 1 \in 1..Len(mail) /\ m + 1 > 1 /\ (m + 1) - 1 = m
      BY <1>1
    <3>3. mail[m + 1].depth > mail[m].depth /\ m \in 1..Len(mail)
      BY <1>1, <2>3, <3>2
    <3>4. ~ (mail[m + 1].depth <= mail[m].depth)
      BY <1>1, <3>2, <3>3
    <3>5. mail[m].kind \in {"message", "multi"}
      BY <3>2, <3>4 DEF Splits
    <3> QED BY <3>1, <3>5
  <2>6. ~Apart(mail, k) /\ ~IsLeaf(walk, k)
    <3>1. m \in 1..Len(mail)
      BY <1>1
    <3>2. \A x \in 1..Len(leaves) : leaves[x] # k
      BY <1>2
    <3> QED BY <2>4, <2>5, <3>1, <3>2 DEF Apart, IsLeaf
  <2>7. \A i \in 1..k : IsLeaf(walk, i) <=> mail[i].kind # "multi" /\ Apart(mail, i)
    <3>1. \A i \in 1..k : i \in 1..(k - 1) \/ i = k
      OBVIOUS
    <3> QED BY <2>1, <2>6, <3>1 DEF Complete
  <2>8. m \in 1..k
    OBVIOUS
  <2> QED BY <1>3, <2>1, <2>2, <2>3, <2>7, <2>8 DEF Complete
<1>4. CASE ~ (walk.within >= 0 /\ mail[k].depth > walk.within)
  <2>1. Len(leaves) < MaxParts
    <3> SUFFICES ASSUME Len(leaves) >= MaxParts PROVE FALSE
      BY <1>2, CapAssumption
    <3>1. next = [walk EXCEPT !.truncated = TRUE, !.within = mail[k].depth]
      BY <1>4 DEF Visit
    <3>2. next.truncated
      BY <1>2, <3>1 DEF Walk
    <3> QED BY <3>2
  <2>2. ~walk.truncated
    <3>1. CASE mail[k].kind = "multi" /\ mail[k].depth < MaxDepth
      <4>1. next = [walk EXCEPT !.within = -1]
        BY <1>2, <1>4, <2>1, <3>1, CapAssumption DEF Visit
      <4> QED BY <1>2, <4>1 DEF Walk
    <3>2. CASE ~ (mail[k].kind = "multi" /\ mail[k].depth < MaxDepth)
      <4>1. next = [leaves |-> Append(walk.leaves, k), within |-> mail[k].depth,
                    truncated |-> walk.truncated \/ mail[k].kind = "multi"]
        BY <1>2, <1>4, <2>1, <3>2, CapAssumption DEF Visit
      <4> DEFINE said == walk.truncated \/ mail[k].kind = "multi"
      <4>2. next.truncated = said
        <5> HIDE DEF said, next
        <5>1. next = [leaves |-> Append(walk.leaves, k), within |-> mail[k].depth,
                      truncated |-> said]
          BY <4>1 DEF said
        <5> QED BY <5>1
      <4> QED BY <4>2
    <3> QED BY <3>1, <3>2
  <2>3. Apart(mail, k)
    <3> SUFFICES ASSUME NEW j \in 1..Len(mail), mail[j].kind = "message", k \in Beneath(mail, j)
                 PROVE  FALSE
      BY DEF Apart
    <3>1. /\ j < k /\ k > j
          /\ \A n \in (j + 1)..k : mail[n].depth > mail[j].depth
      BY DEF Beneath
    <3>2. mail[k].depth > mail[j].depth
      BY <3>1
    <3>3. ASSUME NEW m \in (j + 1)..(k - 1) PROVE m \in Beneath(mail, j)
      <4>1. m \in DOMAIN mail /\ m > j
        BY <1>1
      <4>2. \A n \in (j + 1)..m : n \in (j + 1)..k
        OBVIOUS
      <4> QED BY <3>1, <4>1, <4>2 DEF Beneath
    <3>4. CASE walk.within >= 0
      <4>1. PICK m \in 1..(k - 1) : /\ IsLeaf(walk, m) /\ walk.within = mail[m].depth
                                    /\ \A n \in (m + 1)..(k - 1) : mail[n].depth > mail[m].depth
        BY <2>2, <3>4 DEF Complete
      <4>2. mail[k].depth <= mail[m].depth
        BY <1>1, <1>2, <1>4, <3>4, <4>1
      <4>3. Apart(mail, m)
        BY <2>2, <4>1 DEF Complete
      <4>4. CASE j < m
        <5>1. m \in (j + 1)..(k - 1)
          BY <4>4
        <5>2. m \in Beneath(mail, j)
          BY <3>3, <5>1
        <5> QED BY <4>3, <5>2 DEF Apart
      <4>5. CASE j >= m
        <5>1. j = m \/ j \in (m + 1)..(k - 1)
          BY <3>1, <4>5
        <5>2. mail[j].depth >= mail[m].depth
          BY <1>1, <4>1, <5>1
        <5>3. m \in 1..Len(mail) /\ k \in 1..Len(mail)
          BY <1>1
        <5> QED BY <1>1, <3>2, <4>2, <5>2, <5>3
      <4> QED BY <4>4, <4>5
    <3>5. CASE walk.within = -1
      <4>1. k - 1 = 0 \/ (mail[k - 1].kind = "multi" /\ Apart(mail, k - 1))
        BY <2>2, <3>5 DEF Complete
      <4>2. k - 1 # 0 /\ j # k - 1
        BY <3>1, <4>1
      <4>3. k - 1 \in Beneath(mail, j)
        BY <3>1, <3>3, <4>2
      <4> QED BY <4>1, <4>2, <4>3 DEF Apart
    <3> QED BY <1>2, <3>4, <3>5
  <2>4. CASE mail[k].kind = "multi" /\ mail[k].depth < MaxDepth
    <3>1. next = [walk EXCEPT !.within = -1]
      BY <1>2, <1>4, <2>1, <2>4, CapAssumption DEF Visit
    <3>2. next.leaves = leaves /\ next.within = -1
      BY <1>2, <3>1 DEF Walk
    <3>3. \A i \in 1..k : IsLeaf(next, i) <=> mail[i].kind # "multi" /\ Apart(mail, i)
      <4>1. \A i \in 1..k : i \in 1..(k - 1) \/ i = k
        OBVIOUS
      <4>2. ~IsLeaf(next, k)
        BY <1>2, <3>2 DEF IsLeaf
      <4>3. \A i \in 1..(k - 1) : IsLeaf(next, i) <=> IsLeaf(walk, i)
        BY <3>2 DEF IsLeaf
      <4> QED BY <2>2, <2>4, <4>1, <4>2, <4>3 DEF Complete
    <3> QED BY <2>3, <2>4, <3>2, <3>3 DEF Complete
  <2>5. CASE ~ (mail[k].kind = "multi" /\ mail[k].depth < MaxDepth)
    <3>1. next = [leaves |-> Append(walk.leaves, k), within |-> mail[k].depth,
                  truncated |-> walk.truncated \/ mail[k].kind = "multi"]
      BY <1>2, <1>4, <2>1, <2>5, CapAssumption DEF Visit
    <3> DEFINE said == walk.truncated \/ mail[k].kind = "multi"
    <3>2. /\ mail[k].kind # "multi" /\ next.leaves = Append(leaves, k)
          /\ next.within = mail[k].depth
      <4>1. /\ next.truncated = said /\ next.leaves = Append(leaves, k)
            /\ next.within = mail[k].depth
        <5> HIDE DEF said, next
        <5>1. next = [leaves |-> Append(walk.leaves, k), within |-> mail[k].depth,
                      truncated |-> said]
          BY <3>1 DEF said
        <5> QED BY <5>1
      <4> QED BY <4>1
    <3>3. /\ Len(next.leaves) = Len(leaves) + 1
          /\ \A x \in 1..Len(leaves) : next.leaves[x] = leaves[x]
          /\ next.leaves[Len(leaves) + 1] = k
      BY <1>2, <3>2
    <3>4. IsLeaf(next, k)
      <4>1. Len(leaves) + 1 \in 1..Len(next.leaves)
        BY <1>2, <3>3
      <4> QED BY <3>3, <4>1 DEF IsLeaf
    <3>5. ASSUME NEW i \in 1..(k - 1) PROVE IsLeaf(next, i) <=> IsLeaf(walk, i)
      <4>1. \A x \in 1..Len(next.leaves) : x \in 1..Len(leaves) \/ x = Len(leaves) + 1
        BY <1>2, <3>3
      <4>2. \A x \in 1..Len(leaves) : x \in 1..Len(next.leaves)
        BY <1>2, <3>3
      <4>3. i # k
        OBVIOUS
      <4> QED BY <3>3, <4>1, <4>2, <4>3 DEF IsLeaf
    <3>6. \A i \in 1..k : IsLeaf(next, i) <=> mail[i].kind # "multi" /\ Apart(mail, i)
      <4>1. \A i \in 1..k : i \in 1..(k - 1) \/ i = k
        OBVIOUS
      <4> QED BY <2>2, <2>3, <3>2, <3>4, <3>5, <4>1 DEF Complete
    <3>7. k \in 1..k /\ \A n \in (k + 1)..k : mail[n].depth > mail[k].depth
      OBVIOUS
    <3>8. next.within # -1
      BY <1>1, <3>2
    <3> QED BY <3>2, <3>4, <3>6, <3>7, <3>8 DEF Complete
  <2> QED BY <2>4, <2>5
<1> QED BY <1>3, <1>4

-----------------------------------------------------------------------------
(* So much is known of the leaves of a message when the walk is over.      *)
LEMMA LeavesAreLeft ==
    ASSUME NEW mail \in Mails
    PROVE  /\ Walked(mail, Leaves(mail), Len(mail))
           /\ Splits(mail) => Complete(mail, Leaves(mail), Len(mail))
<1>1. PICK w \in [0..Len(mail) -> Walk] :
               /\ w[0] = Start
               /\ \A k \in 1..Len(mail) : w[k] = Visit(mail, w[k - 1], k)
               /\ Leaves(mail) = w[Len(mail)]
  BY WalkGoesOn
<1>2. Len(mail) \in Nat
  BY PartsOf
<1> DEFINE P == {k \in 0..Len(mail) : Walked(mail, w[k], k)}
<1>3. 0 \in P
  <2>1. Start \in Walk /\ Start.leaves = <<>> /\ Start.within = -1
    BY DEF Start, Walk
  <2>2. Walked(mail, Start, 0)
    BY <2>1, CapAssumption DEF Walked
  <2> QED BY <1>1, <1>2, <2>2
<1>4. ASSUME NEW k \in 1..Len(mail), k - 1 \in P PROVE k \in P
  BY <1>1, <1>2, <1>4, WalkedOn
<1>5. \A k \in 0..Len(mail) : k \in P
  <2> HIDE DEF P
  <2> QED BY <1>2, <1>3, <1>4, Upward
<1>6. Walked(mail, w[Len(mail)], Len(mail))
  BY <1>2, <1>5
<1> DEFINE Q == {k \in 0..Len(mail) : Complete(mail, w[k], k)}
<1>7. 0 \in Q
  <2>1. Start.within = -1 /\ ~ (Start.within >= 0) /\ \A i \in 1..0 : FALSE
    BY DEF Start
  <2>2. Complete(mail, Start, 0)
    BY <2>1 DEF Complete
  <2> QED BY <1>1, <1>2, <2>2
<1>8. ASSUME Splits(mail), NEW k \in 1..Len(mail), k - 1 \in Q PROVE k \in Q
  <2>1. Walked(mail, w[k - 1], k - 1)
    BY <1>2, <1>5
  <2> QED BY <1>1, <1>2, <1>8, <2>1, CompleteOn
<1>9. ASSUME Splits(mail) PROVE \A k \in 0..Len(mail) : k \in Q
  <2> HIDE DEF Q
  <2> QED BY <1>2, <1>7, <1>8, <1>9, Upward
<1>10. Splits(mail) => Complete(mail, w[Len(mail)], Len(mail))
  BY <1>2, <1>9
<1> QED BY <1>1, <1>6, <1>10

-----------------------------------------------------------------------------
(* How many of the first k leaves are attachments.                         *)
Filed(roles, k) == Cardinality({j \in 1..k : roles[j] = "attachment"})

(* It counts from one leaf to the next.                                    *)
LEMMA FiledCounts ==
    ASSUME NEW roles
    PROVE  /\ Filed(roles, 0) = 0
           /\ \A k \in Nat : Filed(roles, k) \in Nat /\ Filed(roles, k) <= k
           /\ \A k \in Nat \ {0} :
                  Filed(roles, k) = Filed(roles, k - 1)
                                        + (IF roles[k] = "attachment" THEN 1 ELSE 0)
           /\ \A k, l \in Nat : k <= l => Filed(roles, k) <= Filed(roles, l)
<1> DEFINE S(k) == {j \in 1..k : roles[j] = "attachment"}
<1>1. ASSUME NEW k \in Nat
      PROVE  IsFiniteSet(S(k)) /\ Cardinality(S(k)) \in Nat /\ Cardinality(S(k)) <= k
  <2>1. IsFiniteSet(1..k) /\ Cardinality(1..k) = k
    BY FS_Interval
  <2>2. S(k) \in SUBSET (1..k)
    OBVIOUS
  <2> HIDE DEF S
  <2> QED BY <2>1, <2>2, FS_Subset, FS_CardinalityType
<1>2. Cardinality(S(0)) = 0
  <2>1. S(0) = {}
    OBVIOUS
  <2> QED BY <2>1, FS_EmptySet
<1>3. ASSUME NEW k \in Nat \ {0}
      PROVE  Cardinality(S(k)) = Cardinality(S(k - 1))
                                     + (IF roles[k] = "attachment" THEN 1 ELSE 0)
  <2>1. IsFiniteSet(S(k - 1)) /\ Cardinality(S(k - 1)) \in Nat
    BY <1>1
  <2>2. CASE roles[k] = "attachment"
    <3>1. S(k) = S(k - 1) \cup {k} /\ k \notin S(k - 1)
      BY <2>2
    <3> HIDE DEF S
    <3> QED BY <2>1, <2>2, <3>1, FS_AddElement
  <2>3. CASE roles[k] # "attachment"
    <3>1. S(k) = S(k - 1)
      BY <2>3
    <3> HIDE DEF S
    <3> QED BY <2>1, <2>3, <3>1
  <2> QED BY <2>2, <2>3
<1>4. ASSUME NEW k \in Nat, NEW l \in Nat, k <= l PROVE Cardinality(S(k)) <= Cardinality(S(l))
  <2>1. S(k) \in SUBSET S(l)
    BY <1>4
  <2> HIDE DEF S
  <2> QED BY <1>1, <2>1, FS_Subset
<1>5. \A k \in Nat : Filed(roles, k) = Cardinality(S(k))
  BY DEF Filed
<1> HIDE DEF S
<1>6. 0 \in Nat /\ \A k \in Nat \ {0} : k \in Nat /\ k - 1 \in Nat
  OBVIOUS
<1> QED BY <1>1, <1>2, <1>3, <1>4, <1>5, <1>6

(* The files are the attachments among the leaves, each at its count.      *)
FiledInto(leaves, roles, files, k) ==
    /\ files \in Seq(Nat) /\ Len(files) = Filed(roles, k)
    /\ \A i \in 1..k : roles[i] = "attachment" =>
           Filed(roles, i - 1) + 1 \in 1..Len(files) /\ files[Filed(roles, i - 1) + 1] = leaves[i]
    /\ \A n \in 1..Len(files) :
           \E i \in 1..k : roles[i] = "attachment" /\ n = Filed(roles, i - 1) + 1

(* So are the files that parse_message makes.                              *)
LEMMA FilesAreFiled ==
    ASSUME NEW leaves \in Seq(Nat), NEW roles
    PROVE  FiledInto(leaves, roles, Files(leaves, roles), Len(leaves))
<1>1. PICK w \in [0..Len(leaves) -> Seq(Nat)] :
               /\ w[0] = <<>>
               /\ \A k \in 1..Len(leaves) : w[k] = Filing(leaves, roles, w[k - 1], k)
               /\ Files(leaves, roles) = w[Len(leaves)]
  BY FilesGoOn
<1>2. Len(leaves) \in Nat
  OBVIOUS
<1> DEFINE P == {k \in 0..Len(leaves) : FiledInto(leaves, roles, w[k], k)}
<1>3. 0 \in P
  <2>1. w[0] \in Seq(Nat) /\ Len(w[0]) = 0
    BY <1>1, <1>2
  <2>2. FiledInto(leaves, roles, w[0], 0)
    BY <2>1, FiledCounts DEF FiledInto
  <2> QED BY <1>2, <2>2
<1>4. ASSUME NEW k \in 1..Len(leaves), k - 1 \in P PROVE k \in P
  <2> DEFINE old == w[k - 1]
             c == Filed(roles, k - 1)
  <2>1. FiledInto(leaves, roles, old, k - 1) /\ k - 1 \in Nat /\ k \in Nat \ {0}
    BY <1>2, <1>4
  <2>2. c \in Nat /\ Filed(roles, k) = c + (IF roles[k] = "attachment" THEN 1 ELSE 0)
    BY <2>1, FiledCounts
  <2>3. old \in Seq(Nat) /\ Len(old) = c /\ leaves[k] \in Nat
    BY <2>1 DEF FiledInto
  <2>4. \A i \in 1..k : i \in 1..(k - 1) \/ i = k
    OBVIOUS
  <2>5. w[k] = Filing(leaves, roles, old, k)
    BY <1>1
  <2>6. CASE roles[k] = "attachment"
    <3>1. w[k] = Append(old, leaves[k])
      BY <2>5, <2>6 DEF Filing
    <3>2. /\ w[k] \in Seq(Nat) /\ Len(w[k]) = c + 1 /\ w[k][c + 1] = leaves[k]
          /\ \A n \in 1..c : w[k][n] = old[n]
      <4> HIDE DEF old, c
      <4> QED BY <2>2, <2>3, <3>1
    <3>3. ASSUME NEW i \in 1..k, roles[i] = "attachment"
          PROVE  /\ Filed(roles, i - 1) + 1 \in 1..Len(w[k])
                 /\ w[k][Filed(roles, i - 1) + 1] = leaves[i]
      <4>1. CASE i \in 1..(k - 1)
        <5>1. Filed(roles, i - 1) + 1 \in 1..c /\ old[Filed(roles, i - 1) + 1] = leaves[i]
          BY <2>1, <2>3, <3>3, <4>1 DEF FiledInto
        <5> HIDE DEF c, old
        <5> QED BY <2>2, <3>2, <5>1
      <4>2. CASE i = k
        <5> HIDE DEF old
        <5> QED BY <2>2, <3>2, <4>2
      <4> QED BY <2>4, <4>1, <4>2
    <3>4. ASSUME NEW n \in 1..Len(w[k])
          PROVE  \E i \in 1..k : roles[i] = "attachment" /\ n = Filed(roles, i - 1) + 1
      <4>1. n \in 1..c \/ n = c + 1
        BY <2>2, <3>2
      <4>2. CASE n \in 1..c
        <5>1. PICK i \in 1..(k - 1) : roles[i] = "attachment" /\ n = Filed(roles, i - 1) + 1
          BY <2>1, <2>3, <4>2 DEF FiledInto
        <5>2. i \in 1..k
          OBVIOUS
        <5> QED BY <5>1, <5>2
      <4>3. CASE n = c + 1
        <5>1. k \in 1..k
          OBVIOUS
        <5> QED BY <2>6, <4>3, <5>1
      <4> QED BY <4>1, <4>2, <4>3
    <3>5. Len(w[k]) = Filed(roles, k)
      BY <2>2, <2>6, <3>2
    <3>6. FiledInto(leaves, roles, w[k], k)
      BY <3>2, <3>3, <3>4, <3>5 DEF FiledInto
    <3> QED BY <1>2, <3>6
  <2>7. CASE roles[k] # "attachment"
    <3>1. w[k] = old /\ Filed(roles, k) = c
      BY <2>2, <2>5, <2>7 DEF Filing
    <3>2. \A i \in 1..k : roles[i] = "attachment" => i \in 1..(k - 1)
      BY <2>4, <2>7
    <3>3. \A i \in 1..(k - 1) : i \in 1..k
      OBVIOUS
    <3>4. FiledInto(leaves, roles, w[k], k)
      <4> HIDE DEF old, c
      <4> QED BY <2>1, <2>3, <3>1, <3>2, <3>3 DEF FiledInto
    <3> QED BY <1>2, <3>4
  <2> QED BY <2>6, <2>7
<1>5. \A k \in 0..Len(leaves) : k \in P
  <2> HIDE DEF P
  <2> QED BY <1>2, <1>3, <1>4, Upward
<1> QED BY <1>1, <1>2, <1>5

(* So a file further on is of a leaf further on.                           *)
LEMMA FiledInOrder ==
    ASSUME NEW roles, NEW i \in Nat \ {0}, NEW j \in Nat \ {0}, roles[j] = "attachment",
           Filed(roles, i - 1) < Filed(roles, j - 1)
    PROVE  i < j
<1> SUFFICES ASSUME j <= i PROVE FALSE
  OBVIOUS
<1>1. j - 1 <= i - 1 /\ i - 1 \in Nat /\ j - 1 \in Nat
  OBVIOUS
<1>2. Filed(roles, j - 1) <= Filed(roles, i - 1)
  BY <1>1, FiledCounts
<1>3. Filed(roles, j - 1) \in Nat /\ Filed(roles, i - 1) \in Nat
  BY <1>1, FiledCounts
<1> QED BY <1>2, <1>3

-----------------------------------------------------------------------------
(* Each leaf is the text, the HTML or an attachment, and no two are the    *)
(* text or the HTML.                                                       *)
LEMMA RolesGiven ==
    ASSUME NEW mail, NEW leaves, NEW i \in DOMAIN leaves
    PROVE  LET roles == Roles(mail, leaves) IN
           /\ roles[i] \in {"plain", "html", "attachment"}
           /\ roles[i] \in Texts => mail[leaves[i]].kind = roles[i] /\ ~mail[leaves[i]].filed
  BY DEF Roles, Texts

(* What a page is given of a leaf is the leaf or beneath it.               *)
LEMMA GivenIsWithin ==
    ASSUME NEW mail, NEW i
    PROVE  Payload(mail, i) \subseteq {i} \cup Beneath(mail, i)
<1>1. FirstBeneath(mail, i) \subseteq Beneath(mail, i)
  BY DEF FirstBeneath
<1> QED BY <1>1 DEF Payload

(* What the message holds is what its leaves are read as.                  *)
LEMMA LeavesHoldAll ==
    ASSUME NEW mail \in Mails, Splits(mail), ~Leaves(mail).truncated
    PROVE  Contents(mail) =
               UNION {Payload(mail, i) : i \in {j \in 1..Len(mail) : IsLeaf(Leaves(mail), j)}}
<1>1. \A i \in 1..Len(mail) :
          IsLeaf(Leaves(mail), i) <=> mail[i].kind # "multi" /\ Apart(mail, i)
  BY LeavesAreLeft DEF Complete
<1>2. DOMAIN mail = 1..Len(mail) /\ \A i \in 1..Len(mail) : mail[i].kind \in Kinds
  BY PartsOf
<1>3. ASSUME NEW i \in 1..Len(mail), mail[i].kind \in Whole
      PROVE  i \notin Inside(mail) <=> Apart(mail, i)
  BY <1>2, <1>3 DEF Inside, Apart, Whole, Texts
<1>4. ASSUME NEW i \in 1..Len(mail), IsLeaf(Leaves(mail), i), NEW x \in Payload(mail, i)
      PROVE  x \in Contents(mail)
  <2>1. mail[i].kind # "multi" /\ Apart(mail, i)
    BY <1>1, <1>4
  <2>2. CASE mail[i].kind = "message"
    <3>1. x \in FirstBeneath(mail, i)
      BY <1>4, <2>2 DEF Payload
    <3>2. i \in Outermost(mail)
      BY <1>2, <2>1, <2>2 DEF Outermost, Apart
    <3> QED BY <3>1, <3>2 DEF Contents
  <2>3. CASE mail[i].kind \in Whole
    <3>1. x = i
      BY <1>4, <2>3 DEF Payload, Whole, Texts
    <3> QED BY <1>2, <1>3, <2>1, <2>3, <3>1 DEF Contents
  <2>4. CASE mail[i].kind = "unreadable"
    BY <1>4, <2>4 DEF Payload
  <2> QED BY <1>2, <2>1, <2>2, <2>3, <2>4 DEF Kinds, Whole
<1>5. ASSUME NEW x \in Contents(mail)
      PROVE  \E i \in 1..Len(mail) : IsLeaf(Leaves(mail), i) /\ x \in Payload(mail, i)
  <2>1. CASE x \in 1..Len(mail) /\ mail[x].kind \in Whole /\ x \notin Inside(mail)
    <3>1. IsLeaf(Leaves(mail), x)
      BY <1>1, <1>3, <2>1 DEF Whole, Texts
    <3>2. x \in Payload(mail, x)
      BY <2>1 DEF Payload, Whole, Texts
    <3> QED BY <2>1, <3>1, <3>2
  <2>2. CASE \E i \in Outermost(mail) : x \in FirstBeneath(mail, i)
    <3>1. PICK i \in Outermost(mail) : x \in FirstBeneath(mail, i)
      BY <2>2
    <3>2. i \in 1..Len(mail) /\ mail[i].kind = "message" /\ Apart(mail, i)
      BY <1>2 DEF Outermost, Apart
    <3>3. x \in Payload(mail, i)
      BY <3>1, <3>2 DEF Payload
    <3> QED BY <1>1, <3>2, <3>3
  <2> QED BY <1>2, <2>1, <2>2 DEF Contents
<1> QED BY <1>4, <1>5

-----------------------------------------------------------------------------
(* The row of a message, by its leaves: every leaf is in the row once.     *)
Rowed(mail, row) ==
    LET leaves == Leaves(mail).leaves
        roles == Roles(mail, leaves)
        files == row.attachments
    IN /\ FiledInto(leaves, roles, files, Len(leaves))
       /\ row.text = {leaves[i] : i \in {j \in 1..Len(leaves) : roles[j] = "plain"}}
       /\ row.html = {leaves[i] : i \in {j \in 1..Len(leaves) : roles[j] = "html"}}
       /\ ~row.truncated => ~Leaves(mail).truncated

(* Every row is one of this kind.                                          *)
LEMMA RowOfLeaves ==
    ASSUME NEW mail \in Mails, NEW beyond
    PROVE  Rowed(mail, Parse(mail, beyond))
<1> DEFINE walk == Leaves(mail)
           leaves == walk.leaves
           roles == Roles(mail, leaves)
           row == Parse(mail, beyond)
<1>1. leaves \in Seq(Nat)
  BY LeavesAreLeft DEF Walked, Walk
<1>2. DOMAIN roles = 1..Len(leaves)
  BY <1>1 DEF Roles
<1>3. /\ row.text = {leaves[i] : i \in {j \in DOMAIN roles : roles[j] = "plain"}}
      /\ row.html = {leaves[i] : i \in {j \in DOMAIN roles : roles[j] = "html"}}
      /\ row.attachments = Files(leaves, roles)
  BY DEF Parse
<1>4. walk.truncated => row.truncated
  BY DEF Parse
<1>5. FiledInto(leaves, roles, row.attachments, Len(leaves))
  BY <1>1, <1>3, FilesAreFiled
<1> HIDE DEF row
<1>6. Rowed(mail, row)
  BY <1>2, <1>3, <1>4, <1>5 DEF Rowed
<1> QED BY <1>6 DEF row

(* In a message that splits, nothing is dropped.                           *)
LEMMA AllIsGiven ==
    ASSUME NEW mail \in Mails, Splits(mail), NEW row, Rowed(mail, row)
    PROVE  LET Given(n) == Payload(mail, row.attachments[n])
               places == DOMAIN row.attachments
           IN /\ ~row.truncated =>
                     Contents(mail) = row.text \cup row.html \cup UNION {Given(n) : n \in places}
              /\ \A n, o \in places : n < o => /\ row.attachments[n] < row.attachments[o]
                                               /\ Given(n) \cap Given(o) = {}
              /\ \A n \in places : row.attachments[n] \notin row.text \cup row.html
              /\ Len(row.attachments) <= MaxParts
<1> DEFINE leaves == Leaves(mail).leaves
           roles == Roles(mail, leaves)
           files == row.attachments
           Given(n) == Payload(mail, files[n])
           places == DOMAIN files
<1>1. /\ leaves \in Seq(Nat) /\ Len(leaves) \in Nat /\ Len(leaves) <= MaxParts
      /\ \A x \in 1..Len(leaves) : leaves[x] \in 1..Len(mail)
      /\ \A x, y \in 1..Len(leaves) : x < y => /\ leaves[x] < leaves[y]
                                               /\ Left(mail, leaves[x], leaves[y])
  BY LeavesAreLeft DEF Walked, Walk
<1>2. FiledInto(leaves, roles, files, Len(leaves))
  BY DEF Rowed
<1>3. files \in Seq(Nat) /\ places = 1..Len(files) /\ Len(files) <= Len(leaves)
  <2>1. files \in Seq(Nat) /\ Len(files) = Filed(roles, Len(leaves))
    BY <1>2 DEF FiledInto
  <2>2. Filed(roles, Len(leaves)) <= Len(leaves)
    BY <1>1, FiledCounts
  <2> HIDE DEF files, leaves, roles
  <2> QED BY <2>1, <2>2
<1>4. \A i \in 1..Len(leaves) :
          /\ roles[i] \in {"plain", "html", "attachment"}
          /\ roles[i] \in Texts => mail[leaves[i]].kind = roles[i]
  BY <1>1, RolesGiven
<1>5. \A n \in places :
          \E i \in 1..Len(leaves) : /\ roles[i] = "attachment" /\ files[n] = leaves[i]
                                    /\ n = Filed(roles, i - 1) + 1
  BY <1>2, <1>3 DEF FiledInto
<1>6. \A i \in 1..Len(leaves) : roles[i] = "attachment" => \E n \in places : files[n] = leaves[i]
  BY <1>2, <1>3 DEF FiledInto
<1>7. /\ row.text = {leaves[i] : i \in {j \in 1..Len(leaves) : roles[j] = "plain"}}
      /\ row.html = {leaves[i] : i \in {j \in 1..Len(leaves) : roles[j] = "html"}}
      /\ ~row.truncated => ~Leaves(mail).truncated
  BY DEF Rowed
<1>8. \A i \in 1..Len(mail) : IsLeaf(Leaves(mail), i) <=> \E x \in 1..Len(leaves) : leaves[x] = i
  BY DEF IsLeaf
<1> HIDE DEF leaves, roles, files, places
<1>9. ASSUME ~row.truncated
      PROVE  Contents(mail) = row.text \cup row.html \cup UNION {Given(n) : n \in places}
  <2>1. Contents(mail) =
            UNION {Payload(mail, i) : i \in {j \in 1..Len(mail) : IsLeaf(Leaves(mail), j)}}
    BY <1>7, <1>9, LeavesHoldAll
  <2>2. ASSUME NEW i \in 1..Len(leaves), roles[i] \in Texts
        PROVE  Payload(mail, leaves[i]) = {leaves[i]}
    BY <1>4, <2>2 DEF Payload, Texts
  <2>3. ASSUME NEW x \in Contents(mail)
        PROVE  x \in row.text \cup row.html \cup UNION {Given(n) : n \in places}
    <3>1. PICK i \in 1..Len(mail) : IsLeaf(Leaves(mail), i) /\ x \in Payload(mail, i)
      BY <2>1
    <3>2. PICK y \in 1..Len(leaves) : leaves[y] = i
      BY <1>8, <3>1
    <3>3. CASE roles[y] \in Texts
      <4>1. x = leaves[y]
        BY <2>2, <3>1, <3>2, <3>3
      <4> QED BY <1>7, <3>3, <4>1 DEF Texts
    <3>4. CASE roles[y] = "attachment"
      <4>1. PICK n \in places : files[n] = leaves[y]
        BY <1>6, <3>4
      <4> QED BY <3>1, <3>2, <4>1
    <3> QED BY <1>4, <3>3, <3>4 DEF Texts
  <2>4. ASSUME NEW i \in 1..Len(leaves), NEW x \in Payload(mail, leaves[i])
        PROVE  x \in Contents(mail)
    <3>1. leaves[i] \in 1..Len(mail) /\ IsLeaf(Leaves(mail), leaves[i])
      BY <1>1, <1>8
    <3> QED BY <2>1, <3>1
  <2>5. ASSUME NEW x \in row.text \cup row.html PROVE x \in Contents(mail)
    <3>1. PICK i \in 1..Len(leaves) : roles[i] \in Texts /\ x = leaves[i]
      BY <1>7 DEF Texts
    <3> QED BY <2>2, <2>4, <3>1
  <2>6. ASSUME NEW n \in places, NEW x \in Given(n) PROVE x \in Contents(mail)
    <3>1. PICK i \in 1..Len(leaves) : files[n] = leaves[i]
      BY <1>5
    <3> QED BY <2>4, <3>1
  <2> HIDE DEF Given
  <2> QED BY <2>3, <2>5, <2>6
<1>10. ASSUME NEW n \in places, NEW o \in places, n < o
       PROVE  files[n] < files[o] /\ Given(n) \cap Given(o) = {}
  <2>1. PICK i \in 1..Len(leaves) : /\ roles[i] = "attachment" /\ files[n] = leaves[i]
                                    /\ n = Filed(roles, i - 1) + 1
    BY <1>5
  <2>2. PICK j \in 1..Len(leaves) : /\ roles[j] = "attachment" /\ files[o] = leaves[j]
                                    /\ o = Filed(roles, j - 1) + 1
    BY <1>5
  <2>3. i < j
    <3>1. i - 1 \in Nat /\ j - 1 \in Nat /\ i \in Nat \ {0} /\ j \in Nat \ {0}
      BY <1>1
    <3>2. Filed(roles, i - 1) \in Nat /\ Filed(roles, j - 1) \in Nat
      BY <3>1, FiledCounts
    <3>3. Filed(roles, i - 1) < Filed(roles, j - 1)
      BY <1>10, <2>1, <2>2, <3>2
    <3> QED BY <2>2, <3>1, <3>3, FiledInOrder
  <2> DEFINE a == leaves[i]
             b == leaves[j]
  <2>4. a \in Nat /\ b \in Nat /\ a < b /\ Left(mail, a, b)
    BY <1>1, <2>3
  <2> HIDE DEF a, b
  <2>5. Payload(mail, a) \cap Payload(mail, b) = {}
    <3> SUFFICES ASSUME NEW x \in Payload(mail, a), x \in Payload(mail, b) PROVE FALSE
      OBVIOUS
    <3>1. x \in {a} \cup Beneath(mail, a) /\ x \in {b} \cup Beneath(mail, b)
      BY GivenIsWithin
    <3>2. x = b \/ (x \in 1..Len(mail) /\ x > b)
      BY <3>1, PartsOf DEF Beneath
    <3>3. x \in Beneath(mail, a)
      BY <2>4, <3>1, <3>2
    <3>4. x \in 1..Len(mail) /\ \A n1 \in (a + 1)..x : mail[n1].depth > mail[a].depth
      BY <3>3, PartsOf DEF Beneath
    <3>5. PICK n1 \in (a + 1)..b : mail[n1].depth <= mail[a].depth
      BY <2>4 DEF Left
    <3>6. n1 \in (a + 1)..x
      BY <2>4, <3>2, <3>4
    <3>7. mail[n1].depth > mail[a].depth
      BY <3>4, <3>6
    <3>8. a \in 1..Len(mail) /\ n1 \in 1..Len(mail)
      BY <1>1, <2>4, <3>4, <3>6, PartsOf DEF a
    <3>9. mail[n1].depth \in Nat /\ mail[a].depth \in Nat
      BY <3>8, PartsOf
    <3> QED BY <3>5, <3>7, <3>9
  <2> QED BY <2>1, <2>2, <2>4, <2>5 DEF a, b
<1>11. ASSUME NEW n \in places PROVE files[n] \notin row.text \cup row.html
  <2>1. PICK i \in 1..Len(leaves) : roles[i] = "attachment" /\ files[n] = leaves[i]
    BY <1>5
  <2>2. ASSUME NEW j \in 1..Len(leaves), leaves[j] = leaves[i] PROVE j = i
    BY <1>1, <2>2
  <2> QED BY <1>7, <2>1, <2>2
<1>12. Len(files) <= MaxParts
  BY <1>1, <1>3, CapAssumption
<1> QED BY <1>9, <1>10, <1>11, <1>12 DEF files, places

-----------------------------------------------------------------------------
(* What is found at an index is what the row lists there.                  *)
LEMMA FoundWhereListed ==
    ASSUME NEW mail \in Mails, NEW row, Rowed(mail, row), NEW index \in Int
    PROVE  ReadAttachment(mail, index) =
               IF Listed(row, index) THEN {row.attachments[index + 1]} ELSE {}
<1> DEFINE leaves == Leaves(mail).leaves
           roles == Roles(mail, leaves)
           files == row.attachments
<1>1. leaves \in Seq(Nat) /\ DOMAIN leaves = 1..Len(leaves) /\ Len(leaves) \in Nat
  BY LeavesAreLeft DEF Walked, Walk
<1>2. FiledInto(leaves, roles, files, Len(leaves))
  BY DEF Rowed
<1>3. ReadAttachment(mail, index) =
          {leaves[i] : i \in {j \in 1..Len(leaves) :
                                  roles[j] = "attachment" /\ Filed(roles, j - 1) = index}}
  BY <1>1 DEF ReadAttachment, Filed
<1> HIDE DEF leaves, roles, files
<1>4. Len(files) \in Nat
  BY <1>2 DEF FiledInto
<1>5. ASSUME NEW j \in 1..Len(leaves), roles[j] = "attachment", Filed(roles, j - 1) = index
      PROVE  Listed(row, index) /\ files[index + 1] = leaves[j]
  <2>1. index + 1 \in 1..Len(files) /\ files[index + 1] = leaves[j]
    BY <1>2, <1>5 DEF FiledInto
  <2> QED BY <1>4, <2>1 DEF Listed, files
<1>6. ASSUME Listed(row, index)
      PROVE  \E j \in 1..Len(leaves) : roles[j] = "attachment" /\ Filed(roles, j - 1) = index
  <2>1. index + 1 \in 1..Len(files)
    BY <1>4, <1>6 DEF Listed, files
  <2>2. PICK j \in 1..Len(leaves) : roles[j] = "attachment" /\ index + 1 = Filed(roles, j - 1) + 1
    BY <1>2, <2>1 DEF FiledInto
  <2>3. j - 1 \in Nat
    BY <1>1
  <2>4. Filed(roles, j - 1) \in Nat
    BY <2>3, FiledCounts
  <2> QED BY <2>2, <2>4
<1>7. CASE Listed(row, index)
  <2>1. PICK j \in 1..Len(leaves) : roles[j] = "attachment" /\ Filed(roles, j - 1) = index
    BY <1>6, <1>7
  <2>2. ReadAttachment(mail, index) = {files[index + 1]}
    BY <1>3, <1>5, <2>1
  <2> QED BY <1>7, <2>2 DEF files
<1>8. CASE ~Listed(row, index)
  BY <1>3, <1>5, <1>8
<1> QED BY <1>7, <1>8

-----------------------------------------------------------------------------
(* A received message splits, whatever part comes next.                    *)
MimeInv ==
    /\ parts \in Mails /\ Splits(parts)
    /\ draft \in Drafts \cup {NoDraft}

(* And stays so.                                                           *)
LEMMA MimeInductive ==
    /\ MimeInit => MimeInv
    /\ MimeInv /\ [MimeNext]_mimeVars => MimeInv'
<1>1. MimeInit => MimeInv
  <2>1. <<>> \in Mails /\ Len(<<>>) = 0
    BY DEF Mails
  <2>2. Splits(<<>>)
    BY <2>1 DEF Splits
  <2> QED BY <2>1, <2>2 DEF MimeInit, MimeInv
<1>2. ASSUME MimeInv, [MimeNext]_mimeVars PROVE MimeInv'
  <2>1. CASE UNCHANGED mimeVars
    BY <1>2, <2>1 DEF MimeInv, mimeVars
  <2>2. ASSUME NEW part \in Shapes, Grow(part) PROVE MimeInv'
    <3>1. parts \in Mails /\ part \in Part /\ Len(parts) \in Nat
      <4>1. part.depth \in Nat /\ part \in Part
        BY LengthAssumption DEF Shapes, Part
      <4> QED BY <1>2, <4>1, PartsOf DEF MimeInv
    <3>2. /\ parts' = Append(parts, part) /\ draft' = draft
          /\ parts # <<>> => \/ part.depth <= parts[Len(parts)].depth
                             \/ parts[Len(parts)].kind \in {"message", "multi"}
      BY <2>2 DEF Grow
    <3>3. /\ parts' \in Mails /\ Len(parts') = Len(parts) + 1
          /\ \A n \in 1..Len(parts) : parts'[n] = parts[n]
          /\ parts'[Len(parts) + 1] = part
      BY <3>1, <3>2 DEF Mails
    <3>4. Splits(parts')
      <4>1. ASSUME NEW n \in 1..Len(parts'), n > 1
            PROVE  \/ parts'[n].depth <= parts'[n - 1].depth
                   \/ parts'[n - 1].kind \in {"message", "multi"}
        <5>1. CASE n \in 1..Len(parts)
          <6>1. n - 1 \in 1..Len(parts)
            BY <4>1, <5>1
          <6> QED BY <1>2, <3>3, <4>1, <5>1, <6>1 DEF MimeInv, Splits
        <5>2. CASE n = Len(parts) + 1
          <6>1. Len(parts) \in 1..Len(parts) /\ n - 1 = Len(parts)
            BY <3>1, <4>1, <5>2
          <6>2. parts # <<>>
            BY <3>1, <6>1 DEF Mails
          <6> QED BY <3>2, <3>3, <5>2, <6>1, <6>2
        <5> QED BY <3>1, <3>3, <5>1, <5>2
      <4> QED BY <4>1 DEF Splits
    <3> QED BY <1>2, <3>2, <3>3, <3>4 DEF MimeInv
  <2>3. ASSUME NEW o \in Drafts, Compose(o) PROVE MimeInv'
    BY <1>2, <2>3 DEF Compose, MimeInv
  <2> QED BY <1>2, <2>1, <2>2, <2>3 DEF MimeNext
<1> QED BY <1>1, <1>2

(* Unless it is marked truncated, everything in a received message is in   *)
(* the row once.                                                           *)
THEOREM NothingIsDropped == MimeSpec => []NothingDropped
<1>1. MimeInv => NothingDropped
  <2> SUFFICES ASSUME MimeInv PROVE NothingDropped
    OBVIOUS
  <2> DEFINE row == Parse(parts, over)
  <2>1. parts \in Mails /\ Splits(parts) /\ Rowed(parts, row)
    BY RowOfLeaves DEF MimeInv
  <2> HIDE DEF row
  <2>2. LET Given(n) == Payload(parts, row.attachments[n])
            places == DOMAIN row.attachments
        IN /\ ~row.truncated =>
                  Contents(parts) = row.text \cup row.html \cup UNION {Given(n) : n \in places}
           /\ \A n, o \in places : n < o => /\ row.attachments[n] < row.attachments[o]
                                            /\ Given(n) \cap Given(o) = {}
           /\ \A n \in places : row.attachments[n] \notin row.text \cup row.html
           /\ Len(row.attachments) <= MaxParts
    BY <2>1, AllIsGiven
  <2> QED BY <2>2 DEF NothingDropped, row
<1> QED BY <1>1, MimeInductive, PTL DEF MimeSpec

(* A download by an index gives what the row lists there.                  *)
LEMMA IndexesHold == MimeInv => IndexesAgree
<1> SUFFICES ASSUME MimeInv, NEW index \in -1..(Len(parts) + 1)
             PROVE  LET row == Parse(parts, over) IN
                    ReadAttachment(parts, index) =
                        IF Listed(row, index) THEN {row.attachments[index + 1]} ELSE {}
  BY DEF IndexesAgree
<1> DEFINE row == Parse(parts, over)
<1>1. parts \in Mails /\ Rowed(parts, row) /\ Len(parts) \in Nat
  BY RowOfLeaves, PartsOf DEF MimeInv
<1>2. index \in Int
  BY <1>1
<1> HIDE DEF row
<1>3. ReadAttachment(parts, index) =
          IF Listed(row, index) THEN {row.attachments[index + 1]} ELSE {}
  BY <1>1, <1>2, FoundWhereListed
<1> QED BY <1>3 DEF row

-----------------------------------------------------------------------------
(* The walk at a part that is no multipart and that it does not pass over. *)
LEMMA LeafVisited ==
    ASSUME NEW mail \in Mails, NEW k \in 1..Len(mail), NEW walk \in Walk,
           mail[k].kind # "multi", ~ (walk.within >= 0 /\ mail[k].depth > walk.within)
    PROVE  LET next == Visit(mail, walk, k) IN
           /\ next \in Walk /\ next.within = mail[k].depth
           /\ \/ /\ Len(walk.leaves) >= MaxParts
                 /\ next.leaves = walk.leaves /\ next.truncated
              \/ /\ Len(walk.leaves) < MaxParts
                 /\ next.leaves = Append(walk.leaves, k) /\ next.truncated = walk.truncated
<1> DEFINE next == Visit(mail, walk, k)
<1>1. next \in Walk /\ walk.leaves \in Seq(Nat) /\ walk.truncated \in BOOLEAN
  BY VisitType DEF Walk
<1>2. CASE Len(walk.leaves) >= MaxParts
  <2>1. next = [walk EXCEPT !.truncated = TRUE, !.within = mail[k].depth]
    BY <1>2 DEF Visit
  <2>2. next.leaves = walk.leaves /\ next.truncated /\ next.within = mail[k].depth
    BY <2>1 DEF Walk
  <2> QED BY <1>1, <1>2, <2>2
<1>3. CASE Len(walk.leaves) < MaxParts
  <2> DEFINE said == walk.truncated \/ mail[k].kind = "multi"
  <2>1. next = [leaves |-> Append(walk.leaves, k), within |-> mail[k].depth, truncated |-> said]
    BY <1>1, <1>3, CapAssumption DEF Visit
  <2>2. said = walk.truncated
    BY <1>1
  <2>3. next.truncated = walk.truncated
    <3> HIDE DEF said, next
    <3> QED BY <2>1, <2>2
  <2>4. next.leaves = Append(walk.leaves, k) /\ next.within = mail[k].depth
    <3> HIDE DEF said, next
    <3> QED BY <2>1
  <2> QED BY <1>1, <1>3, <2>3, <2>4
<1>4. Len(walk.leaves) >= MaxParts \/ Len(walk.leaves) < MaxParts
  BY <1>1, CapAssumption
<1> QED BY <1>2, <1>3, <1>4

(* It is a leaf, as long as there are not too many.                        *)
LEMMA LeafTaken ==
    ASSUME NEW mail \in Mails, NEW k \in 1..Len(mail), NEW walk \in Walk,
           mail[k].kind # "multi", ~ (walk.within >= 0 /\ mail[k].depth > walk.within),
           Len(walk.leaves) < MaxParts, ~walk.truncated
    PROVE  LET next == Visit(mail, walk, k) IN
           /\ next \in Walk /\ next.within = mail[k].depth /\ ~next.truncated
           /\ next.leaves = Append(walk.leaves, k)
<1>1. Len(walk.leaves) \in Nat
  BY DEF Walk
<1>2. ~ (Len(walk.leaves) >= MaxParts)
  BY <1>1, CapAssumption
<1> QED BY <1>2, LeafVisited

(* The walk at a multipart that everything is in.                          *)
LEMMA RootVisited ==
    ASSUME NEW mail, NEW k, mail[k].kind = "multi", mail[k].depth < MaxDepth
    PROVE  Visit(mail, Start, k) = Start
  BY CapAssumption DEF Visit, Start

-----------------------------------------------------------------------------
(* How many bodies a message has.                                          *)
Bodied(o) == IF o.plain /\ o.html THEN 2 ELSE 1

(* The bodies are the last so many of the first h parts, text first, and   *)
(* the leaves so far.                                                      *)
BodiesRead(o, mail, walk, h) ==
    /\ walk \in Walk /\ ~walk.truncated /\ walk.within = mail[h].depth
    /\ Len(walk.leaves) = Bodied(o)
    /\ \A x \in 1..Bodied(o) : walk.leaves[x] = (h - Bodied(o)) + x
    /\ \A x \in 1..Bodied(o) :
           /\ ~mail[(h - Bodied(o)) + x].filed
           /\ mail[(h - Bodied(o)) + x].kind = IF o.plain /\ x = 1 THEN "plain" ELSE "html"

(* The walk over the bodies, after the multipart they may be in.           *)
LEMMA BodiesWalked ==
    ASSUME NEW o, HasBody(o), NEW mail \in Mails, NEW depth \in {0, 1}, NEW m \in Nat,
           m + Len(Bodies(o, depth)) <= Len(mail),
           \A n \in 1..Len(Bodies(o, depth)) : mail[m + n] = Bodies(o, depth)[n],
           NEW w \in [0..Len(mail) -> Walk], w[m] = Start,
           \A k \in 1..Len(mail) : w[k] = Visit(mail, w[k - 1], k)
    PROVE  LET h == m + Len(Bodies(o, depth)) IN
           BodiesRead(o, mail, w[h], h) /\ mail[h].depth >= depth
<1>0. Len(mail) \in Nat
  BY PartsOf
<1>1. /\ Start \in Walk /\ Start.leaves = <<>> /\ Start.within = -1 /\ ~Start.truncated
      /\ ~ (Start.within >= 0)
  BY DEF Start, Walk
<1>2. CASE o.plain /\ o.html
  <2>1. Bodies(o, depth) = <<At(depth, "multi", FALSE), At(depth + 1, "plain", FALSE),
                             At(depth + 1, "html", FALSE)>>
    BY <1>2 DEF Bodies
  <2>2. Len(Bodies(o, depth)) = 3 /\ m + 3 <= Len(mail)
    BY <2>1
  <2>3. /\ mail[m + 1] = At(depth, "multi", FALSE)
        /\ mail[m + 2] = At(depth + 1, "plain", FALSE)
        /\ mail[m + 3] = At(depth + 1, "html", FALSE)
    <3> DEFINE b == Bodies(o, depth)
    <3>1. /\ b[1] = At(depth, "multi", FALSE) /\ b[2] = At(depth + 1, "plain", FALSE)
          /\ b[3] = At(depth + 1, "html", FALSE)
      BY <2>1
    <3>2. 1 \in 1..Len(b) /\ 2 \in 1..Len(b) /\ 3 \in 1..Len(b)
      BY <2>2
    <3>3. \A n \in 1..Len(b) : mail[m + n] = b[n]
      OBVIOUS
    <3> HIDE DEF b
    <3> QED BY <3>1, <3>2, <3>3
  <2>4. /\ mail[m + 1].kind = "multi" /\ mail[m + 1].depth = depth
        /\ mail[m + 2].kind = "plain" /\ mail[m + 2].depth = depth + 1 /\ ~mail[m + 2].filed
        /\ mail[m + 3].kind = "html" /\ mail[m + 3].depth = depth + 1 /\ ~mail[m + 3].filed
    BY <2>3 DEF At
  <2>5. /\ m + 1 \in 1..Len(mail) /\ m + 2 \in 1..Len(mail) /\ m + 3 \in 1..Len(mail)
        /\ (m + 1) - 1 = m /\ (m + 2) - 1 = m + 1 /\ (m + 3) - 1 = m + 2
    BY <1>0, <2>2
  <2>6. w[m + 1] = Start
    BY <2>4, <2>5, RootVisited, CapAssumption
  <2>7. /\ w[m + 2] \in Walk /\ w[m + 2].within = depth + 1 /\ ~w[m + 2].truncated
        /\ w[m + 2].leaves = Append(<<>>, m + 2)
    <3>1. w[m + 2] = Visit(mail, Start, m + 2)
      BY <2>5, <2>6
    <3>2. Len(Start.leaves) < MaxParts /\ mail[m + 2].kind # "multi"
      BY <1>1, <2>4, CapAssumption
    <3>3. ~ (Start.within >= 0 /\ mail[m + 2].depth > Start.within)
      BY <1>1
    <3> DEFINE next == Visit(mail, Start, m + 2)
    <3>4. /\ next \in Walk /\ next.within = mail[m + 2].depth /\ ~next.truncated
          /\ next.leaves = Append(Start.leaves, m + 2)
      BY <1>1, <2>5, <3>2, <3>3, LeafTaken
    <3> HIDE DEF next
    <3> QED BY <1>1, <2>4, <3>1, <3>4 DEF next
  <2>8. w[m + 2].leaves = <<m + 2>> /\ Len(w[m + 2].leaves) = 1
    BY <2>7
  <2>9. /\ w[m + 3] \in Walk /\ w[m + 3].within = depth + 1 /\ ~w[m + 3].truncated
        /\ w[m + 3].leaves = Append(<<m + 2>>, m + 3)
    <3>1. w[m + 3] = Visit(mail, w[m + 2], m + 3)
      BY <2>5
    <3>2. /\ Len(w[m + 2].leaves) < MaxParts /\ mail[m + 3].kind # "multi"
          /\ ~ (mail[m + 3].depth > w[m + 2].within)
      BY <2>4, <2>7, <2>8, CapAssumption
    <3> DEFINE next == Visit(mail, w[m + 2], m + 3)
    <3>3. /\ next \in Walk /\ next.within = mail[m + 3].depth /\ ~next.truncated
          /\ next.leaves = Append(w[m + 2].leaves, m + 3)
      BY <2>5, <2>7, <3>2, LeafTaken
    <3> HIDE DEF next
    <3> QED BY <2>4, <2>8, <3>1, <3>3 DEF next
  <2>10. /\ Len(w[m + 3].leaves) = 2 /\ w[m + 3].leaves[1] = m + 2 /\ w[m + 3].leaves[2] = m + 3
    BY <2>9
  <2>11. Bodied(o) = 2 /\ (m + 3) - 2 = m + 1 /\ \A x \in 1..2 : x = 1 \/ x = 2
    BY <1>2 DEF Bodied
  <2>12. BodiesRead(o, mail, w[m + 3], m + 3)
    <3>1. \A x \in 1..2 : w[m + 3].leaves[x] = (m + 1) + x
      BY <2>10, <2>11
    <3>2. \A x \in 1..2 : /\ ~mail[(m + 1) + x].filed
                          /\ mail[(m + 1) + x].kind = IF o.plain /\ x = 1 THEN "plain" ELSE "html"
      <4>1. (m + 1) + 1 = m + 2 /\ (m + 1) + 2 = m + 3
        OBVIOUS
      <4> QED BY <1>2, <2>4, <2>11, <4>1
    <3> QED BY <2>4, <2>9, <2>10, <2>11, <3>1, <3>2 DEF BodiesRead
  <2>13. mail[m + 3].depth >= depth
    BY <2>4
  <2> QED BY <2>2, <2>12, <2>13
<1>3. CASE ~ (o.plain /\ o.html)
  <2> DEFINE kind == IF o.plain THEN "plain" ELSE "html"
  <2>1. Bodies(o, depth) = <<At(depth, kind, FALSE)>>
    BY <1>3 DEF Bodies
  <2>2. kind # "multi" /\ kind = IF o.plain THEN "plain" ELSE "html"
    OBVIOUS
  <2> HIDE DEF kind
  <2>3. Len(Bodies(o, depth)) = 1 /\ mail[m + 1] = At(depth, kind, FALSE)
    <3> DEFINE b == Bodies(o, depth)
    <3>1. Len(b) = 1 /\ b[1] = At(depth, kind, FALSE)
      BY <2>1
    <3>2. 1 \in 1..Len(b)
      BY <3>1
    <3>3. \A n \in 1..Len(b) : mail[m + n] = b[n]
      OBVIOUS
    <3> HIDE DEF b
    <3>4. mail[m + 1] = At(depth, kind, FALSE)
      BY <3>1, <3>2, <3>3
    <3> QED BY <3>1, <3>4 DEF b
  <2>4. mail[m + 1].kind = kind /\ mail[m + 1].depth = depth /\ ~mail[m + 1].filed
    BY <2>3 DEF At
  <2>5. m + 1 \in 1..Len(mail) /\ (m + 1) - 1 = m
    BY <1>0, <2>3
  <2>6. /\ w[m + 1] \in Walk /\ w[m + 1].within = depth /\ ~w[m + 1].truncated
        /\ w[m + 1].leaves = Append(<<>>, m + 1)
    <3>1. w[m + 1] = Visit(mail, Start, m + 1)
      BY <2>5
    <3>2. Len(Start.leaves) < MaxParts /\ mail[m + 1].kind # "multi"
      BY <1>1, <2>2, <2>4, CapAssumption
    <3>3. ~ (Start.within >= 0 /\ mail[m + 1].depth > Start.within)
      BY <1>1
    <3> DEFINE next == Visit(mail, Start, m + 1)
    <3>4. /\ next \in Walk /\ next.within = mail[m + 1].depth /\ ~next.truncated
          /\ next.leaves = Append(Start.leaves, m + 1)
      BY <1>1, <2>5, <3>2, <3>3, LeafTaken
    <3> HIDE DEF next
    <3> QED BY <1>1, <2>4, <3>1, <3>4 DEF next
  <2>7. Len(w[m + 1].leaves) = 1 /\ w[m + 1].leaves[1] = m + 1
    BY <2>6
  <2>8. Bodied(o) = 1 /\ (m + 1) - 1 = m /\ \A x \in 1..1 : x = 1
    BY <1>3 DEF Bodied
  <2>9. BodiesRead(o, mail, w[m + 1], m + 1)
    BY <2>2, <2>4, <2>6, <2>7, <2>8 DEF BodiesRead
  <2>10. mail[m + 1].depth >= depth
    BY <2>4
  <2> QED BY <2>3, <2>9, <2>10
<1> QED BY <1>2, <1>3

-----------------------------------------------------------------------------
(* An attachment is one filed part at the top of the message, which is no  *)
(* multipart, and perhaps one part beneath it.                             *)
LEMMA AttachedParts ==
    ASSUME NEW kind \in Attachable
    PROVE  LET block == AttachedAs(kind) IN
           /\ block \in Mails /\ Len(block) \in {1, 2}
           /\ block[1].filed /\ block[1].depth = 1 /\ block[1].kind # "multi"
           /\ kind # "message" => block[1].kind = KindIn(kind)
           /\ Len(block) = 2 => block[2].depth = 2
<1> DEFINE block == AttachedAs(kind)
<1>1. block \in Mails
  BY AttachedType
<1>2. CASE kind = "message"
  <2>1. block = <<At(1, "message", TRUE), At(2, "plain", FALSE)>>
    BY <1>2 DEF AttachedAs
  <2>2. Len(block) = 2 /\ block[1] = At(1, "message", TRUE) /\ block[2] = At(2, "plain", FALSE)
    BY <2>1
  <2>3. block[1].filed /\ block[1].depth = 1 /\ block[1].kind = "message" /\ block[2].depth = 2
    BY <2>2 DEF At
  <2> QED BY <1>1, <1>2, <2>2, <2>3
<1>3. CASE kind = "multi"
  <2>1. block = <<At(1, "hollow", TRUE)>>
    BY <1>3 DEF AttachedAs
  <2>2. Len(block) = 1 /\ block[1] = At(1, "hollow", TRUE)
    BY <2>1
  <2>3. block[1].filed /\ block[1].depth = 1 /\ block[1].kind = "hollow"
    BY <2>2 DEF At
  <2> QED BY <1>1, <1>3, <2>2, <2>3 DEF KindIn
<1>4. CASE kind \notin {"message", "multi"}
  <2>1. block = <<At(1, kind, TRUE)>>
    BY <1>4 DEF AttachedAs
  <2>2. Len(block) = 1 /\ block[1] = At(1, kind, TRUE)
    BY <2>1
  <2>3. block[1].filed /\ block[1].depth = 1 /\ block[1].kind = kind
    BY <2>2 DEF At
  <2> QED BY <1>1, <1>4, <2>2, <2>3 DEF KindIn
<1> QED BY <1>2, <1>3, <1>4

(* One message after another.                                              *)
LEMMA Appended ==
    ASSUME NEW s \in Mails, NEW t \in Mails
    PROVE  /\ Len(s \o t) = Len(s) + Len(t)
           /\ \A n \in 1..Len(s) : (s \o t)[n] = s[n]
           /\ \A n \in 1..Len(t) : (s \o t)[Len(s) + n] = t[n]
  BY DEF Mails

(* How a message with attachments is built: what there is stays, and each  *)
(* attachment is put after it.                                             *)
Built(o, b) ==
    /\ b \in [0..Len(o.attachments) -> Mails]
    /\ b[0] = Beginning(o)
    /\ \A k \in 1..Len(o.attachments) : b[k] = Adding(o, b[k - 1], k)
    /\ Build(o) = b[Len(o.attachments)]

(* The k-th attachment is after those before it.                           *)
Put(o, b, k) ==
    LET block == AttachedAs(o.attachments[k]) IN
    /\ Len(b[k]) = Len(b[k - 1]) + Len(block)
    /\ \A n \in 1..Len(block) : Build(o)[Len(b[k - 1]) + n] = block[n]

(* What is put in stays, after what was there before.                      *)
LEMMA BuiltOn ==
    ASSUME NEW o, o.attachments \in Seq(Attachable), NEW b, Built(o, b),
           NEW k \in 0..Len(o.attachments)
    PROVE  /\ Len(b[k]) \in Nat /\ Len(b[k]) <= Len(Build(o))
           /\ \A n \in 1..Len(b[k]) : Build(o)[n] = b[k][n]
           /\ k > 0 => Put(o, b, k)
<1> DEFINE c == Len(o.attachments)
<1>1. c \in Nat /\ \A j \in 1..c : o.attachments[j] \in Attachable
  OBVIOUS
<1>2. \A j \in 0..c : b[j] \in Mails /\ Len(b[j]) \in Nat
  BY PartsOf DEF Built
<1>3. ASSUME NEW j \in 1..c
      PROVE  LET block == AttachedAs(o.attachments[j]) IN
             /\ block \in Mails /\ Len(block) \in Nat
             /\ Len(b[j]) = Len(b[j - 1]) + Len(block)
             /\ \A n \in 1..Len(b[j - 1]) : b[j][n] = b[j - 1][n]
             /\ \A n \in 1..Len(block) : b[j][Len(b[j - 1]) + n] = block[n]
  <2> DEFINE block == AttachedAs(o.attachments[j])
  <2>1. block \in Mails /\ Len(block) \in Nat
    BY <1>1, AttachedType, PartsOf
  <2>2. b[j] = b[j - 1] \o block
    BY DEF Built, Adding
  <2>3. j - 1 \in 0..c
    BY <1>1
  <2> HIDE DEF block
  <2>4. b[j - 1] \in Mails
    BY <1>2, <2>3
  <2>5. /\ Len(b[j]) = Len(b[j - 1]) + Len(block)
        /\ \A n \in 1..Len(b[j - 1]) : b[j][n] = b[j - 1][n]
        /\ \A n \in 1..Len(block) : b[j][Len(b[j - 1]) + n] = block[n]
    BY <2>1, <2>2, <2>4, Appended
  <2> QED BY <2>1, <2>5 DEF block
<1> DEFINE Grows(i, j) == Len(b[i]) <= Len(b[j]) /\ \A n \in 1..Len(b[i]) : b[j][n] = b[i][n]
           P == {j \in 0..c : \A i \in 0..j : Grows(i, j)}
<1>4. 0 \in P
  <2>1. \A i \in 0..0 : i = 0
    OBVIOUS
  <2>2. Grows(0, 0)
    BY <1>1, <1>2
  <2> HIDE DEF Grows, c
  <2> QED BY <1>1, <2>1, <2>2
<1>5. ASSUME NEW j \in 1..c, j - 1 \in P PROVE j \in P
  <2>1. ASSUME NEW i \in 0..j PROVE Grows(i, j)
    <3>1. CASE i = j
      BY <1>1, <1>2, <3>1
    <3>2. CASE i # j
      <4>1. i \in 0..(j - 1) /\ i \in 0..c /\ j - 1 \in 0..c /\ j \in 0..c
        BY <1>1, <3>2
      <4>2. Grows(i, j - 1)
        BY <1>5, <4>1
      <4>3. /\ Len(b[i]) \in Nat /\ Len(b[j - 1]) \in Nat /\ Len(b[j]) \in Nat
            /\ Len(b[j - 1]) <= Len(b[j])
        <5>1. Len(b[i]) \in Nat /\ Len(b[j - 1]) \in Nat /\ Len(b[j]) \in Nat
          BY <1>2, <4>1
        <5>2. \E l \in Nat : Len(b[j]) = Len(b[j - 1]) + l
          BY <1>3
        <5> QED BY <5>1, <5>2
      <4>4. \A n \in 1..Len(b[i]) : n \in 1..Len(b[j - 1]) /\ b[j - 1][n] = b[i][n]
        BY <4>2, <4>3
      <4>5. \A n \in 1..Len(b[i]) : b[j][n] = b[i][n]
        BY <1>3, <4>4
      <4>6. Len(b[i]) <= Len(b[j])
        BY <4>2, <4>3
      <4> QED BY <4>5, <4>6
    <3> QED BY <3>1, <3>2
  <2> HIDE DEF Grows
  <2>2. j \in 0..c
    BY <1>1
  <2> QED BY <2>1, <2>2
<1>6. \A j \in 0..c : j \in P
  <2> HIDE DEF P, c
  <2> QED BY <1>1, <1>4, <1>5, Upward
<1>7. \A j \in 0..c : Grows(j, c) /\ Build(o) = b[c]
  <2> HIDE DEF Grows
  <2> QED BY <1>1, <1>6 DEF Built
<1>8. /\ Len(b[k]) \in Nat /\ Len(b[k]) <= Len(Build(o))
      /\ \A n \in 1..Len(b[k]) : Build(o)[n] = b[k][n]
  BY <1>2, <1>7
<1>9. ASSUME k > 0
      PROVE  Put(o, b, k)
  <2> DEFINE block == AttachedAs(o.attachments[k])
  <2>1. k \in 1..c /\ k - 1 \in 0..c
    BY <1>1, <1>9
  <2>2. /\ Len(block) \in Nat /\ Len(b[k]) = Len(b[k - 1]) + Len(block)
        /\ \A n \in 1..Len(block) : b[k][Len(b[k - 1]) + n] = block[n]
    BY <1>3, <2>1
  <2>3. Len(b[k - 1]) \in Nat
    BY <1>2, <2>1
  <2> HIDE DEF block
  <2>4. \A n \in 1..Len(block) : Len(b[k - 1]) + n \in 1..Len(b[k])
    BY <2>2, <2>3
  <2>5. \A n \in 1..Len(block) : Build(o)[Len(b[k - 1]) + n] = block[n]
    BY <1>8, <2>2, <2>4
  <2> QED BY <2>2, <2>5 DEF block, Put
<1> QED BY <1>8, <1>9

-----------------------------------------------------------------------------
(* The bodies and the first i attachments have been walked over: the       *)
(* leaves are the bodies and those attachments, or as many of them as fit. *)
AttachedRead(o, mail, b, walk, i) ==
    LET h == Len(b[0]) IN
    /\ walk \in Walk /\ walk.within >= 1
    /\ Len(walk.leaves) \in Bodied(o)..(Bodied(o) + i)
    /\ walk.truncated => Len(walk.leaves) >= MaxParts
    /\ ~walk.truncated => Len(walk.leaves) = Bodied(o) + i
    /\ \A x \in 1..Bodied(o) : walk.leaves[x] = (h - Bodied(o)) + x
    /\ \A x \in 1..i : Bodied(o) + x <= Len(walk.leaves) =>
                           walk.leaves[Bodied(o) + x] = Len(b[x - 1]) + 1

(* One attachment more leaves that so.                                     *)
LEMMA AttachedOn ==
    ASSUME NEW o, o.attachments \in Seq(Attachable), NEW b, Built(o, b),
           NEW mail \in Mails, mail = Build(o),
           NEW w \in [0..Len(mail) -> Walk],
           \A k \in 1..Len(mail) : w[k] = Visit(mail, w[k - 1], k),
           NEW i \in 1..Len(o.attachments),
           AttachedRead(o, mail, b, w[Len(b[i - 1])], i - 1)
    PROVE  AttachedRead(o, mail, b, w[Len(b[i])], i)
<1> DEFINE c == Len(o.attachments)
           block == AttachedAs(o.attachments[i])
           e == Len(b[i - 1])
           s == e + 1
           walk == w[e]
           nb == Bodied(o)
<1>1. c \in Nat /\ i \in 0..c /\ i - 1 \in 0..c /\ o.attachments[i] \in Attachable /\ i > 0
  OBVIOUS
<1>2. /\ Len(block) \in {1, 2}
      /\ block[1].filed /\ block[1].depth = 1 /\ block[1].kind # "multi"
      /\ Len(block) = 2 => block[2].depth = 2
  BY <1>1, AttachedParts
<1>3. /\ e \in Nat /\ Len(b[i]) \in Nat /\ Len(b[i]) <= Len(mail)
      /\ Len(b[i]) = e + Len(block)
      /\ \A n \in 1..Len(block) : mail[e + n] = block[n]
  <2>1. Len(b[i - 1]) \in Nat
    BY <1>1, BuiltOn
  <2>2. Len(b[i]) \in Nat /\ Len(b[i]) <= Len(Build(o))
    BY <1>1, BuiltOn
  <2>3. Put(o, b, i)
    BY <1>1, BuiltOn
  <2> QED BY <2>1, <2>2, <2>3 DEF Put
<1>4. Len(mail) \in Nat
  BY PartsOf
<1>5. nb \in {1, 2}
  BY DEF Bodied
<1> HIDE DEF block, c
<1>6. /\ walk \in Walk /\ walk.within >= 1 /\ walk.within \in Int
      /\ Len(walk.leaves) \in nb..(nb + (i - 1))
      /\ walk.truncated => Len(walk.leaves) >= MaxParts
      /\ ~walk.truncated => Len(walk.leaves) = nb + (i - 1)
      /\ \A x \in 1..nb : walk.leaves[x] = (Len(b[0]) - nb) + x
      /\ \A x \in 1..(i - 1) : nb + x <= Len(walk.leaves) =>
                                   walk.leaves[nb + x] = Len(b[x - 1]) + 1
      /\ walk.leaves \in Seq(Nat)
  BY DEF AttachedRead, Walk
<1> HIDE DEF e, nb, walk
<1>7. s \in 1..Len(mail) /\ s - 1 = e /\ mail[s] = block[1]
  <2>1. 1 \in 1..Len(block) /\ 1 <= Len(block)
    BY <1>2
  <2>2. Len(block) \in Nat
    BY <1>2
  <2> QED BY <1>3, <1>4, <2>1, <2>2
<1>8. /\ w[s] \in Walk /\ w[s].within = 1
      /\ \/ /\ w[s].leaves = walk.leaves /\ w[s].truncated
            /\ Len(walk.leaves) >= MaxParts
         \/ /\ w[s].leaves = Append(walk.leaves, s) /\ w[s].truncated = walk.truncated
            /\ Len(walk.leaves) < MaxParts
  <2>1. w[s] = Visit(mail, walk, s)
    BY <1>7 DEF walk
  <2>2. mail[s].kind # "multi" /\ ~ (walk.within >= 0 /\ mail[s].depth > walk.within)
    BY <1>2, <1>6, <1>7
  <2> DEFINE next == Visit(mail, walk, s)
  <2>3. /\ next \in Walk /\ next.within = mail[s].depth
        /\ \/ /\ Len(walk.leaves) >= MaxParts
              /\ next.leaves = walk.leaves /\ next.truncated
           \/ /\ Len(walk.leaves) < MaxParts
              /\ next.leaves = Append(walk.leaves, s) /\ next.truncated = walk.truncated
    <3> HIDE DEF s
    <3> QED BY <1>6, <1>7, <2>2, LeafVisited
  <2> HIDE DEF next, s
  <2> QED BY <1>2, <1>7, <2>1, <2>3 DEF next
<1>9. w[Len(b[i])] = w[s]
  <2>1. CASE Len(block) = 1
    BY <1>3, <2>1
  <2>2. CASE Len(block) = 2
    <3>1. s + 1 = Len(b[i]) /\ s + 1 \in 1..Len(mail) /\ (s + 1) - 1 = s /\ mail[s + 1] = block[2]
      <4>1. 2 \in 1..Len(block) /\ e + 2 = s + 1
        BY <1>3, <2>2
      <4> QED BY <1>3, <1>4, <2>2, <4>1
    <3>2. w[s + 1] = Visit(mail, w[s], s + 1)
      BY <3>1
    <3>3. w[s].within >= 0 /\ mail[s + 1].depth > w[s].within
      BY <1>2, <1>8, <2>2, <3>1
    <3> HIDE DEF s
    <3> QED BY <3>1, <3>2, <3>3 DEF Visit
  <2> QED BY <1>2, <2>1, <2>2
<1> DEFINE next == w[Len(b[i])]
<1>10. CASE /\ w[s].leaves = walk.leaves /\ w[s].truncated
            /\ Len(walk.leaves) >= MaxParts
  <2>1. next.leaves = walk.leaves /\ next.truncated /\ next \in Walk /\ next.within = 1
    BY <1>8, <1>9, <1>10
  <2> HIDE DEF next
  <2>2. Len(next.leaves) \in nb..(nb + i) /\ Len(next.leaves) < nb + i
    <3>1. i \in Nat /\ nb \in Nat
      BY <1>1, <1>5
    <3> QED BY <1>6, <2>1, <3>1
  <2>3. \A x \in 1..i : nb + x <= Len(next.leaves) =>
                           x \in 1..(i - 1) /\ next.leaves[nb + x] = Len(b[x - 1]) + 1
    BY <1>1, <1>5, <1>6, <2>1, <2>2
  <2>4. Len(next.leaves) >= MaxParts
    BY <1>10, <2>1
  <2> QED BY <1>6, <2>1, <2>2, <2>3, <2>4 DEF AttachedRead, nb, next
<1>11. CASE /\ w[s].leaves = Append(walk.leaves, s) /\ w[s].truncated = walk.truncated
            /\ Len(walk.leaves) < MaxParts
  <2> DEFINE l == Len(walk.leaves)
  <2>1. /\ next.leaves = Append(walk.leaves, s) /\ next.truncated = walk.truncated
        /\ next \in Walk /\ next.within = 1
    BY <1>8, <1>9, <1>11
  <2> HIDE DEF next
  <2>2. ~walk.truncated /\ l = nb + (i - 1) /\ l \in Nat
    BY <1>6, <1>11, CapAssumption
  <2>3. ~next.truncated
    BY <2>1, <2>2
  <2>4. /\ Len(next.leaves) = nb + i /\ next.leaves[l + 1] = s
        /\ \A x \in 1..l : next.leaves[x] = walk.leaves[x]
    <3> HIDE DEF s
    <3>1. /\ Len(next.leaves) = l + 1 /\ next.leaves[l + 1] = s
          /\ \A x \in 1..l : next.leaves[x] = walk.leaves[x]
      BY <1>6, <1>7, <2>1, <2>2
    <3> QED BY <1>1, <1>5, <2>2, <3>1
  <2>5. \A x \in 1..nb : next.leaves[x] = (Len(b[0]) - nb) + x
    <3>1. \A x \in 1..nb : x \in 1..l
      BY <1>1, <1>5, <2>2
    <3> QED BY <1>6, <2>4, <3>1
  <2>6. ASSUME NEW x \in 1..i PROVE next.leaves[nb + x] = Len(b[x - 1]) + 1
    <3>1. CASE x = i
      <4>1. nb + x = l + 1
        BY <1>1, <1>5, <2>2, <3>1
      <4> QED BY <2>4, <3>1, <4>1 DEF e
    <3>2. CASE x # i
      <4>1. x \in 1..(i - 1) /\ nb + x \in 1..l /\ nb + x <= l
        BY <1>1, <1>5, <2>2, <3>2
      <4> QED BY <1>6, <2>4, <4>1
    <3> QED BY <3>1, <3>2
  <2>7. Len(next.leaves) \in nb..(nb + i)
    BY <1>1, <1>5, <2>4
  <2> HIDE DEF s
  <2>8. /\ next \in Walk /\ next.within >= 1
        /\ Len(next.leaves) \in nb..(nb + i)
        /\ next.truncated => Len(next.leaves) >= MaxParts
        /\ ~next.truncated => Len(next.leaves) = nb + i
        /\ \A x \in 1..nb : next.leaves[x] = (Len(b[0]) - nb) + x
        /\ \A x \in 1..i : nb + x <= Len(next.leaves) =>
                               next.leaves[nb + x] = Len(b[x - 1]) + 1
    <3>1. next \in Walk /\ next.within >= 1
      BY <2>1
    <3>2. Len(next.leaves) = nb + i
      BY <2>4
    <3> HIDE DEF next
    <3> QED BY <2>3, <2>5, <2>6, <2>7, <3>1, <3>2
  <2> QED BY <2>8 DEF AttachedRead, nb, next
<1> QED BY <1>8, <1>10, <1>11

-----------------------------------------------------------------------------
(* The walk over a message that was built: its leaves are its bodies, and  *)
(* its attachments as far as they fit.                                     *)
Arrived(o, mail, walk) ==
    LET nb == Bodied(o)
        c == Len(o.attachments)
    IN /\ walk.leaves \in Seq(Nat) /\ Len(walk.leaves) \in nb..(nb + c)
       /\ ~walk.truncated => Len(walk.leaves) = nb + c
       /\ \A x \in 1..nb :
              /\ ~mail[walk.leaves[x]].filed
              /\ mail[walk.leaves[x]].kind = IF o.plain /\ x = 1 THEN "plain" ELSE "html"
       /\ \A x \in 1..c : nb + x <= Len(walk.leaves) =>
              /\ mail[walk.leaves[nb + x]].filed
              /\ o.attachments[x] # "message" =>
                     mail[walk.leaves[nb + x]].kind = KindIn(o.attachments[x])

(* So every message that is built arrives.                                 *)
LEMMA BuiltArrives ==
    ASSUME NEW o, HasBody(o), o.attachments \in Seq(Attachable)
    PROVE  Build(o) \in Mails /\ Arrived(o, Build(o), Leaves(Build(o)))
<1> DEFINE c == Len(o.attachments)
           nb == Bodied(o)
<1>1. c \in Nat /\ nb \in {1, 2}
  BY DEF Bodied
<1>2. CASE o.attachments = <<>>
  <2> DEFINE mail == Bodies(o, 0)
  <2>1. Build(o) = mail /\ c = 0
    BY <1>2 DEF Build
  <2>2. mail \in Mails
    BY BodiesType
  <2>3. PICK w \in [0..Len(mail) -> Walk] :
                 /\ w[0] = Start
                 /\ \A k \in 1..Len(mail) : w[k] = Visit(mail, w[k - 1], k)
                 /\ Leaves(mail) = w[Len(mail)]
    <3> HIDE DEF mail
    <3> QED BY <2>2, WalkGoesOn
  <2>4. Len(mail) \in Nat
    <3> HIDE DEF mail
    <3> QED BY <2>2, PartsOf
  <2>5. BodiesRead(o, mail, w[Len(mail)], Len(mail))
    <3>1. 0 + Len(mail) = Len(mail) /\ \A n \in 1..Len(mail) : mail[0 + n] = mail[n]
      <4> HIDE DEF mail
      <4> QED BY <2>4
    <3>2. BodiesRead(o, mail, w[0 + Len(mail)], 0 + Len(mail))
      <4>1. 0 + Len(Bodies(o, 0)) <= Len(mail)
        BY <2>4, <3>1
      <4>2. \A n \in 1..Len(Bodies(o, 0)) : mail[0 + n] = Bodies(o, 0)[n]
        BY <3>1
      <4>3. 0 \in {0, 1} /\ 0 \in Nat
        OBVIOUS
      <4> HIDE DEF mail
      <4> QED BY <2>2, <2>3, <4>1, <4>2, <4>3, BodiesWalked DEF mail
    <3> QED BY <3>1, <3>2
  <2> HIDE DEF mail, nb, c
  <2>6. w[Len(mail)].leaves \in Seq(Nat)
    BY <2>5 DEF BodiesRead, Walk
  <2>7. \A x \in 1..c : FALSE
    BY <2>1
  <2>8. nb + c = nb /\ nb \in nb..nb
    BY <1>1, <2>1
  <2>9. Arrived(o, mail, w[Len(mail)])
    BY <2>5, <2>6, <2>7, <2>8 DEF Arrived, BodiesRead, nb, c
  <2> QED BY <2>1, <2>2, <2>3, <2>9
<1>3. CASE o.attachments # <<>>
  <2> DEFINE mail == Build(o)
  <2>1. PICK b : Built(o, b)
    BY <1>3, BuildGoesOn DEF Built
  <2>2. mail \in Mails
    BY <1>1, <2>1 DEF Built
  <2>3. PICK w \in [0..Len(mail) -> Walk] :
                 /\ w[0] = Start
                 /\ \A k \in 1..Len(mail) : w[k] = Visit(mail, w[k - 1], k)
                 /\ Leaves(mail) = w[Len(mail)]
    <3> HIDE DEF mail
    <3> QED BY <2>2, WalkGoesOn
  <2> DEFINE h == Len(b[0])
             bodies == Bodies(o, 1)
             root == <<At(0, "multi", FALSE)>>
  <2>4. /\ h \in Nat /\ h <= Len(mail) /\ \A n \in 1..h : mail[n] = b[0][n]
        /\ b[0] = root \o bodies
    <3>1. 0 \in 0..c
      BY <1>1
    <3> QED BY <2>1, <3>1, BuiltOn DEF Built, Beginning
  <2>5. /\ Len(bodies) \in Nat /\ h = 1 + Len(bodies) /\ mail[1] = At(0, "multi", FALSE)
        /\ \A n \in 1..Len(bodies) : mail[1 + n] = bodies[n]
    <3>1. root \in Mails /\ Len(root) = 1 /\ root[1] = At(0, "multi", FALSE)
      <4>1. At(0, "multi", FALSE) \in Part
        BY AtIsPart DEF Kinds
      <4> QED BY <4>1, FewParts
    <3>2. bodies \in Mails
      BY BodiesType
    <3> HIDE DEF root, bodies, mail
    <3>3. Len(bodies) \in Nat
      BY <3>2, PartsOf
    <3>4. /\ h = 1 + Len(bodies)
          /\ \A n \in 1..1 : b[0][n] = root[n]
          /\ \A n \in 1..Len(bodies) : b[0][1 + n] = bodies[n]
      <4>1. /\ Len(root \o bodies) = Len(root) + Len(bodies)
            /\ \A n \in 1..Len(root) : (root \o bodies)[n] = root[n]
            /\ \A n \in 1..Len(bodies) : (root \o bodies)[Len(root) + n] = bodies[n]
        BY <3>1, <3>2, Appended
      <4>2. b[0] = root \o bodies
        BY <2>4
      <4> QED BY <3>1, <4>1, <4>2
    <3> HIDE DEF h
    <3>5. 1 \in 1..1 /\ 1 \in 1..h /\ \A n \in 1..Len(bodies) : 1 + n \in 1..h
      BY <3>3, <3>4
    <3> QED BY <2>4, <3>1, <3>3, <3>4, <3>5
  <2>6. w[1] = Start
    <3>1. mail[1].kind = "multi" /\ mail[1].depth = 0
      BY <2>5 DEF At
    <3>2. 1 \in 1..Len(mail) /\ 1 - 1 = 0
      <4>1. Len(mail) \in Nat
        <5> HIDE DEF mail
        <5> QED BY <2>2, PartsOf
      <4> HIDE DEF mail, h, bodies
      <4> QED BY <2>4, <2>5, <4>1
    <3> HIDE DEF mail
    <3>3. w[1] = Visit(mail, w[0], 1)
      BY <2>3, <3>2
    <3> QED BY <2>3, <3>1, <3>3, RootVisited, CapAssumption
  <2>7. BodiesRead(o, mail, w[h], h) /\ mail[h].depth >= 1
    <3>1. 1 + Len(bodies) <= Len(mail)
      BY <2>4, <2>5
    <3>2. BodiesRead(o, mail, w[1 + Len(bodies)], 1 + Len(bodies)) /\ mail[1 + Len(bodies)].depth >= 1
      <4>1. 1 \in {0, 1} /\ 1 \in Nat
        OBVIOUS
      <4>2. \A n \in 1..Len(Bodies(o, 1)) : mail[1 + n] = Bodies(o, 1)[n]
        BY <2>5
      <4>3. 1 + Len(Bodies(o, 1)) <= Len(mail)
        BY <3>1
      <4> HIDE DEF mail, bodies
      <4> QED BY <2>2, <2>3, <2>6, <4>1, <4>2, <4>3, BodiesWalked DEF bodies
    <3> HIDE DEF mail, bodies, h
    <3> QED BY <2>5, <3>2
  <2> HIDE DEF mail
  <2> DEFINE P == {i \in 0..c : AttachedRead(o, mail, b, w[Len(b[i])], i)}
  <2>8. 0 \in P
    <3>1. w[h] \in Walk /\ w[h].within >= 1 /\ Len(w[h].leaves) = nb /\ ~w[h].truncated
      BY <2>7 DEF BodiesRead
    <3>2. \A x \in 1..nb : w[h].leaves[x] = (h - nb) + x
      BY <2>7 DEF BodiesRead
    <3>3. (\A x \in 1..0 : FALSE) /\ nb + 0 = nb /\ nb \in nb..(nb + 0)
      BY <1>1
    <3> HIDE DEF nb
    <3>4. AttachedRead(o, mail, b, w[Len(b[0])], 0)
      BY <3>1, <3>2, <3>3 DEF AttachedRead, nb
    <3>5. 0 \in 0..c
      BY <1>1
    <3> QED BY <3>4, <3>5
  <2>9. ASSUME NEW i \in 1..c, i - 1 \in P PROVE i \in P
    <3>1. AttachedRead(o, mail, b, w[Len(b[i - 1])], i - 1) /\ i \in 0..c
      BY <1>1, <2>9
    <3>2. AttachedRead(o, mail, b, w[Len(b[i])], i)
      BY <2>1, <2>2, <2>3, <3>1, AttachedOn DEF mail
    <3> QED BY <3>1, <3>2
  <2>10. \A i \in 0..c : i \in P
    <3> HIDE DEF P, c
    <3> QED BY <1>1, <2>8, <2>9, Upward
  <2> DEFINE walk == Leaves(mail)
  <2>11. AttachedRead(o, mail, b, walk, c)
    <3>1. c \in P
      BY <1>1, <2>10
    <3>2. b[c] = mail
      BY <2>1 DEF Built, mail
    <3> QED BY <2>3, <3>1, <3>2
  <2>12. /\ walk \in Walk /\ Len(walk.leaves) \in nb..(nb + c)
         /\ ~walk.truncated => Len(walk.leaves) = nb + c
         /\ \A x \in 1..nb : walk.leaves[x] = (h - nb) + x
         /\ \A x \in 1..c : nb + x <= Len(walk.leaves) =>
                                walk.leaves[nb + x] = Len(b[x - 1]) + 1
    BY <2>11 DEF AttachedRead
  <2>13. \A x \in 1..nb : /\ ~mail[(h - nb) + x].filed
                          /\ mail[(h - nb) + x].kind = IF o.plain /\ x = 1 THEN "plain" ELSE "html"
    BY <2>7 DEF BodiesRead
  <2>14. ASSUME NEW x \in 1..c
         PROVE  /\ mail[Len(b[x - 1]) + 1].filed
                /\ o.attachments[x] # "message" =>
                       mail[Len(b[x - 1]) + 1].kind = KindIn(o.attachments[x])
    <3> DEFINE block == AttachedAs(o.attachments[x])
    <3>1. x \in 0..c /\ x > 0 /\ o.attachments[x] \in Attachable
      BY <1>1
    <3>2. Put(o, b, x)
      BY <2>1, <3>1, BuiltOn
    <3>3. /\ Len(block) \in {1, 2} /\ block[1].filed
          /\ o.attachments[x] # "message" => block[1].kind = KindIn(o.attachments[x])
      BY <3>1, AttachedParts
    <3>4. \A n \in 1..Len(block) : mail[Len(b[x - 1]) + n] = block[n]
      BY <3>2 DEF Put, mail
    <3> HIDE DEF block
    <3>5. 1 \in 1..Len(block)
      BY <3>3
    <3>6. mail[Len(b[x - 1]) + 1] = block[1]
      BY <3>4, <3>5
    <3> QED BY <3>3, <3>6
  <2>15. walk.leaves \in Seq(Nat)
    BY <2>12 DEF Walk
  <2> HIDE DEF walk, nb, c, h
  <2>16. Arrived(o, mail, walk)
    <3>1. \A x \in 1..nb :
              /\ ~mail[walk.leaves[x]].filed
              /\ mail[walk.leaves[x]].kind = IF o.plain /\ x = 1 THEN "plain" ELSE "html"
      BY <2>12, <2>13
    <3>2. ASSUME NEW x \in 1..c, nb + x <= Len(walk.leaves)
          PROVE  /\ mail[walk.leaves[nb + x]].filed
                 /\ o.attachments[x] # "message" =>
                        mail[walk.leaves[nb + x]].kind = KindIn(o.attachments[x])
      <4>1. walk.leaves[nb + x] = Len(b[x - 1]) + 1
        BY <2>12, <3>2
      <4> QED BY <2>14, <4>1
    <3> QED BY <2>12, <2>15, <3>1, <3>2 DEF Arrived, nb, c
  <2> QED BY <2>2, <2>16 DEF walk, mail
<1> QED BY <1>2, <1>3

-----------------------------------------------------------------------------
(* What so arrives is read as it was sent: the first bodies are the text   *)
(* and the HTML, and whatever is filed is an attachment.                   *)
LEMMA RolesOfArrived ==
    ASSUME NEW o, HasBody(o), o.attachments \in Seq(Attachable), NEW mail, NEW walk,
           Arrived(o, mail, walk)
    PROVE  LET roles == Roles(mail, walk.leaves)
               nb == Bodied(o)
           IN /\ \A x \in 1..nb : roles[x] = IF o.plain /\ x = 1 THEN "plain" ELSE "html"
              /\ \A x \in (nb + 1)..Len(walk.leaves) : roles[x] = "attachment"
<1> DEFINE leaves == walk.leaves
           nb == Bodied(o)
           c == Len(o.attachments)
           Body(i, kind) == mail[leaves[i]].kind = kind /\ ~mail[leaves[i]].filed
           First(i, kind) == Body(i, kind) /\ \A j \in DOMAIN leaves : j < i => ~Body(j, kind)
           roles == Roles(mail, leaves)
<1>1. /\ leaves \in Seq(Nat) /\ Len(leaves) \in nb..(nb + c) /\ DOMAIN leaves = 1..Len(leaves)
      /\ \A x \in 1..nb :
             /\ ~mail[leaves[x]].filed
             /\ mail[leaves[x]].kind = IF o.plain /\ x = 1 THEN "plain" ELSE "html"
      /\ \A x \in 1..c : nb + x <= Len(leaves) => mail[leaves[nb + x]].filed
  BY DEF Arrived
<1>2. nb \in {1, 2} /\ c \in Nat /\ (nb = 2 => o.plain /\ o.html) /\ (~o.plain => nb = 1)
  BY DEF Bodied
<1>3. \A x \in DOMAIN leaves :
          roles[x] = IF First(x, "plain") THEN "plain"
                     ELSE IF First(x, "html") THEN "html" ELSE "attachment"
  BY DEF Roles
<1> HIDE DEF leaves, roles, nb, c
<1>4. ASSUME NEW x \in (nb + 1)..Len(leaves) PROVE roles[x] = "attachment"
  <2>1. x - nb \in 1..c /\ nb + (x - nb) = x /\ x <= Len(leaves) /\ x \in 1..Len(leaves)
    BY <1>1, <1>2
  <2>2. mail[leaves[nb + (x - nb)]].filed
    BY <1>1, <2>1
  <2>3. mail[leaves[x]].filed
    BY <2>1, <2>2
  <2>4. ~First(x, "plain") /\ ~First(x, "html")
    BY <2>3
  <2> HIDE DEF First
  <2> QED BY <1>1, <1>3, <2>1, <2>4
<1>5. ASSUME NEW x \in 1..nb PROVE roles[x] = IF o.plain /\ x = 1 THEN "plain" ELSE "html"
  <2>1. x \in 1..Len(leaves) /\ x \in DOMAIN leaves
    BY <1>1, <1>2
  <2>2. CASE x = 1
    <3>1. \A j \in DOMAIN leaves : ~ (j < x)
      BY <1>1, <2>2
    <3>2. CASE o.plain
      <4>1. First(x, "plain")
        BY <1>1, <2>2, <3>1, <3>2
      <4> HIDE DEF First
      <4> QED BY <1>3, <2>1, <2>2, <3>2, <4>1
    <3>3. CASE ~o.plain
      <4>1. First(x, "html") /\ ~First(x, "plain")
        BY <1>1, <2>2, <3>1, <3>3
      <4> HIDE DEF First
      <4> QED BY <1>3, <2>1, <2>2, <3>3, <4>1
    <3> QED BY <3>2, <3>3
  <2>3. CASE x # 1
    <3>1. x = 2 /\ o.plain /\ 1 \in 1..nb
      BY <1>2, <2>3
    <3>2. mail[leaves[1]].kind = "plain" /\ mail[leaves[2]].kind = "html" /\ ~mail[leaves[2]].filed
      BY <1>1, <3>1
    <3>3. \A j \in DOMAIN leaves : j < x => j = 1
      BY <1>1, <3>1
    <3>4. First(x, "html") /\ ~First(x, "plain")
      BY <3>1, <3>2, <3>3
    <3> HIDE DEF First
    <3> QED BY <1>3, <2>1, <2>3, <3>4
  <2> QED BY <2>2, <2>3
<1> QED BY <1>4, <1>5 DEF roles, nb, leaves

(* So the n-th attachment that was sent is the n-th that is filed.         *)
LEMMA FilesOfArrived ==
    ASSUME NEW o, HasBody(o), o.attachments \in Seq(Attachable), NEW mail, NEW walk,
           Arrived(o, mail, walk), ~walk.truncated,
           NEW files, FiledInto(walk.leaves, Roles(mail, walk.leaves), files, Len(walk.leaves))
    PROVE  /\ files \in Seq(Nat) /\ Len(files) = Len(o.attachments)
           /\ \A n \in 1..Len(o.attachments) : files[n] = walk.leaves[Bodied(o) + n]
<1> DEFINE leaves == walk.leaves
           nb == Bodied(o)
           c == Len(o.attachments)
           roles == Roles(mail, leaves)
<1>1. leaves \in Seq(Nat) /\ Len(leaves) = nb + c
  BY DEF Arrived
<1>2. nb \in {1, 2} /\ c \in Nat
  BY DEF Bodied
<1>3. /\ \A x \in 1..nb : roles[x] # "attachment"
      /\ \A x \in (nb + 1)..Len(leaves) : roles[x] = "attachment"
  BY RolesOfArrived
<1>4. FiledInto(leaves, roles, files, Len(leaves))
  OBVIOUS
<1> HIDE DEF leaves, nb, roles, c
<1>5. Filed(roles, nb) = 0
  <2>1. {j \in 1..nb : roles[j] = "attachment"} = {}
    BY <1>3
  <2> QED BY <2>1, FS_EmptySet DEF Filed
<1> DEFINE P == {x \in 0..c : Filed(roles, nb + x) = x}
<1>6. 0 \in P
  BY <1>2, <1>5
<1>7. ASSUME NEW x \in 1..c, x - 1 \in P PROVE x \in P
  <2>1. nb + x \in Nat \ {0} /\ (nb + x) - 1 = nb + (x - 1) /\ nb + x \in (nb + 1)..Len(leaves)
    BY <1>1, <1>2
  <2>2. Filed(roles, nb + x) = Filed(roles, nb + (x - 1)) + 1
    BY <1>3, <2>1, FiledCounts
  <2>3. Filed(roles, nb + (x - 1)) = x - 1
    BY <1>7
  <2> QED BY <1>2, <2>2, <2>3
<1>8. \A x \in 0..c : Filed(roles, nb + x) = x
  <2>1. \A x \in 0..c : x \in P
    <3> HIDE DEF P
    <3> QED BY <1>2, <1>6, <1>7, Upward
  <2> QED BY <2>1
<1>9. files \in Seq(Nat) /\ Len(files) = c
  <2>1. c \in 0..c
    BY <1>2
  <2> QED BY <1>1, <1>4, <1>8, <2>1 DEF FiledInto
<1>10. ASSUME NEW n \in 1..c PROVE files[n] = leaves[nb + n]
  <2>1. nb + n \in 1..Len(leaves) /\ nb + n \in (nb + 1)..Len(leaves)
    BY <1>1, <1>2
  <2>2. (nb + n) - 1 = nb + (n - 1) /\ n - 1 \in 0..c
    BY <1>2
  <2>3. Filed(roles, (nb + n) - 1) + 1 = n
    <3>1. Filed(roles, nb + (n - 1)) = n - 1
      BY <1>8, <2>2
    <3>2. Filed(roles, (nb + n) - 1) = n - 1
      BY <2>2, <3>1
    <3> HIDE DEF c
    <3> QED BY <1>2, <3>2
  <2>4. roles[nb + n] = "attachment"
    BY <1>3, <2>1
  <2>5. files[Filed(roles, (nb + n) - 1) + 1] = leaves[nb + n]
    BY <1>4, <2>1, <2>4 DEF FiledInto
  <2> QED BY <2>3, <2>5
<1> QED BY <1>9, <1>10 DEF leaves, nb, c

(* What SentIsRead says of a row and of what was sent.                     *)
ReadAs(o, mail, row) ==
    LET Is(places, kind) == \A i \in places : mail[i].kind = kind /\ ~mail[i].filed
    IN /\ Cardinality(row.text) = (IF o.plain THEN 1 ELSE 0) /\ Is(row.text, "plain")
       /\ Cardinality(row.html) = (IF o.html THEN 1 ELSE 0) /\ Is(row.html, "html")
       /\ ~row.truncated =>
              /\ Len(row.attachments) = Len(o.attachments)
              /\ \A n \in DOMAIN o.attachments :
                     /\ mail[row.attachments[n]].filed
                     /\ o.attachments[n] # "message" =>
                            Payload(mail, row.attachments[n]) = {row.attachments[n]}
                     /\ o.attachments[n] \notin {"message", "multi"} =>
                            mail[row.attachments[n]].kind = o.attachments[n]

(* What is read of it is what was sent.                                    *)
LEMMA ArrivedIsRead ==
    ASSUME NEW o, HasBody(o), o.plain \in BOOLEAN, o.html \in BOOLEAN,
           o.attachments \in Seq(Attachable), NEW mail,
           Arrived(o, mail, Leaves(mail)), NEW row, Rowed(mail, row)
    PROVE  ReadAs(o, mail, row)
<1> DEFINE walk == Leaves(mail)
           leaves == walk.leaves
           nb == Bodied(o)
           c == Len(o.attachments)
           roles == Roles(mail, leaves)
<1>1. /\ leaves \in Seq(Nat) /\ Len(leaves) \in nb..(nb + c)
      /\ \A x \in 1..nb :
             /\ ~mail[leaves[x]].filed
             /\ mail[leaves[x]].kind = IF o.plain /\ x = 1 THEN "plain" ELSE "html"
      /\ ~walk.truncated => Len(leaves) = nb + c
      /\ \A x \in 1..c : nb + x <= Len(leaves) =>
              /\ mail[leaves[nb + x]].filed
              /\ o.attachments[x] # "message" =>
                     mail[leaves[nb + x]].kind = KindIn(o.attachments[x])
  BY DEF Arrived
<1>2. /\ nb \in {1, 2} /\ c \in Nat /\ DOMAIN o.attachments = 1..c
      /\ (nb = 2 <=> o.plain /\ o.html) /\ (o.plain \/ o.html)
  BY DEF Bodied, HasBody
<1>3. /\ \A x \in 1..nb : roles[x] = IF o.plain /\ x = 1 THEN "plain" ELSE "html"
      /\ \A x \in (nb + 1)..Len(leaves) : roles[x] = "attachment"
  BY RolesOfArrived
<1>4. /\ FiledInto(leaves, roles, row.attachments, Len(leaves))
      /\ row.text = {leaves[i] : i \in {j \in 1..Len(leaves) : roles[j] = "plain"}}
      /\ row.html = {leaves[i] : i \in {j \in 1..Len(leaves) : roles[j] = "html"}}
      /\ ~row.truncated => ~walk.truncated
  BY DEF Rowed
<1>5. ASSUME ~row.truncated
      PROVE  /\ row.attachments \in Seq(Nat) /\ Len(row.attachments) = c
             /\ \A n \in 1..c : row.attachments[n] = leaves[nb + n]
  <2>1. ~walk.truncated
    BY <1>4, <1>5
  <2> QED BY <1>4, <2>1, FilesOfArrived
<1> HIDE DEF leaves, nb, roles, c, walk
<1>6. \A x \in 1..Len(leaves) : x \in 1..nb \/ x \in (nb + 1)..Len(leaves)
  BY <1>1, <1>2
<1>7. \A x \in 1..nb : x \in 1..Len(leaves) /\ (x = 1 \/ (x = nb /\ nb = 2))
  BY <1>1, <1>2
<1>8. 1 \in 1..nb /\ nb \in 1..nb
  BY <1>2
<1>9. Cardinality(row.text) = (IF o.plain THEN 1 ELSE 0)
  <2>1. CASE o.plain
    <3>1. row.text = {leaves[1]}
      <4>1. \A x \in 1..Len(leaves) : roles[x] = "plain" <=> x = 1
        BY <1>3, <1>6, <1>7, <1>8, <2>1
      <4>2. 1 \in 1..Len(leaves)
        BY <1>7, <1>8
      <4> QED BY <1>4, <4>1, <4>2
    <3> QED BY <2>1, <3>1, FS_Singleton
  <2>2. CASE ~o.plain
    <3>1. \A x \in 1..Len(leaves) : roles[x] # "plain"
      BY <1>3, <1>6, <2>2
    <3>2. row.text = {}
      BY <1>4, <3>1
    <3> QED BY <2>2, <3>2, FS_EmptySet
  <2> QED BY <2>1, <2>2
<1>10. Cardinality(row.html) = (IF o.html THEN 1 ELSE 0)
  <2>1. CASE o.html
    <3>1. \A x \in 1..nb : roles[x] = "html" <=> x = nb
      BY <1>2, <1>3, <1>7, <1>8, <2>1
    <3>2. row.html = {leaves[nb]}
      <4>1. \A x \in 1..Len(leaves) : roles[x] = "html" <=> x = nb
        <5>1. \A x \in (nb + 1)..Len(leaves) : x # nb /\ roles[x] # "html"
          BY <1>1, <1>2, <1>3
        <5> QED BY <1>6, <3>1, <5>1
      <4>2. nb \in 1..Len(leaves)
        BY <1>7, <1>8
      <4> QED BY <1>4, <4>1, <4>2
    <3> QED BY <2>1, <3>2, FS_Singleton
  <2>2. CASE ~o.html
    <3>1. o.plain /\ nb = 1
      BY <1>2, <2>2
    <3>2. \A x \in 1..Len(leaves) : roles[x] # "html"
      <4>1. \A x \in 1..nb : roles[x] = "plain"
        BY <1>3, <3>1
      <4> QED BY <1>3, <1>6, <4>1
    <3>3. row.html = {}
      BY <1>4, <3>2
    <3> QED BY <2>2, <3>3, FS_EmptySet
  <2> QED BY <2>1, <2>2
<1>11. \A i \in row.text : mail[i].kind = "plain" /\ ~mail[i].filed
  <2> SUFFICES ASSUME NEW x \in 1..Len(leaves), roles[x] = "plain"
               PROVE  mail[leaves[x]].kind = "plain" /\ ~mail[leaves[x]].filed
    BY <1>4
  <2> QED BY <1>1, <1>3, <1>6
<1>12. \A i \in row.html : mail[i].kind = "html" /\ ~mail[i].filed
  <2> SUFFICES ASSUME NEW x \in 1..Len(leaves), roles[x] = "html"
               PROVE  mail[leaves[x]].kind = "html" /\ ~mail[leaves[x]].filed
    BY <1>4
  <2> QED BY <1>1, <1>3, <1>6
<1>13. ASSUME ~row.truncated, NEW n \in 1..c
       PROVE  /\ mail[row.attachments[n]].filed
              /\ o.attachments[n] # "message" =>
                     Payload(mail, row.attachments[n]) = {row.attachments[n]}
              /\ o.attachments[n] \notin {"message", "multi"} =>
                     mail[row.attachments[n]].kind = o.attachments[n]
  <2>1. row.attachments[n] = leaves[nb + n]
    BY <1>5, <1>13
  <2>2. nb + n <= Len(leaves)
    <3>1. Len(leaves) = nb + c
      BY <1>1, <1>4, <1>13
    <3> QED BY <1>2, <3>1
  <2>3. /\ mail[leaves[nb + n]].filed
        /\ o.attachments[n] # "message" =>
               mail[leaves[nb + n]].kind = KindIn(o.attachments[n])
    BY <1>1, <2>2
  <2>4. o.attachments[n] \in Attachable
    BY DEF c
  <2>5. ASSUME o.attachments[n] # "message"
        PROVE  Payload(mail, leaves[nb + n]) = {leaves[nb + n]}
    <3>1. mail[leaves[nb + n]].kind \in {"plain", "html", "other", "hollow"}
      BY <2>3, <2>4, <2>5 DEF Attachable, KindIn
    <3> QED BY <3>1 DEF Payload
  <2>6. o.attachments[n] \notin {"message", "multi"} =>
            mail[leaves[nb + n]].kind = o.attachments[n]
    BY <2>3 DEF KindIn
  <2> QED BY <2>1, <2>3, <2>5, <2>6
<1>14. DOMAIN o.attachments = 1..c /\ Len(o.attachments) = c
  BY <1>2 DEF c
<1> QED BY <1>5, <1>9, <1>10, <1>11, <1>12, <1>13, <1>14 DEF ReadAs

(* What is composed is a list of attachments.                              *)
LEMMA ComposedType ==
    ASSUME NEW o \in Drafts
    PROVE  o.plain \in BOOLEAN /\ o.html \in BOOLEAN /\ o.attachments \in Seq(Attachable)
<1>1. /\ o.plain \in BOOLEAN /\ o.html \in BOOLEAN
      /\ o.attachments \in BoundedSeq(Attachable, MaxAttachments)
  BY DEF Drafts, Attachable
<1>2. PICK m \in 0..MaxAttachments : o.attachments \in [1..m -> Attachable]
  BY <1>1 DEF BoundedSeq, SeqOf
<1>3. m \in Nat
  BY LengthAssumption
<1> QED BY <1>1, <1>2, <1>3

(* A message that was sent is read as it was composed.                     *)
LEMMA SentHolds == MimeInv => SentIsRead
<1> SUFFICES ASSUME MimeInv, HasBody(draft) PROVE SentIsRead
  BY DEF SentIsRead
<1>1. draft \in Drafts
  <2>1. draft # NoDraft
    BY DEF HasBody, NoDraft
  <2> QED BY <2>1 DEF MimeInv
<1> DEFINE o == draft
           mail == Build(o)
           row == Parse(mail, {})
<1>2. o.plain \in BOOLEAN /\ o.html \in BOOLEAN /\ o.attachments \in Seq(Attachable)
  BY <1>1, ComposedType
<1>3. mail \in Mails /\ Arrived(o, mail, Leaves(mail))
  BY <1>2, BuiltArrives
<1> HIDE DEF mail
<1>4. Rowed(mail, row)
  BY <1>3, RowOfLeaves
<1> HIDE DEF row
<1>5. ReadAs(o, mail, row)
  BY <1>2, <1>3, <1>4, ArrivedIsRead
<1> QED BY <1>5 DEF SentIsRead, ReadAs, row, mail

(* Every index a reader is given leads to its attachment, and a message    *)
(* that is sent is read as it was composed.                                *)
THEOREM ReadAsSent == MimeSpec => []ReadingIsFaithful
<1>1. MimeInv => ReadingIsFaithful
  BY IndexesHold, SentHolds DEF ReadingIsFaithful
<1> QED BY <1>1, MimeInductive, PTL DEF MimeSpec
=============================================================================
