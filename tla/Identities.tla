------------------------------ MODULE Identities ------------------------------
(***************************************************************************)
(* Sending identities: the domains and addresses SES may send from.        *)
(*                                                                         *)
(* An SES identity belongs to an AWS account and a region (one here) and   *)
(* is shared by every project that holds a row for it.  Projects add,      *)
(* refresh and remove their rows, each request one transaction (READ       *)
(* COMMITTED) around its SES call, while the hourly pass of                *)
(* recheck_identities asks about every row that is due and commits once,   *)
(* at its end.  A row that was flushed stays locked until the commit.      *)
(*                                                                         *)
(* SES and the database are not under src/: they are modelled from how     *)
(* src/ uses them.                                                         *)
(***************************************************************************)
EXTENDS Naturals, FiniteSets

CONSTANTS
    Project,     \* projects
    Value,       \* domains and addresses
    Account,     \* AWS accounts
    AccountOf,   \* the account each project is connected to
    Request,     \* requests that can be open at once
    Nothing,     \* no row, or nothing in hand
    MaxStarts,   \* bound: requests made
    MaxFailures  \* bound: calls that fail, processes that die, deletions by hand

ASSUME AccountAssumption == AccountOf \in [Project -> Account]
ASSUME BoundAssumption == MaxStarts \in Nat /\ MaxFailures \in Nat

VARIABLES
    rows,     \* identities, by project and value
    due,      \* those whose recheck interval has elapsed
    ses,      \* what each account holds
    usable,      \* projects with a connection whose key can be read
    at,       \* where each request is
    op,       \* what it has in hand
    pass,     \* where the recheck pass is
    copies,   \* rows it has loaded and not yet asked about
    asking,   \* the one it asks about
    flushed,  \* rows it has written and not committed
    starts,
    failures,
    excused   \* whether something has happened that may leave SES and the rows apart

passVars == <<pass, copies, asking, flushed>>
vars == <<rows, due, ses, usable, at, op, pass, copies, asking, flushed, starts, failures,
          excused>>

Key == Project \X Value
(* All that is told apart: whether the identity may send.                  *)
Statuses == {"pending", "success"}

(* A row added again is another row.                                       *)
Row == [id : 1..MaxStarts, status : Statuses]

Op == [kind : {"add", "refresh", "remove"}, key : Key,
       saw : Row \cup {Nothing},               \* the row as it was loaded
       got : Statuses \cup {Nothing},          \* what SES said of it
       id : 0..MaxStarts]                      \* of the row an add will make

(* A row the pass loaded, and what SES said of it.                         *)
Copy  == [key : Key, saw : Row]
Check == [key : Key, saw : Row, got : Statuses]

ASSUME NothingAssumption == Nothing \notin Op \cup Row \cup Statuses \cup Check

Ended == {"idle", "refused"}
Places == Ended \cup {"creating", "adopting", "finding", "reading", "saving", "counting",
                      "deleting", "dropping", "committing"}
Passing == {"idle", "choosing", "writing"}

Init ==
    /\ rows = [k \in Key |-> Nothing]
    /\ due = {}
    /\ ses = [a \in Account |-> [v \in Value |-> "absent"]]
    /\ usable = {}
    /\ at = [r \in Request |-> "idle"]
    /\ op = [r \in Request |-> Nothing]
    /\ pass = "idle" /\ copies = {} /\ asking = Nothing /\ flushed = {}
    /\ starts = 0 /\ failures = 0
    /\ excused = FALSE

-----------------------------------------------------------------------------
Busy == {r \in Request : at[r] \notin Ended}
Go(r, place) == at' = [at EXCEPT ![r] = place]
Held(k) == rows[k] # Nothing
Same(k, row) == IF row = Nothing THEN ~ Held(k) ELSE Held(k) /\ rows[k].id = row.id
AtSes(k) == ses[AccountOf[k[1]]][k[2]]

(* Rows an open transaction has written: others wait to write them.        *)
LockedBy(r) == IF at[r] \in {"dropping", "committing"} THEN {op[r].key} ELSE {}
LockedByPass == {w.key : w \in flushed}
Free(r, k) == k \notin LockedByPass \cup UNION {LockedBy(g) : g \in Request \ {r}}

Begin(r, k, key) ==
    /\ at[r] \in Ended
    /\ starts < MaxStarts
    /\ starts' = starts + 1
    /\ op' = [op EXCEPT ![r] = [kind |-> k, key |-> key,
                                saw |-> IF k = "add" THEN Nothing ELSE rows[key],
                                got |-> Nothing, id |-> IF k = "add" THEN starts' ELSE 0]]
    /\ excused' = (excused \/ \E g \in Busy : op[g].key[2] = key[2])
    /\ UNCHANGED <<rows, due, ses, usable, passVars, failures>>

Leave(r, place) ==
    /\ Go(r, place)
    /\ op' = [op EXCEPT ![r] = Nothing]

(* _credentials_for raises when the project has no connection, or its key  *)
(* cannot be read.                                                         *)
HasCredentials(k) == k[1] \in usable

(* The page shows the reason and the session closes as it is.              *)
Refuse(r) ==
    /\ Leave(r, "refused")
    /\ UNCHANGED <<rows, due, ses, passVars, starts, usable, excused>>

Add(r, k) == HasCredentials(k) /\ Begin(r, "add", k) /\ Go(r, "creating")
Refresh(r, k) == HasCredentials(k) /\ Held(k) /\ Begin(r, "refresh", k) /\ Go(r, "reading")
RemoveIdentity(r, k) == Held(k) /\ Begin(r, "remove", k) /\ Go(r, "counting")

SesRefuses(r) ==
    /\ at[r] \in {"creating", "adopting", "dropping"}
    /\ failures < MaxFailures
    /\ failures' = failures + 1
    /\ Refuse(r)

RequestDies(r) ==
    /\ r \in Busy
    /\ failures < MaxFailures
    /\ failures' = failures + 1
    /\ Leave(r, "refused")
    /\ excused' = TRUE
    /\ UNCHANGED <<rows, due, ses, passVars, starts, usable>>

-----------------------------------------------------------------------------
(* Adding and refreshing.                                                  *)

PutAtSes(k, s) == ses' = [ses EXCEPT ![AccountOf[k[1]]][k[2]] = s]

(* create_identity; an identity that exists is adopted as it is.           *)
Create(r) ==
    LET k == op[r].key IN
    /\ at[r] = "creating"
    /\ IF AtSes(k) = "absent"
         THEN /\ PutAtSes(k, "pending")
              /\ op' = [op EXCEPT ![r].got = "pending"]
              /\ Go(r, "finding")
         ELSE Go(r, "adopting") /\ UNCHANGED <<ses, op>>
    /\ UNCHANGED <<rows, due, passVars, starts, usable, failures, excused>>

Adopt(r) ==
    LET k == op[r].key IN
    /\ at[r] = "adopting"
    /\ IF AtSes(k) = "absent"
         THEN Refuse(r)
         ELSE /\ op' = [op EXCEPT ![r].got = AtSes(k)]
              /\ Go(r, "finding")
              /\ UNCHANGED <<rows, due, ses, passVars, starts, usable, excused>>
    /\ UNCHANGED failures

(* get_identity_status: an error is recorded and changes no status.        *)
Read(r) ==
    LET k == op[r].key IN
    /\ at[r] = "reading"
    /\ op' = [op EXCEPT ![r].got = IF AtSes(k) = "absent" THEN op[r].saw.status ELSE AtSes(k)]
    /\ Go(r, "saving")
    /\ UNCHANGED <<rows, due, ses, passVars, starts, usable, failures, excused>>

(* An add looks for the row only now.                                      *)
Find(r) ==
    /\ at[r] = "finding"
    /\ op' = [op EXCEPT ![r].saw = rows[op[r].key]]
    /\ Go(r, "saving")
    /\ UNCHANGED <<rows, due, ses, passVars, starts, usable, failures, excused>>

(* The flush.  It fails if the row is gone, or if another made it first.   *)
Save(r) ==
    LET k == op[r].key IN
    /\ at[r] = "saving"
    /\ Free(r, k)
    /\ IF Same(k, op[r].saw)
         THEN /\ Go(r, "committing")
              /\ UNCHANGED <<rows, due, ses, op, passVars, starts, usable, excused>>
         ELSE Refuse(r)
    /\ UNCHANGED failures

(* The status is written only if it differs from what was loaded.          *)
Answered(row, saw, got) == IF saw.status = got THEN row ELSE [row EXCEPT !.status = got]

-----------------------------------------------------------------------------
(* Removing.                                                               *)

(* Mutant: the project's own other rows are counted.                       *)
OnlyMine(o) == {k \in Key : k[1] = o.key[1] /\ k # o.key /\ Held(k)}

(* count_other_references: by value and region, whatever the account.      *)
OtherReferences(o) == {k \in Key : k[2] = o.key[2] /\ k # o.key /\ Held(k)}

(* The credentials are loaded after the count and before the row goes.     *)
CountReferences(r) ==
    /\ at[r] = "counting"
    /\ HasCredentials(op[r].key)
    /\ op' = [op EXCEPT ![r].got = IF OtherReferences(op[r]) = {} THEN Nothing ELSE "success"]
    /\ Go(r, "deleting")
    /\ UNCHANGED <<rows, due, ses, passVars, starts, usable, failures, excused>>

NoCredentials(r) ==
    /\ at[r] = "counting"
    /\ ~ HasCredentials(op[r].key)
    /\ Refuse(r)
    /\ UNCHANGED failures

(* The row is deleted and flushed; SES is asked when nobody else was found. *)
Delete(r) ==
    /\ at[r] = "deleting"
    /\ Free(r, op[r].key)
    /\ Go(r, IF op[r].got = Nothing THEN "dropping" ELSE "committing")
    /\ UNCHANGED <<rows, due, ses, op, passVars, starts, usable, failures, excused>>

(* delete_identity; one that is gone is done.                              *)
DropAtSes(r) ==
    /\ at[r] = "dropping"
    /\ PutAtSes(op[r].key, "absent")
    /\ Go(r, "committing")
    /\ UNCHANGED <<rows, due, op, passVars, starts, usable, failures, excused>>

Commit(r) ==
    LET o == op[r]  k == op[r].key IN
    /\ at[r] = "committing"
    /\ IF o.kind = "remove" /\ ~ Same(k, o.saw)
         THEN UNCHANGED <<rows, due>>
         ELSE /\ rows' = [rows EXCEPT ![k] =
                            IF o.kind = "remove" THEN Nothing
                            ELSE IF o.saw = Nothing THEN [id |-> o.id, status |-> o.got]
                            ELSE Answered(@, o.saw, o.got)]
              /\ due' = due \ {k}
    /\ Leave(r, "idle")
    /\ UNCHANGED <<ses, passVars, starts, usable, failures, excused>>

-----------------------------------------------------------------------------
(* The recheck pass.                                                       *)

(* is_recheck_due: the interval elapses.                                   *)
ComesDue(k) ==
    /\ Held(k)
    /\ due' = due \cup {k}
    /\ UNCHANGED <<rows, ses, at, op, passVars, starts, usable, failures, excused>>

(* Mutant: what is still pending is left for people to refresh.            *)
VerifiedDue == {k \in due : Held(k) /\ rows[k].status # "pending"}

IdentitiesDue == {k \in due : Held(k)}

StartPass ==
    /\ pass = "idle"
    /\ IdentitiesDue # {}
    /\ copies' = {[key |-> k, saw |-> rows[k]] : k \in IdentitiesDue}
    /\ pass' = "choosing"
    /\ UNCHANGED <<rows, due, ses, at, op, asking, flushed, starts, usable, failures, excused>>

(* check_identity asks SES; an error is noted, and the status kept.        *)
Ask ==
    /\ pass = "choosing"
    /\ \E c \in copies :
          /\ HasCredentials(c.key)
          /\ copies' = copies \ {c}
          /\ asking' = [key |-> c.key, saw |-> c.saw,
                        got |-> IF AtSes(c.key) = "absent" THEN c.saw.status ELSE AtSes(c.key)]
    /\ pass' = "writing"
    /\ UNCHANGED <<rows, due, ses, at, op, flushed, starts, usable, failures, excused>>

(* Without credentials it raises before its try: the pass logs that and    *)
(* goes on, and the row, with nothing written, stays due.                  *)
PassOver ==
    /\ pass = "choosing"
    /\ \E c \in copies : ~ HasCredentials(c.key) /\ copies' = copies \ {c}
    /\ UNCHANGED <<rows, due, ses, usable, at, op, pass, asking, flushed, starts, failures,
                   excused>>

(* Every check of the pass is rolled back.                                 *)
LosePass ==
    /\ pass' = "idle"
    /\ copies' = {} /\ asking' = Nothing /\ flushed' = {}
    /\ UNCHANGED <<rows, due, ses, at, op, starts, usable, excused>>

(* A row that was removed meanwhile fails the flush and with it the        *)
(* session: the handler of the error cannot even name the identity.        *)
WriteCheck ==
    /\ pass = "writing"
    /\ \A g \in Request : asking.key \notin LockedBy(g)
    /\ IF Same(asking.key, asking.saw)
         THEN /\ flushed' = flushed \cup {asking}
              /\ asking' = Nothing
              /\ pass' = "choosing"
              /\ UNCHANGED <<rows, due, ses, at, op, copies, starts, usable, excused>>
         ELSE LosePass
    /\ UNCHANGED failures

CommitPass ==
    /\ pass = "choosing"
    /\ copies = {}
    /\ rows' = [k \in Key |->
                  IF k \in LockedByPass
                    THEN LET w == CHOOSE w \in flushed : w.key = k
                         IN  Answered(rows[k], w.saw, w.got)
                    ELSE rows[k]]
    /\ due' = due \ LockedByPass
    /\ pass' = "idle"
    /\ flushed' = {}
    /\ UNCHANGED <<ses, at, op, copies, asking, starts, usable, failures, excused>>

PassDies ==
    /\ pass # "idle"
    /\ failures < MaxFailures
    /\ failures' = failures + 1
    /\ LosePass

-----------------------------------------------------------------------------
(* Outside: DNS records come and go, somebody deletes an SES identity.     *)

Verification(a, v) ==
    /\ ses[a][v] # "absent"
    /\ \E s \in Statuses \ {ses[a][v]} : ses' = [ses EXCEPT ![a][v] = s]
    /\ UNCHANGED <<rows, due, at, op, passVars, starts, usable, failures, excused>>

DeletedByHand(a, v) ==
    /\ ses[a][v] # "absent"
    /\ failures < MaxFailures
    /\ failures' = failures + 1
    /\ ses' = [ses EXCEPT ![a][v] = "absent"]
    /\ excused' = TRUE
    /\ UNCHANGED <<rows, due, at, op, passVars, starts, usable>>

-----------------------------------------------------------------------------
(* connect_aws and disconnect_aws, which leaves the identities alone; a    *)
(* SECRET_KEY that does not open the key, and one that does again.         *)
Connect(p) ==
    /\ usable' = usable \cup {p}
    /\ UNCHANGED <<rows, due, ses, at, op, passVars, starts, failures, excused>>

Disconnect(p) ==
    /\ usable' = usable \ {p}
    /\ UNCHANGED <<rows, due, ses, at, op, passVars, starts, failures, excused>>

-----------------------------------------------------------------------------
Requests == \E r \in Request, k \in Key : Add(r, k) \/ Refresh(r, k) \/ RemoveIdentity(r, k)

Steps(r) ==
    Create(r) \/ Adopt(r) \/ Find(r) \/ Read(r) \/ Save(r) \/ CountReferences(r)
    \/ NoCredentials(r) \/ Delete(r) \/ DropAtSes(r) \/ Commit(r)

PassStep == Ask \/ PassOver \/ WriteCheck \/ CommitPass

Failing == PassDies \/ \E r \in Request : SesRefuses(r) \/ RequestDies(r)

Outside ==
    \/ \E k \in Key : ComesDue(k)
    \/ \E a \in Account, v \in Value : Verification(a, v) \/ DeletedByHand(a, v)
    \/ \E p \in Project : Connect(p) \/ Disconnect(p)

Next == Requests \/ (\E r \in Request : Steps(r)) \/ StartPass \/ PassStep \/ Failing \/ Outside

Spec == Init /\ [][Next]_vars

(* recheck_identities runs every hour; what is begun goes on, also beside  *)
(* passes that have something to do for ever.                              *)
FairSpec ==
    /\ Spec
    /\ WF_vars(StartPass \/ PassStep)
    /\ \A r \in Request : WF_vars(Steps(r))

-----------------------------------------------------------------------------
TypeOK ==
    /\ rows \in [Key -> Row \cup {Nothing}]
    /\ due \subseteq Key
    /\ ses \in [Account -> [Value -> Statuses \cup {"absent"}]]
    /\ usable \subseteq Project
    /\ at \in [Request -> Places]
    /\ op \in [Request -> Op \cup {Nothing}]
    /\ pass \in Passing
    /\ copies \subseteq Copy
    /\ asking \in Check \cup {Nothing}
    /\ flushed \subseteq Check
    /\ starts \in 0..MaxStarts /\ failures \in 0..MaxFailures
    /\ excused \in BOOLEAN

(* An instance has one AWS account at a time (section 9), which            *)
(* count_other_references relies on.                                       *)
OneAccountForAll == \A p, q \in Project : AccountOf[p] = AccountOf[q]

(* Between requests, SES has in its account every identity that a row of a *)
(* project names, whatever other projects remove and whatever SES refuses  *)
(* them; and on one account what SESKit added does not outlive the last    *)
(* row.  Unless two requests about it overlapped, one died or somebody     *)
(* deleted it by hand.  add_identity, remove_identity.                     *)
SesAgreesWithRows ==
    Busy = {} /\ ~ excused =>
        /\ \A k \in Key : Held(k) => AtSes(k) # "absent"
        /\ OneAccountForAll =>
               \A a \in Account, v \in Value : ses[a][v] # "absent" =>
                   \E p \in Project : AccountOf[p] = a /\ Held(<<p, v>>)

(* An identity whose interval has elapsed is checked, or removed, in the   *)
(* end, if its project has credentials from some time on: a pass that      *)
(* loses its checks to a removal or a death does not stop the next, and    *)
(* identities that are due for ever, because their projects have been      *)
(* disconnected, hold up no others.  recheck_identities.                   *)
EventuallyChecked ==
    \A k \in Key : <>[](HasCredentials(k)) => []<>(k \notin due)

-----------------------------------------------------------------------------
(* What the repository says and the code does not do.                      *)

(* "Each identity is checked in its own try/except and a failure is        *)
(* recorded on the row": then none could be due for ever.                  *)
(* apps/worker/src/seskit_worker/identities.py:12.                         *)
FailuresAreRecorded == \A k \in Key : []<>(k \notin due)

(* "One failure must not stop the pass ... a single unreachable domain     *)
(* should not leave every other one stale."                                *)
(* apps/worker/src/seskit_worker/identities.py:12.  So a pass that nothing *)
(* killed keeps the checks it has made.                                    *)
ChecksAreKept ==
    [][pass = "writing" /\ pass' = "idle" /\ failures' = failures => flushed = {}]_vars
=============================================================================
