---------------------------- MODULE AwsAccount ----------------------------
(***************************************************************************)
(* A project's connection to an AWS account: the row of aws_connections,   *)
(* the access key in it, and what SES says of the account.                 *)
(*                                                                         *)
(* Four requests of the AWS page write the row: connect, refresh,          *)
(* production-access and disconnect.  Each loads it, asks AWS, and flushes *)
(* the columns that differ from what it loaded; the flush locks the row    *)
(* until the request commits.  The Redis marker that spaces live checks is *)
(* no part of that transaction.  Each action is the code between two of    *)
(* those calls.                                                            *)
(*                                                                         *)
(* AWS, Redis and the database are not under src/: they are modelled from  *)
(* how src/ uses them.  An account stands for an account and a region.     *)
(***************************************************************************)
EXTENDS Naturals, FiniteSets

CONSTANTS
    Projects,
    Keys,       \* access keys that people paste into the form
    Accounts,   \* AWS accounts, each in one region
    AccountOf,  \* the account each key belongs to
    Domains,    \* projects with a verified domain
    Delivered,  \* projects with a delivered message
    NoRow,      \* the project is not connected
    NoQueue,    \* the row names no event queue
    Requests,   \* requests that can be handled at once
    Throttled,  \* whether AWS_STATUS_CACHE_TTL_SECONDS is above zero
    MaxRows,    \* bound: rows a project has had, one after the other
    MaxTurns    \* bound: what people do

ASSUME KeyAssumption == AccountOf \in [Keys -> Accounts]
ASSUME QueueAssumption == NoQueue \notin Accounts
ASSUME ReadyAssumption == Domains \subseteq Projects /\ Delivered \subseteq Projects
ASSUME RowBoundAssumption == MaxRows \in Nat /\ MaxTurns \in Nat /\ Throttled \in BOOLEAN

VARIABLES
    db,         \* aws_connections as committed, per project
    rows,       \* rows each project has had: the next row's id
    marked,     \* projects whose check marker is in Redis
    ses,        \* what SES would say of each account
    request,    \* the request each slot is handling
    confirmed,  \* <<project, key>>: AWS has accepted the key for the project
    reviewed,   \* accounts for which a review has been asked
    turns,      \* what people have done so far
    raced       \* projects whose row was last written from an outdated copy

awsVars == <<db, rows, marked, ses, request, confirmed, reviewed, raced, turns>>

Reviews == {"none", "PENDING", "GRANTED", "DENIED"}
Answers == [account : Accounts, sandbox : BOOLEAN, review : Reviews]

(* The secret column holds the secret of some key, encrypted anew each     *)
(* time it is written.                                                     *)
Row == [id : 1..MaxRows, key : Keys, secret : Keys, account : Accounts,
        status : {"connected", "error"}, sandbox : BOOLEAN, review : Reviews,
        events : Accounts \cup {NoQueue}]

Kinds == {"connect", "refresh", "access", "disconnect"}
Places == {"idle", "gate", "asking", "writing", "failing", "clearing", "committing"}

Idle == [at |-> "idle"]
Doing(kind, p, k, secret) ==
    [at |-> "asking", kind |-> kind, project |-> p, row |-> db[p], key |-> k, secret |-> secret]
Stored(kind, p) == Doing(kind, p, db[p].key, db[p].secret)
Go(r, place) == request' = [request EXCEPT ![r].at = place]
Leave(r) == request' = [request EXCEPT ![r] = Idle]

Turn == turns < MaxTurns /\ turns' = turns + 1

(* A flushed row is locked until its transaction ends.                     *)
Flushed == {"clearing", "committing"}
Locked(p) == \E r \in Requests : request[r].at \in Flushed /\ request[r].project = p

-----------------------------------------------------------------------------
Init ==
    /\ db = [p \in Projects |-> NoRow]
    /\ rows = [p \in Projects |-> 0]
    /\ marked = {}
    /\ ses = [a \in Accounts |-> [sandbox |-> TRUE, review |-> "none"]]
    /\ request = [r \in Requests |-> Idle]
    /\ confirmed = {}
    /\ reviewed = {}
    /\ raced = {}
    /\ turns = 0

-----------------------------------------------------------------------------
(* What a request loads, and what makes it end there.                      *)

Connected(row) == row # NoRow /\ row.status = "connected"
Pending(row) == row.sandbox /\ row.review = "PENDING"

Connect(r, p, k) ==
    /\ request[r] = Idle /\ Turn
    /\ request' = [request EXCEPT ![r] = Doing("connect", p, k, k)]
    /\ UNCHANGED <<db, rows, marked, ses, confirmed, reviewed, raced>>

Refresh(r, p) ==
    /\ request[r] = Idle /\ Turn
    /\ db[p] # NoRow
    /\ request' = [request EXCEPT ![r] = [Stored("refresh", p) EXCEPT !.at = "gate"]]
    /\ UNCHANGED <<db, rows, marked, ses, confirmed, reviewed, raced>>

(* check_is_allowed: SET NX.  A refusal shows the stored answer.           *)
Gate(r) ==
    /\ request[r].at = "gate"
    /\ LET p == request[r].project IN
       IF Throttled /\ p \in marked
       THEN Leave(r) /\ UNCHANGED marked
       ELSE /\ Go(r, "asking")
            /\ marked' = IF Throttled THEN marked \cup {p} ELSE marked
    /\ UNCHANGED <<db, rows, ses, confirmed, reviewed, raced, turns>>

(* production_access_readiness, over every project on the account.         *)
Siblings(row) == {q \in Projects : db[q] # NoRow /\ db[q].account = row.account}
Ready(p) ==
    /\ Siblings(db[p]) \cap Domains # {}
    /\ db[p].events # NoQueue
    /\ Siblings(db[p]) \cap Delivered # {}

AskForAccess(r, p) ==
    /\ request[r] = Idle /\ Turn
    /\ Connected(db[p])
    /\ db[p].sandbox /\ ~Pending(db[p])
    /\ Ready(p)
    /\ request' = [request EXCEPT ![r] = Stored("access", p)]
    /\ UNCHANGED <<db, rows, marked, ses, confirmed, reviewed, raced>>

(* What is in the account is removed first: EventPlumbing and Receiving.   *)
Disconnect(r, p) ==
    /\ request[r] = Idle /\ Turn
    /\ db[p] # NoRow
    /\ request' = [request EXCEPT ![r] = [Stored("disconnect", p) EXCEPT !.at = "writing"]]
    /\ UNCHANGED <<db, rows, marked, ses, confirmed, reviewed, raced>>

-----------------------------------------------------------------------------
(* What AWS answers.                                                       *)

Accepted(q) == q.secret = q.key

(* verify_account: GetCallerIdentity, then GetAccount.                     *)
Verify(r) ==
    LET q == request[r]
        a == AccountOf[q.key]
    IN /\ q.at = "asking" /\ q.kind \in {"connect", "refresh"}
       /\ Accepted(q)
       /\ request' = [request EXCEPT ![r] =
              [at |-> "writing", kind |-> q.kind, project |-> q.project, row |-> q.row,
               key |-> q.key, answer |-> [account |-> a, sandbox |-> ses[a].sandbox,
                                          review |-> ses[a].review]]]
       /\ confirmed' = confirmed \cup {<<q.project, q.key>>}
       /\ UNCHANGED <<db, rows, marked, ses, reviewed, raced, turns>>

(* PutAccountDetails.  A second request meets ConflictException.           *)
BeginReview(r) ==
    LET q == request[r]
        a == AccountOf[q.key]
    IN /\ q.at = "asking" /\ q.kind = "access"
       /\ Accepted(q)
       /\ ses[a].review # "PENDING"
       /\ ses' = IF ses[a].sandbox THEN [ses EXCEPT ![a].review = "PENDING"] ELSE ses
       /\ reviewed' = reviewed \cup {a}
       /\ Go(r, "writing")
       /\ UNCHANGED <<db, rows, marked, confirmed, raced, turns>>

(* Any call may be refused: a bad key, no permission, throttling.  A check *)
(* marks an existing row; a request for access writes nothing.             *)
AwsRefuses(r) ==
    LET q == request[r] IN
    /\ q.at = "asking"
    /\ IF q.kind = "access" \/ q.row = NoRow THEN Leave(r) ELSE Go(r, "failing")
    /\ UNCHANGED <<db, rows, marked, ses, confirmed, reviewed, raced, turns>>

-----------------------------------------------------------------------------
(* What a request writes.                                                  *)

(* The columns that differ from the loaded copy, over what is there now.   *)
Merge(now, loaded, wanted) ==
    [c \in DOMAIN now |-> IF wanted[c] # loaded[c] THEN wanted[c] ELSE now[c]]

(* Mutant: the key is stored before AWS has confirmed it.                  *)
WantedTyped(q) ==
    CASE q.at = "failing" -> [q.row EXCEPT !.status = "error", !.key = q.key]
      [] q.kind = "access" -> [q.row EXCEPT !.review = "PENDING"]
      [] OTHER -> [q.row EXCEPT !.key = q.key, !.account = q.answer.account,
                                !.status = "connected", !.sandbox = q.answer.sandbox,
                                !.review = q.answer.review]

(* Mutant: the review of the account connected before is kept.             *)
WantedKeepingReview(q) ==
    CASE q.at = "failing" -> [q.row EXCEPT !.status = "error"]
      [] q.kind = "access" -> [q.row EXCEPT !.review = "PENDING"]
      [] OTHER -> [q.row EXCEPT !.key = q.key, !.account = q.answer.account,
                                !.status = "connected", !.sandbox = q.answer.sandbox]

(* _apply, and the key when it was typed in.  The key id is a column like  *)
(* the others; the ciphertext is never the one that was loaded.            *)
Wanted(q) ==
    CASE q.at = "failing" -> [q.row EXCEPT !.status = "error"]
      [] q.kind = "access" -> [q.row EXCEPT !.review = "PENDING"]
      [] OTHER -> [q.row EXCEPT !.key = q.key, !.account = q.answer.account,
                                !.status = "connected", !.sandbox = q.answer.sandbox,
                                !.review = q.answer.review]
Updated(q) ==
    LET merged == Merge(db[q.project], q.row, Wanted(q))
    IN IF q.kind = "connect" /\ q.at = "writing" THEN [merged EXCEPT !.secret = q.key]
       ELSE merged

Fresh(q) ==
    [id |-> rows[q.project] + 1, key |-> q.key, secret |-> q.key,
     account |-> q.answer.account, status |-> "connected", sandbox |-> q.answer.sandbox,
     review |-> q.answer.review, events |-> NoQueue]

(* The flush waits for the lock.  An insert then meets the unique index if *)
(* a row is there; an update or a delete of a row that is gone fails.      *)
There(q) == IF q.row = NoRow THEN db[q.project] = NoRow
            ELSE db[q.project] # NoRow /\ db[q.project].id = q.row.id

Flush(r) ==
    LET q == request[r]
        whole == q.at = "writing" /\ q.kind \in {"connect", "disconnect"}
        after == CASE q.kind = "disconnect" -> NoRow
                   [] q.row = NoRow -> Fresh(q)
                   [] OTHER -> Updated(q)
    IN /\ q.at \in {"writing", "failing"}
       /\ ~Locked(q.project)
       /\ q.row = NoRow => rows[q.project] < MaxRows
       /\ IF There(q)
          THEN request' = [request EXCEPT ![r] =
                  [at |-> IF whole THEN "clearing" ELSE "committing", project |-> q.project,
                   row |-> q.row, after |-> after, whole |-> whole]]
          ELSE Leave(r)
       /\ UNCHANGED <<db, rows, marked, ses, confirmed, reviewed, raced, turns>>

(* clear_check_marker runs before the route commits.                       *)
ClearMarker(r) ==
    /\ request[r].at = "clearing"
    /\ marked' = marked \ {request[r].project}
    /\ Go(r, "committing")
    /\ UNCHANGED <<db, rows, ses, confirmed, reviewed, raced, turns>>

(* Whether a row still says what it did when it was loaded.                *)
Same(row, loaded) ==
    \/ row = loaded
    \/ /\ row # NoRow /\ loaded # NoRow
       /\ \A c \in {"key", "secret", "account", "review"} : row[c] = loaded[c]

Commit(r) ==
    LET q == request[r]
        p == q.project
    IN /\ q.at = "committing"
       /\ db' = [db EXCEPT ![p] = q.after]
       /\ rows' = IF q.row = NoRow THEN [rows EXCEPT ![p] = @ + 1] ELSE rows
       /\ raced' = IF ~Same(db[p], q.row) THEN raced \cup {p}
                   ELSE IF q.whole THEN raced \ {p} ELSE raced
       /\ Leave(r)
       /\ UNCHANGED <<marked, ses, confirmed, reviewed, turns>>

(* The process dies, or Redis or the database fails: nothing is committed. *)
Dies(r) ==
    /\ request[r] # Idle
    /\ Leave(r)
    /\ UNCHANGED <<db, rows, marked, ses, confirmed, reviewed, raced, turns>>

-----------------------------------------------------------------------------
(* What happens around the requests.                                       *)

MarkerExpires(p) ==
    /\ p \in marked
    /\ marked' = marked \ {p}
    /\ UNCHANGED <<db, rows, ses, request, confirmed, reviewed, raced, turns>>

(* setup_events and teardown_events: see EventPlumbing.  The queue is in   *)
(* the account of that time.                                               *)
EventsSwitched(p) ==
    /\ Turn
    /\ db[p] # NoRow /\ ~Locked(p)
    /\ db' = [db EXCEPT ![p].events = IF @ = NoQueue THEN db[p].account ELSE NoQueue]
    /\ UNCHANGED <<rows, marked, ses, request, confirmed, reviewed, raced>>

(* A review asked for in the console.                                      *)
AskedInConsole(a) ==
    /\ Turn
    /\ ses[a].sandbox /\ ses[a].review # "PENDING"
    /\ ses' = [ses EXCEPT ![a].review = "PENDING"]
    /\ reviewed' = reviewed \cup {a}
    /\ UNCHANGED <<db, rows, marked, request, confirmed, raced>>

SesDecides(a) ==
    /\ ses[a].review = "PENDING"
    /\ \/ ses' = [ses EXCEPT ![a] = [sandbox |-> FALSE, review |-> "GRANTED"]]
       \/ ses' = [ses EXCEPT ![a].review = "DENIED"]
    /\ UNCHANGED <<db, rows, marked, request, confirmed, reviewed, raced, turns>>

-----------------------------------------------------------------------------
RequestStep(r) ==
    \/ Gate(r) \/ Verify(r) \/ BeginReview(r) \/ AwsRefuses(r)
    \/ Flush(r) \/ ClearMarker(r) \/ Commit(r) \/ Dies(r)

AwsNext ==
    \/ \E r \in Requests : RequestStep(r)
    \/ \E r \in Requests, p \in Projects :
           \/ \E k \in Keys : Connect(r, p, k)
           \/ Refresh(r, p) \/ AskForAccess(r, p) \/ Disconnect(r, p)
    \/ \E p \in Projects : MarkerExpires(p) \/ EventsSwitched(p)
    \/ \E a \in Accounts : AskedInConsole(a) \/ SesDecides(a)

AwsSpec == Init /\ [][AwsNext]_awsVars

-----------------------------------------------------------------------------
RowsTyped ==
    /\ db \in [Projects -> Row \cup {NoRow}]
    /\ rows \in [Projects -> 0..MaxRows]
    /\ marked \subseteq Projects
    /\ ses \in [Accounts -> [sandbox : BOOLEAN, review : Reviews]]
    /\ confirmed \subseteq Projects \X Keys
    /\ reviewed \subseteq Accounts
    /\ raced \subseteq Projects
    /\ turns \in 0..MaxTurns

(* A connection is one key, with its own secret, of the account the row    *)
(* names, and AWS has accepted that key for the project: a key that is     *)
(* mistyped, refused or half way through being replaced is never in the    *)
(* row (connect_aws).  Only a request that writes a row which another has  *)
(* given a different key since it was loaded can mix two of them.          *)
OneKeyPerRow ==
    \A p \in Projects :
        db[p] # NoRow =>
            /\ <<p, db[p].key>> \in confirmed
            /\ p \notin raced => /\ db[p].secret = db[p].key
                                 /\ db[p].account = AccountOf[db[p].key]

(* A page that says AWS is reviewing the account says so of an account     *)
(* that somebody asked AWS to review, whatever accounts the project was    *)
(* connected to before and whichever request died on the way               *)
(* (request_production_access, _apply).                                    *)
PendingMeansAsked ==
    \A p \in Projects \ raced :
        (db[p] # NoRow /\ Pending(db[p])) => db[p].account \in reviewed
=============================================================================
