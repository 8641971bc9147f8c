---------------------------- MODULE SendPipeline ----------------------------
(***************************************************************************)
(* Accepting a message and sending it.                                     *)
(*                                                                         *)
(* A request (POST /v1/emails, or the dashboard's test send, which is a    *)
(* request without an idempotency key) runs accept_email, commits a row    *)
(* and enqueues a job; the worker's send_email job then claims the row,    *)
(* calls a provider and records the outcome.  Each action is the code      *)
(* between two points where another process can be scheduled and the       *)
(* database or the queue has changed: a commit, an enqueue, a provider     *)
(* call.  The row of a request carries the request's own name, because     *)
(* generate_id never repeats.                                              *)
(*                                                                         *)
(* The job queue (ARQ over Redis) and the provider (SES or SMTP) are not   *)
(* under src/: they are modelled from how src/ uses them.                  *)
(***************************************************************************)
EXTENDS Naturals, FiniteSets

CONSTANTS
    Req,          \* requests to send; also the ids of the rows they insert
    Key,          \* idempotency keys
    NoKey,        \* a request without an Idempotency-Key header
    KeyOf,        \* the key each request carries
    Addr,         \* recipient addresses, already reduced by bare_address
    Visible,      \* the to and cc recipients of each request
    Blind,        \* the bcc recipients of each request
    NoId,         \* "no answer yet"
    MaxAttempts,  \* EMAIL_SEND_MAX_ATTEMPTS, also the job's max_tries
    SmtpConfigured,  \* smtp_configured
    MaxDeaths,    \* bound: worker deaths during one message's jobs
    MaxTurns      \* bound: changes of the suppression list, and of the connection

ASSUME KeyAssumption == KeyOf \in [Req -> Key \cup {NoKey}] /\ NoKey \notin Key
ASSUME RcptAssumption == /\ Visible \in [Req -> SUBSET Addr]
                         /\ Blind \in [Req -> SUBSET Addr]
ASSUME BoundAssumption == /\ MaxAttempts \in Nat \ {0}
                          /\ MaxDeaths \in Nat
                          /\ MaxTurns \in Nat
ASSUME SmtpAssumption == SmtpConfigured \in BOOLEAN
ASSUME NoIdAssumption == NoId \notin Req

VARIABLES
    phase,     \* how far each request handler has got
    answer,    \* the id each request was answered with
    status,    \* emails.status, "none" while the row does not exist
    provider,  \* emails.provider, chosen when the message is accepted
    job,       \* the send_email job of each row
    try,       \* ARQ's job_try
    task,      \* where the running job is
    wire,      \* how many copies the provider has accepted
    lost,      \* acceptances whose answer never reached the row
    deaths,    \* worker deaths while a job of this row was running
    suppressed,  \* live rows of suppressed_addresses, for this project
    late,      \* addresses suppressed after the request's own check
    conn,      \* aws_connections.status, "none" without a row
    readable,  \* whether the stored secret key decrypts
    turns      \* changes made to the list or the connection so far

reqVars  == <<phase, answer>>
rowVars  == <<status, provider>>
jobVars  == <<job, try, task>>
obsVars  == <<wire, lost, deaths>>
listVars == <<suppressed, late>>
connVars == <<conn, readable>>
vars == <<phase, answer, status, provider, job, try, task, wire, lost, deaths,
          suppressed, late, conn, readable, turns>>

Phases    == {"new", "checking", "choosing", "inserting", "collided",
              "stored", "done", "refused", "dead"}
Statuses  == {"none", "queued", "sending", "sent", "failed"}
Providers == {"none", "ses", "smtp"}
Jobs      == {"none", "waiting", "running", "done", "exhausted", "aborted", "gone"}
Tasks     == {"idle", "loading", "calling", "accepted", "transient",
              "rejected", "deferred", "recorded", "retry"}

(* SENDABLE_STATUSES: "sending" is included, for a row a dead worker left. *)
SendableAgain == {"queued", "sending", "sent"}     \* mutant: is_sendable not checked
SendableOnce  == {"queued"}                        \* mutant: "sending" left out
Sendable == {"queued", "sending"}
Settled  == {"sent", "failed"}

Recipients(r) == Visible[r] \cup Blind[r]

(* The requests whose suppression check is behind them. *)
PastCheck == {"choosing", "inserting", "collided", "stored", "done"}

(* The unique constraint (project_id, idempotency_key): rows without a key *)
(* never collide.                                                          *)
RowsWithKey(k) == {r \in Req : status[r] # "none" /\ KeyOf[r] = k}
KeyTaken(k) == k # NoKey /\ RowsWithKey(k) # {}

-----------------------------------------------------------------------------
Init ==
    /\ phase = [r \in Req |-> "new"]
    /\ answer = [r \in Req |-> NoId]
    /\ status = [r \in Req |-> "none"]
    /\ provider = [r \in Req |-> "none"]
    /\ job = [r \in Req |-> "none"]
    /\ try = [r \in Req |-> 0]
    /\ task = [r \in Req |-> "idle"]
    /\ wire = [r \in Req |-> 0]
    /\ lost = [r \in Req |-> 0]
    /\ deaths = [r \in Req |-> 0]
    /\ suppressed = {}
    /\ late = [r \in Req |-> {}]
    /\ conn \in {"none", "connected"}
    /\ readable = TRUE
    /\ turns = 0

-----------------------------------------------------------------------------
(* The request handler.                                                    *)

(* find_by_idempotency_key before anything else: a repeat is answered with *)
(* the first message's id.                                                 *)
LookUp(r) ==
    /\ phase[r] = "new"
    /\ \/ /\ KeyTaken(KeyOf[r])
          /\ \E e \in RowsWithKey(KeyOf[r]) : answer' = [answer EXCEPT ![r] = e]
          /\ phase' = [phase EXCEPT ![r] = "done"]
       \/ /\ ~KeyTaken(KeyOf[r])
          /\ phase' = [phase EXCEPT ![r] = "checking"]
          /\ UNCHANGED answer
    /\ UNCHANGED <<rowVars, jobVars, obsVars, listVars, connVars, turns>>

(* refuse_suppressed: to, cc and bcc, and one bad address fails it all.    *)
BlockedVisible(r) == Visible[r] \cap suppressed    \* mutant: bcc not checked
Blocked(r) == Recipients(r) \cap suppressed

RefuseSuppressed(r) ==
    /\ phase[r] = "checking"
    /\ phase' = [phase EXCEPT ![r] = IF Blocked(r) = {} THEN "choosing" ELSE "refused"]
    /\ UNCHANGED <<answer, rowVars, jobVars, obsVars, listVars, connVars, turns>>

(* choose_provider: "connected" is the only status that means SES.         *)
ProviderFor(verified) ==
    IF conn = "connected" THEN IF verified THEN "ses" ELSE "none"
    ELSE IF SmtpConfigured THEN "smtp" ELSE "none"

(* choose_provider, then assembling the message to validate it: either may *)
(* refuse.  Whether the sender is a verified identity is read here.        *)
ChooseProvider(r) ==
    /\ phase[r] = "choosing"
    /\ \/ \E verified \in BOOLEAN :
             /\ ProviderFor(verified) # "none"
             /\ provider' = [provider EXCEPT ![r] = ProviderFor(verified)]
             /\ phase' = [phase EXCEPT ![r] = "inserting"]
       \/ /\ phase' = [phase EXCEPT ![r] = "refused"]
          /\ UNCHANGED provider
    /\ UNCHANGED <<answer, status, jobVars, obsVars, listVars, connVars, turns>>

(* db.commit(): the insert and its unique constraint in one step, because  *)
(* a second insert of the same key waits for the first to commit.          *)
CommitUnconstrained(r) ==                          \* mutant: no unique constraint
    /\ phase[r] = "inserting"
    /\ status' = [status EXCEPT ![r] = "queued"]
    /\ phase' = [phase EXCEPT ![r] = "stored"]
    /\ UNCHANGED <<answer, provider, jobVars, obsVars, listVars, connVars, turns>>

CommitRow(r) ==
    /\ phase[r] = "inserting"
    /\ \/ /\ KeyTaken(KeyOf[r])
          /\ phase' = [phase EXCEPT ![r] = "collided"]
          /\ UNCHANGED status
       \/ /\ ~KeyTaken(KeyOf[r])
          /\ status' = [status EXCEPT ![r] = "queued"]
          /\ phase' = [phase EXCEPT ![r] = "stored"]
    /\ UNCHANGED <<answer, provider, jobVars, obsVars, listVars, connVars, turns>>

(* The loser of an idempotency race answers with what the winner created.  *)
AnswerCollision(r) ==
    /\ phase[r] = "collided"
    /\ \E e \in RowsWithKey(KeyOf[r]) : answer' = [answer EXCEPT ![r] = e]
    /\ phase' = [phase EXCEPT ![r] = "done"]
    /\ UNCHANGED <<rowVars, jobVars, obsVars, listVars, connVars, turns>>

(* queue.enqueue_job, only after the row is committed.                     *)
Enqueue(r) ==
    /\ phase[r] = "stored"
    /\ job' = [job EXCEPT ![r] = "waiting"]
    /\ answer' = [answer EXCEPT ![r] = r]
    /\ phase' = [phase EXCEPT ![r] = "done"]
    /\ UNCHANGED <<rowVars, try, task, obsVars, listVars, connVars, turns>>

(* The API process dies, or Redis refuses the enqueue: no answer, and what *)
(* was committed stays.                                                    *)
RequestDies(r) ==
    /\ phase[r] \in {"new", "checking", "choosing", "inserting", "collided", "stored"}
    /\ phase' = [phase EXCEPT ![r] = "dead"]
    /\ UNCHANGED <<answer, rowVars, jobVars, obsVars, listVars, connVars, turns>>

-----------------------------------------------------------------------------
(* The job queue.                                                          *)

(* ARQ hands the job to a worker, counting the try; past max_tries it ends *)
(* the job without running it.                                             *)
StartJob(r) ==
    /\ job[r] = "waiting"
    /\ \/ /\ try[r] < MaxAttempts
          /\ try' = [try EXCEPT ![r] = @ + 1]
          /\ job' = [job EXCEPT ![r] = "running"]
          /\ task' = [task EXCEPT ![r] = "loading"]
       \/ /\ try[r] = MaxAttempts
          /\ job' = [job EXCEPT ![r] = "exhausted"]
          /\ UNCHANGED <<try, task>>
    /\ UNCHANGED <<reqVars, rowVars, obsVars, listVars, connVars, turns>>

(* The job returns, or raises Retry, which puts it back on the queue.      *)
FinishJob(r) ==
    /\ task[r] \in {"recorded", "retry"}
    /\ job' = [job EXCEPT ![r] = IF task[r] = "retry" THEN "waiting" ELSE "done"]
    /\ task' = [task EXCEPT ![r] = "idle"]
    /\ UNCHANGED <<reqVars, rowVars, try, obsVars, listVars, connVars, turns>>

(* A call in flight when its process dies may still have been accepted.    *)
Abandoned(r) ==
    \/ /\ task[r] = "calling"
       /\ wire' = [wire EXCEPT ![r] = @ + 1]
       /\ lost' = [lost EXCEPT ![r] = @ + 1]
    \/ /\ task[r] = "accepted"
       /\ lost' = [lost EXCEPT ![r] = @ + 1]
       /\ UNCHANGED wire
    \/ /\ task[r] # "accepted"
       /\ UNCHANGED <<wire, lost>>

(* The worker process dies or is stopped: ARQ runs the job again once its  *)
(* in-progress mark is gone.                                               *)
WorkerDies(r) ==
    /\ job[r] = "running"
    /\ deaths[r] < MaxDeaths
    /\ Abandoned(r)
    /\ deaths' = [deaths EXCEPT ![r] = @ + 1]
    /\ job' = [job EXCEPT ![r] = "waiting"]
    /\ task' = [task EXCEPT ![r] = "idle"]
    /\ UNCHANGED <<reqVars, rowVars, try, listVars, connVars, turns>>

(* job_timeout, or any exception but Retry, such as a database error at a  *)
(* commit, ends the job for good.  It can strike at any await of the job.  *)
JobAborts(r) ==
    /\ job[r] = "running"
    /\ task[r] \notin {"recorded", "retry"}
    /\ Abandoned(r)
    /\ job' = [job EXCEPT ![r] = "aborted"]
    /\ task' = [task EXCEPT ![r] = "idle"]
    /\ UNCHANGED <<reqVars, rowVars, try, deaths, listVars, connVars, turns>>

(* Redis loses the queue (a flush, a restart without persistence).         *)
QueueLost(r) ==
    /\ job[r] = "waiting"
    /\ job' = [job EXCEPT ![r] = "gone"]
    /\ UNCHANGED <<reqVars, rowVars, try, task, obsVars, listVars, connVars, turns>>

-----------------------------------------------------------------------------
(* The job: send_one.                                                      *)

(* _aws_for and build_provider: a connection whose key cannot be read      *)
(* fails the message whichever provider it was accepted for; no connection *)
(* fails one accepted for SES.                                             *)
Sendability(r) ==
    IF conn = "none" THEN provider[r] = "smtp" ELSE readable

(* Up to the first commit: skip a settled row, fail one that has no usable *)
(* key, or claim it.                                                       *)
Claim(r) ==
    /\ task[r] = "loading"
    /\ \/ /\ status[r] \notin Sendable
          /\ task' = [task EXCEPT ![r] = "recorded"]
          /\ UNCHANGED status
       \/ /\ status[r] \in Sendable
          /\ Sendability(r)
          /\ status' = [status EXCEPT ![r] = "sending"]
          /\ task' = [task EXCEPT ![r] = "calling"]
       \/ /\ status[r] \in Sendable
          /\ ~Sendability(r)
          /\ status' = [status EXCEPT ![r] = "failed"]
          /\ task' = [task EXCEPT ![r] = "recorded"]
    /\ UNCHANGED <<reqVars, provider, job, try, obsVars, listVars, connVars, turns>>

(* What provider.send_email can end as: accepted; a PROVIDER_ERROR, after  *)
(* which the provider may still have taken the message; a rejection; and,  *)
(* for SMTP, a temporary 4xx refusal.                                      *)
Call(r) ==
    /\ task[r] = "calling"
    /\ \/ /\ task' = [task EXCEPT ![r] = "accepted"]
          /\ wire' = [wire EXCEPT ![r] = @ + 1]
          /\ UNCHANGED lost
       \/ /\ task' = [task EXCEPT ![r] = "transient"]
          /\ UNCHANGED <<wire, lost>>
       \/ /\ task' = [task EXCEPT ![r] = "transient"]
          /\ wire' = [wire EXCEPT ![r] = @ + 1]
          /\ lost' = [lost EXCEPT ![r] = @ + 1]
       \/ /\ task' = [task EXCEPT ![r] = "rejected"]
          /\ UNCHANGED <<wire, lost>>
       \/ /\ provider[r] = "smtp"
          /\ task' = [task EXCEPT ![r] = "deferred"]
          /\ UNCHANGED <<wire, lost>>
    /\ UNCHANGED <<reqVars, rowVars, job, try, deaths, listVars, connVars, turns>>

(* is_retryable: PROVIDER_ERROR only.  An SMTP 4xx is raised as            *)
(* EMAIL_REJECTED, so it is not.                                           *)
Retryable(outcome) == outcome = "transient"

WillRetry(r) == Retryable(task[r]) /\ try[r] < MaxAttempts

(* record_sent, record_failure, or the reason alone while a retry is left; *)
(* then the commit.                                                        *)
Record(r) ==
    /\ task[r] \in {"accepted", "transient", "rejected", "deferred"}
    /\ status' = [status EXCEPT ![r] = IF task[r] = "accepted" THEN "sent"
                                       ELSE IF WillRetry(r) THEN "sending"
                                       ELSE "failed"]
    /\ task' = [task EXCEPT ![r] = IF WillRetry(r) THEN "retry" ELSE "recorded"]
    /\ UNCHANGED <<reqVars, provider, job, try, obsVars, listVars, connVars, turns>>

-----------------------------------------------------------------------------
(* What happens around them, each change counted in turns.                 *)

(* An address goes on the list: a bounce, a complaint, an unsubscribe or a *)
(* manual entry, whichever committed it.                                   *)
Suppress(a) ==
    /\ turns < MaxTurns
    /\ a \notin suppressed
    /\ suppressed' = suppressed \cup {a}
    /\ late' = [r \in Req |-> IF phase[r] \in PastCheck THEN late[r] \cup {a} ELSE late[r]]
    /\ turns' = turns + 1
    /\ UNCHANGED <<reqVars, rowVars, jobVars, obsVars, connVars>>

Unsuppress(a) ==
    /\ turns < MaxTurns
    /\ a \in suppressed
    /\ suppressed' = suppressed \ {a}
    /\ turns' = turns + 1
    /\ UNCHANGED <<reqVars, rowVars, jobVars, obsVars, late, connVars>>

(* connect_aws succeeds, and stores a key this instance can read; or       *)
(* refresh_connection reads the stored one and AWS accepts it.             *)
Connect ==
    /\ turns < MaxTurns
    /\ conn' = "connected"
    /\ readable' = TRUE
    /\ turns' = turns + 1
    /\ UNCHANGED <<reqVars, rowVars, jobVars, obsVars, listVars>>

(* connect_aws or refresh_connection against an existing row fails.        *)
ConnectionBreaks ==
    /\ turns < MaxTurns
    /\ conn = "connected"
    /\ conn' = "error"
    /\ turns' = turns + 1
    /\ UNCHANGED <<reqVars, rowVars, jobVars, obsVars, listVars, readable>>

Disconnect ==
    /\ turns < MaxTurns
    /\ conn # "none"
    /\ conn' = "none"
    /\ turns' = turns + 1
    /\ UNCHANGED <<reqVars, rowVars, jobVars, obsVars, listVars, readable>>

(* The operator changes SECRET_KEY: CredentialsUnreadable from then on.    *)
SecretKeyChanges ==
    /\ turns < MaxTurns
    /\ conn # "none"
    /\ readable' = FALSE
    /\ turns' = turns + 1
    /\ UNCHANGED <<reqVars, rowVars, jobVars, obsVars, listVars, conn>>

-----------------------------------------------------------------------------
RequestStep(r) == \/ LookUp(r) \/ RefuseSuppressed(r) \/ ChooseProvider(r)
                  \/ CommitRow(r) \/ AnswerCollision(r) \/ Enqueue(r)

JobStep(r) == StartJob(r) \/ Claim(r) \/ Call(r) \/ Record(r) \/ FinishJob(r)

Failure(r) == RequestDies(r) \/ WorkerDies(r) \/ JobAborts(r) \/ QueueLost(r)

Environment ==
    \/ \E a \in Addr : Suppress(a) \/ Unsuppress(a)
    \/ Connect \/ ConnectionBreaks \/ Disconnect \/ SecretKeyChanges

Next ==
    \/ \E r \in Req : RequestStep(r) \/ JobStep(r) \/ Failure(r)
    \/ Environment

Spec == Init /\ [][Next]_vars

(* A running worker process keeps taking and running jobs; nothing obliges *)
(* a request, a failure or the environment to happen.                      *)
FairSpec == Spec /\ \A r \in Req : WF_vars(JobStep(r))

-----------------------------------------------------------------------------
(* Properties.                                                             *)

TypeOK ==
    /\ phase \in [Req -> Phases]
    /\ answer \in [Req -> Req \cup {NoId}]
    /\ status \in [Req -> Statuses]
    /\ provider \in [Req -> Providers]
    /\ job \in [Req -> Jobs]
    /\ try \in [Req -> 0..MaxAttempts]
    /\ task \in [Req -> Tasks]
    /\ wire \in [Req -> Nat]
    /\ lost \in [Req -> Nat]
    /\ deaths \in [Req -> 0..MaxDeaths]
    /\ suppressed \in SUBSET Addr
    /\ late \in [Req -> SUBSET Addr]
    /\ conn \in {"none", "connected", "error"}
    /\ readable \in BOOLEAN
    /\ turns \in 0..MaxTurns

(* "narrow the window": the only copies of a message beyond the one its    *)
(* row records are those whose acceptance was lost on the way back.  A     *)
(* settled row, whatever its job does next, is never sent again, and a     *)
(* failed one never reached anybody whose answer arrived.                  *)
CopiesAccountedFor ==
    \A r \in Req :
        wire[r] = lost[r] + (IF status[r] = "sent" \/ task[r] = "accepted" THEN 1 ELSE 0)

(* However often workers die, no message is handed to a provider more than *)
(* EMAIL_SEND_MAX_ATTEMPTS times.                                          *)
CopiesBounded == \A r \in Req : wire[r] <= MaxAttempts

(* Idempotency-Key: every answer names a stored message, and two answers   *)
(* to one key name the same one, whichever requests raced or died.         *)
IdempotentAnswers ==
    /\ \A r \in Req : answer[r] # NoId => /\ status[answer[r]] # "none"
                                        /\ KeyOf[answer[r]] = KeyOf[r]
    /\ \A r, q \in Req : /\ answer[r] # NoId /\ answer[q] # NoId
                         /\ KeyOf[r] = KeyOf[q] /\ KeyOf[r] # NoKey
                         => answer[r] = answer[q]

(* Any number of requests with one key put at most one message on the      *)
(* wire: never copies of two different rows.                               *)
OneMessagePerKey ==
    \A r, q \in Req : /\ KeyOf[r] = KeyOf[q] /\ KeyOf[r] # NoKey
                     /\ wire[r] > 0 /\ wire[q] > 0
                     => r = q

(* The last attempt records the failure: a job that returned left its row *)
(* settled, and only a worker death can make one run out of tries.         *)
JobEndsSettled ==
    \A r \in Req : /\ job[r] = "done" => status[r] \in Settled
                  /\ job[r] = "exhausted" => deaths[r] > 0

(* "a blind copy is still a send": a copy handed over while one of its     *)
(* recipients is on the list is of a message accepted before that address  *)
(* was put there.                                                          *)
SuppressedBeforeNeverSent ==
    [][\A r \in Req : wire'[r] > wire[r] => Recipients(r) \cap suppressed \subseteq late[r]]_vars

(* Every job put on the queue ends, and ends with the row settled unless a *)
(* process failed in a way ARQ does not recover from, or died at the last  *)
(* try.                                                                    *)
JobsSettle ==
    \A r \in Req : job[r] = "waiting" ~>
        \/ status[r] \in Settled
        \/ job[r] \in {"aborted", "gone"}
        \/ job[r] = "exhausted" /\ deaths[r] > 0

-----------------------------------------------------------------------------
(* The promise to the caller.                                              *)

(* emails.status as a caller is told it: a row being sent is still queued. *)
Shown(s) == IF s = "sending" THEN "queued" ELSE s

Promise == INSTANCE Outbox WITH
    message <- [r \in Req |-> Shown(status[r])],
    answer <- answer,
    copies <- wire

(* Requests that repeat an Idempotency-Key, however they race and whatever *)
(* dies, are answered with one stored message, of which at most            *)
(* EMAIL_SEND_MAX_ATTEMPTS copies reach a provider, none once it is        *)
(* settled.  accept_email, send_message, send_one.                         *)
KeepsPromise == Promise!Spec

-----------------------------------------------------------------------------
(* What the repository says and the code does not do.                      *)

(* README.md: "bounced and unsubscribed addresses are never sent to again".*)
(* The list is read when a message is accepted and not when it is sent.    *)
NeverSentToSuppressed ==
    [][\A r \in Req : wire'[r] > wire[r] => Recipients(r) \cap suppressed = {}]_vars

(* services/sending.py: only a project with "no AWS connection" is sent    *)
(* over SMTP; "quietly falling back to a local mailbox would report        *)
(* success while delivering to nobody".                                    *)
ConnectedNeverFallsBack ==
    [][\A r \in Req : provider[r] = "none" /\ provider'[r] = "smtp" => conn = "none"]_vars

=============================================================================
