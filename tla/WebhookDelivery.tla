--------------------------- MODULE WebhookDelivery ---------------------------
(***************************************************************************)
(* Delivering webhooks: the delivery row is the queue, deliver_webhook     *)
(* jobs and sweep_webhooks passes attempt what is due, and users change    *)
(* the endpoints meanwhile.                                                *)
(*                                                                         *)
(* A pass opens one database session, reads its rows once and works on     *)
(* those copies to its end: expire_on_commit is off, so nothing is read    *)
(* again.  A flush writes the columns whose value differs from the copy,   *)
(* and only those.  Several passes run at once: jobs beside sweeps, and a  *)
(* sweep that outlasts its minute beside the next one.  A user's request   *)
(* loads an endpoint and writes it in the same way.                        *)
(*                                                                         *)
(* Time is kept as an order: line holds the rows that have a               *)
(* next_attempt_at, soonest first, and its first ripe ones are due.        *)
(***************************************************************************)
EXTENDS Naturals, Sequences, SequencesExt, FiniteSets

CONSTANTS
    Endpoint,     \* webhook_endpoints rows
    Delivery,     \* webhook_deliveries rows, one per event and endpoint
    EndpointOf,   \* the endpoint each delivery is for
    Dripping,     \* endpoints that can keep an answer going past a pass's timeout
    Raising,      \* endpoints whose attempts can raise what nobody expects
    Pass,         \* worker coroutines: each runs a job or a sweep at a time
    Request,      \* requests that change an endpoint, open at once
    MaxAttempts,  \* WEBHOOK_MAX_ATTEMPTS
    FailureLimit, \* WEBHOOK_FAILURE_LIMIT
    Limit,        \* how many rows a sweep reads, 100 in deliveries_due
    MaxCuts,      \* bound: passes that die before recording an attempt
    MaxTurns      \* bound: changes users make to endpoints

ASSUME EndpointAssumption == /\ EndpointOf \in [Delivery -> Endpoint]
                             /\ Dripping \subseteq Endpoint
                             /\ Raising \subseteq Endpoint
ASSUME LimitAssumption == /\ MaxAttempts \in Nat \ {0} /\ FailureLimit \in Nat \ {0}
                          /\ Limit \in Nat \ {0}
                          /\ MaxCuts \in Nat /\ MaxTurns \in Nat

VARIABLES
    status,    \* webhook_deliveries.status, "none" before the row and after it
    attempts,  \* webhook_deliveries.attempt_count
    line,      \* rows with a next_attempt_at, in its order
    ripe,      \* how many of them have come due
    state,     \* webhook_endpoints.status, "gone" once deleted
    fails,     \* webhook_endpoints.consecutive_failures
    jobs,      \* deliveries with a deliver_webhook job on the queue
    todo,      \* per pass: the rows it read and has not finished, current first
    rowCopy,   \* per pass: attempt_count as it was read
    endCopy,   \* per pass: the endpoints as they were read, and since written
    reply,     \* per pass: what the current attempt came to, "none" before it
    edit,      \* per request: the endpoint it has loaded, as it was, if any
    accepted,  \* deliveries the endpoint has answered with a 2xx
    tries,     \* attempts made of each, MaxAttempts once one was refused
    streak,    \* final failures of an endpoint since its last success or reset
    stale,     \* endpoints that were written from an outdated copy
    cuts,      \* passes cut short so far
    turns      \* user changes so far

rowVars  == <<status, attempts, line>>
endVars  == <<state, fails>>
passVars == <<todo, rowCopy, endCopy, reply>>
obsVars  == <<accepted, tries, streak, stale>>
userVars == <<edit, turns>>
vars == <<status, attempts, line, ripe, state, fails, jobs, todo, rowCopy, endCopy,
          reply, edit, accepted, tries, streak, stale, cuts, turns>>

Settled == {"delivered", "failed"}
States  == {"active", "disabled_by_user", "disabled_after_failures", "gone"}
Replies == {"none", "ok", "retryable", "refused", "dripping", "raised"}

Pending(d) == status[d] = "pending"

(* The endpoint as a session would load it now. *)
Copy == [state : States, fails : Nat]
Loaded(e) == [state |-> state[e], fails |-> fails[e]]

(* The rows of line at the places I, in its order: one sequence of them.   *)
InOrder(I) ==
    {[n \in DOMAIN at |-> line[at[n]]] :
        at \in {f \in Surjection(1..Cardinality(I), I) :
                   \A m, n \in DOMAIN f : m < n => f[m] < f[n]}}

(* deliveries_due: pending and due, oldest first, a limited number. *)
DueAt == {i \in 1..ripe : /\ Pending(line[i])
                         /\ Cardinality({j \in 1..i : Pending(line[j])}) <= Limit}

Idle(w) == todo[w] = <<>>
NoRows == [d \in Delivery |-> 0]
NoEndpoints == [e \in Endpoint |-> [state |-> "gone", fails |-> 0]]
Current(w) == Head(todo[w])
EndpointAt(w) == EndpointOf[Current(w)]

-----------------------------------------------------------------------------
Init ==
    /\ status = [d \in Delivery |-> "none"]
    /\ attempts = [d \in Delivery |-> 0]
    /\ line = <<>>
    /\ ripe = 0
    /\ state = [e \in Endpoint |-> "active"]
    /\ fails = [e \in Endpoint |-> 0]
    /\ jobs = {}
    /\ todo = [w \in Pass |-> <<>>]
    /\ rowCopy = [w \in Pass |-> NoRows]
    /\ endCopy = [w \in Pass |-> NoEndpoints]
    /\ reply = [w \in Pass |-> "none"]
    /\ edit = [u \in Request |-> {}]
    /\ accepted = {}
    /\ tries = [d \in Delivery |-> 0]
    /\ streak = [e \in Endpoint |-> 0]
    /\ stale = {}
    /\ cuts = 0
    /\ turns = 0

-----------------------------------------------------------------------------
(* Queueing and time.                                                      *)

(* queue_deliveries inserts the row, due at once, for an active endpoint;  *)
(* the job that follows it is for latency only and may be lost.  A new row *)
(* is the latest of those due.                                             *)
QueueDelivery(d) ==
    /\ status[d] = "none"
    /\ state[EndpointOf[d]] = "active"
    /\ \A w \in Pass : d \notin Range(todo[w])
    /\ status' = [status EXCEPT ![d] = "pending"]
    /\ line' = InsertAt(line, ripe + 1, d)
    /\ ripe' = ripe + 1
    /\ \/ jobs' = jobs \cup {d}
       \/ UNCHANGED jobs
    /\ UNCHANGED <<attempts, endVars, passVars, obsVars, userVars, cuts>>

(* The next scheduled attempt comes due.                                   *)
ComeDue ==
    /\ ripe < Len(line)
    /\ ripe' = ripe + 1
    /\ UNCHANGED <<rowVars, endVars, jobs, passVars, obsVars, userVars, cuts>>

(* Taking rows out of the schedule: next_attempt_at = None.                *)
Kept(S) == {i \in DOMAIN line : line[i] \notin S}
KeptDue(S) == Cardinality(Kept(S) \cap 1..ripe)

Unschedule(S) ==
    /\ line' \in InOrder(Kept(S))
    /\ ripe' = KeptDue(S)

-----------------------------------------------------------------------------
(* A pass: a job's single row, or the rows a sweep finds due.              *)

Open(w, rows) ==
    /\ todo' = [todo EXCEPT ![w] = rows]
    /\ rowCopy' = [rowCopy EXCEPT ![w] =
                     [d \in Delivery |-> IF d \in Range(rows) THEN attempts[d] ELSE 0]]
    /\ endCopy' = [endCopy EXCEPT ![w] = [e \in Endpoint |-> Loaded(e)]]

(* deliver_webhook: a row that is gone or settled is left alone.           *)
StartJob(w, d) ==
    /\ Idle(w)
    /\ d \in jobs
    /\ jobs' = jobs \ {d}
    /\ \/ Pending(d) /\ Open(w, <<d>>)
       \/ ~Pending(d) /\ UNCHANGED <<todo, rowCopy, endCopy>>
    /\ UNCHANGED <<rowVars, ripe, endVars, reply, obsVars, userVars, cuts>>

(* sweep_webhooks: whatever state the endpoints are in.                    *)
StartSweep(w) ==
    /\ Idle(w)
    /\ DueAt # {}
    /\ \E rows \in InOrder(DueAt) : Open(w, rows)
    /\ UNCHANGED <<rowVars, ripe, endVars, jobs, reply, obsVars, userVars, cuts>>

(* deliver_one up to the answer: the POST and what came of it, or, like a  *)
(* refusal, a destination that must not be sent to.  Its is_settled test   *)
(* reads the copy, which is pending.  What is neither a DestinationError   *)
(* nor an HTTPError is let through: nobody knows what happened.            *)
Attempt(w) ==
    /\ ~Idle(w)
    /\ reply[w] = "none"
    /\ \E r \in Replies \ {"none"} :
          /\ r = "dripping" => EndpointAt(w) \in Dripping
          /\ r = "raised" => EndpointAt(w) \in Raising
          /\ reply' = [reply EXCEPT ![w] = r]
          /\ accepted' = IF r = "ok" THEN accepted \cup {Current(w)} ELSE accepted
          /\ tries' = [tries EXCEPT ![Current(w)] =
                         IF r = "raised" THEN @
                         ELSE IF r = "refused" \/ @ = MaxAttempts THEN MaxAttempts ELSE @ + 1]
    /\ UNCHANGED <<rowVars, ripe, endVars, jobs, todo, rowCopy, endCopy, streak, stale,
                   userVars, cuts>>

(* What a flush does to a column: written only if it differs from the copy.*)
Flushed(copy, new, stored) == IF new = copy THEN stored ELSE new

(* The endpoint columns after the flush of a session that loaded copy.     *)
WriteEndpoint(copy, e, new) ==
    /\ state' = [state EXCEPT ![e] = Flushed(copy.state, new.state, @)]
    /\ fails' = [fails EXCEPT ![e] = Flushed(copy.fails, new.fails, @)]
    /\ stale' = IF copy = Loaded(e) THEN stale ELSE stale \cup {e}

(* The session closes: its copies are gone.                                *)
Close(w) ==
    /\ todo' = [todo EXCEPT ![w] = <<>>]
    /\ rowCopy' = [rowCopy EXCEPT ![w] = NoRows]
    /\ endCopy' = [endCopy EXCEPT ![w] = NoEndpoints]
    /\ reply' = [reply EXCEPT ![w] = "none"]

(* On to the next row of the pass, with the endpoint as just written.      *)
Advance(w, copy) ==
    IF Len(todo[w]) = 1 THEN Close(w)
    ELSE /\ todo' = [todo EXCEPT ![w] = Tail(@)]
         /\ rowCopy' = [rowCopy EXCEPT ![w][Current(w)] = 0]
         /\ endCopy' = [endCopy EXCEPT ![w][EndpointAt(w)] = copy]
         /\ reply' = [reply EXCEPT ![w] = "none"]

(* A 2xx as deliver_one reads it; redirects are not followed.              *)
AcceptedReplies == {"ok"}

(* record_delivery_success and the commit.                                 *)
RecordSuccess(w) ==
    LET d == Current(w)  e == EndpointAt(w)  new == [endCopy[w][e] EXCEPT !.fails = 0] IN
    /\ reply[w] \in AcceptedReplies
    /\ status[d] # "none"
    /\ status' = [status EXCEPT ![d] = "delivered"]
    /\ attempts' = [attempts EXCEPT ![d] = rowCopy[w][d] + 1]
    /\ Unschedule({d})
    /\ WriteEndpoint(endCopy[w][e], e, new)
    /\ streak' = [streak EXCEPT ![e] = 0]
    /\ Advance(w, new)
    /\ UNCHANGED <<jobs, accepted, tries, userVars, cuts>>

(* Mutant: one attempt too few.                                            *)
MayRetryOnceLess(w) == reply[w] = "retryable" /\ rowCopy[w][Current(w)] + 2 < MaxAttempts

(* _is_retryable and the transport errors, while attempts are left.        *)
MayRetry(w) == reply[w] = "retryable" /\ rowCopy[w][Current(w)] + 1 < MaxAttempts

(* Mutant: the retry forgets to schedule the next attempt.                 *)
RecordRetryUnscheduled(w) ==
    LET d == Current(w) IN
    /\ MayRetry(w)
    /\ status[d] # "none"
    /\ attempts' = [attempts EXCEPT ![d] = rowCopy[w][d] + 1]
    /\ Unschedule({d})
    /\ Advance(w, endCopy[w][EndpointOf[d]])
    /\ UNCHANGED <<status, endVars, jobs, obsVars, userVars, cuts>>

(* record_delivery_failure, scheduling the next attempt: it leaves the     *)
(* status column alone and lands anywhere after the rows already due.      *)
RecordRetry(w) ==
    LET d == Current(w) IN
    /\ MayRetry(w)
    /\ status[d] # "none"
    /\ attempts' = [attempts EXCEPT ![d] = rowCopy[w][d] + 1]
    /\ \E others \in InOrder(Kept({d})) :
          \E i \in KeptDue({d}) + 1 .. Len(others) + 1 : line' = InsertAt(others, i, d)
    /\ ripe' = KeptDue({d})
    /\ Advance(w, endCopy[w][EndpointOf[d]])
    /\ UNCHANGED <<status, endVars, jobs, obsVars, userVars, cuts>>

(* Mutant: the limit has to be passed, not reached.                        *)
CountedPastLimit(copy) ==
    [state |-> IF copy.fails + 1 > FailureLimit /\ copy.state = "active"
               THEN "disabled_after_failures" ELSE copy.state,
     fails |-> copy.fails + 1]

(* The endpoint after one more final failure.                              *)
Counted(copy) ==
    [state |-> IF copy.fails + 1 >= FailureLimit /\ copy.state = "active"
               THEN "disabled_after_failures" ELSE copy.state,
     fails |-> copy.fails + 1]

(* record_delivery_failure, when it is final.                              *)
RecordFailure(w) ==
    LET d == Current(w)  e == EndpointAt(w)  new == Counted(endCopy[w][e]) IN
    /\ reply[w] \in {"retryable", "refused"}
    /\ ~MayRetry(w)
    /\ status[d] # "none"
    /\ status' = [status EXCEPT ![d] = "failed"]
    /\ attempts' = [attempts EXCEPT ![d] = rowCopy[w][d] + 1]
    /\ Unschedule({d})
    /\ WriteEndpoint(endCopy[w][e], e, new)
    /\ streak' = [streak EXCEPT ![e] = @ + 1]
    /\ Advance(w, new)
    /\ UNCHANGED <<jobs, accepted, tries, userVars, cuts>>

(* The row was deleted with its endpoint: the flush fails, and the commit  *)
(* after it ends the whole pass.                                           *)
RecordGone(w) ==
    /\ ~Idle(w)
    /\ reply[w] \in Replies \ {"none", "dripping", "raised"}
    /\ status[Current(w)] = "none"
    /\ Close(w)
    /\ UNCHANGED <<rowVars, ripe, endVars, jobs, obsVars, userVars, cuts>>

(* Mutant: an exception ends the sweep.                                    *)
PassOverNone(w) ==
    /\ ~Idle(w)
    /\ reply[w] = "raised"
    /\ Close(w)
    /\ UNCHANGED <<rowVars, ripe, endVars, jobs, obsVars, userVars, cuts>>

(* A sweep logs the exception and goes on; a job ends with it, and was of  *)
(* one row.  The row stays pending and due.                                *)
PassOver(w) ==
    /\ ~Idle(w)
    /\ reply[w] = "raised"
    /\ Advance(w, endCopy[w][EndpointAt(w)])
    /\ UNCHANGED <<rowVars, ripe, endVars, jobs, obsVars, userVars, cuts>>

Record(w) == ~Idle(w) /\ (RecordSuccess(w) \/ RecordRetry(w) \/ RecordFailure(w))

(* The pass reaches its timeout, which cancels it; or its process dies.    *)
(* What was not committed is lost, and ARQ may run a job again.            *)
Cut(w) ==
    /\ ~Idle(w)
    /\ \/ reply[w] = "dripping" /\ UNCHANGED cuts
       \/ reply[w] # "dripping" /\ cuts < MaxCuts /\ cuts' = cuts + 1
    /\ Close(w)
    /\ UNCHANGED <<rowVars, ripe, endVars, jobs, obsVars, userVars>>

-----------------------------------------------------------------------------
(* Users.  A request loads its endpoint, may await (update_endpoint_url    *)
(* awaits the check of the URL), and flushes the columns that differ.      *)

LoadEndpoint(u, e) ==
    /\ edit[u] = {}
    /\ turns < MaxTurns
    /\ state[e] # "gone"
    /\ turns' = turns + 1
    /\ edit' = [edit EXCEPT ![u] = {[endpoint |-> e, copy |-> Loaded(e)]}]
    /\ UNCHANGED <<rowVars, ripe, endVars, jobs, passVars, obsVars, cuts>>

Finish(u) ==
    /\ edit' = [edit EXCEPT ![u] = {}]
    /\ UNCHANGED <<jobs, passVars, accepted, tries, cuts, turns>>

(* The request with f in hand flushes, if the endpoint is still there.     *)
Flush(u, f, new) ==
    /\ state[f.endpoint] # "gone"
    /\ WriteEndpoint(f.copy, f.endpoint, new)
    /\ UNCHANGED <<rowVars, ripe>>
    /\ Finish(u)

Restarts(e) == streak' = [streak EXCEPT ![e] = 0]

(* set_enabled.                                                            *)
Enable(u, f) ==
    /\ Flush(u, f, [state |-> "active", fails |-> 0])
    /\ Restarts(f.endpoint)

Disable(u, f) ==
    /\ Flush(u, f, [f.copy EXCEPT !.state = "disabled_by_user"])
    /\ UNCHANGED streak

(* update_endpoint_url: the count restarts, the status stays.              *)
UpdateUrl(u, f) ==
    /\ Flush(u, f, [f.copy EXCEPT !.fails = 0])
    /\ Restarts(f.endpoint)

(* delete_endpoint takes the deliveries with it.                           *)
DeleteEndpoint(u, f) ==
    LET e == f.endpoint IN
    /\ state' = [state EXCEPT ![e] = "gone"]
    /\ status' = [d \in Delivery |-> IF EndpointOf[d] = e THEN "none" ELSE status[d]]
    /\ Unschedule({d \in Delivery : EndpointOf[d] = e})
    /\ UNCHANGED <<attempts, fails, streak, stale>>
    /\ Finish(u)

(* The URL is refused or the one it had, the endpoint is gone, or the      *)
(* request dies.                                                           *)
LeaveAsIs(u) ==
    /\ Finish(u)
    /\ UNCHANGED <<rowVars, ripe, endVars, streak, stale>>

-----------------------------------------------------------------------------
PassStep(w) ==
    \/ \E d \in Delivery : StartJob(w, d)
    \/ StartSweep(w) \/ Attempt(w) \/ Record(w) \/ RecordGone(w) \/ PassOver(w)

UserStep(u) ==
    \/ \E e \in Endpoint : LoadEndpoint(u, e)
    \/ \E f \in edit[u] :
          Enable(u, f) \/ Disable(u, f) \/ UpdateUrl(u, f) \/ DeleteEndpoint(u, f) \/ LeaveAsIs(u)

Next ==
    \/ \E d \in Delivery : QueueDelivery(d)
    \/ ComeDue
    \/ \E w \in Pass : PassStep(w) \/ Cut(w)
    \/ \E u \in Request : UserStep(u)

Spec == Init /\ [][Next]_vars

(* Time passes, a sweep starts every minute, and a pass keeps going until  *)
(* its timeout cuts off an answer that does not end.                       *)
FairSpec ==
    /\ Spec
    /\ WF_vars(ComeDue)
    /\ \A w \in Pass : /\ WF_vars(PassStep(w))
                       /\ WF_vars(reply[w] = "dripping" /\ Cut(w))

-----------------------------------------------------------------------------
(* Properties.                                                             *)

TypeOK ==
    /\ status \in [Delivery -> {"none", "pending"} \cup Settled]
    /\ attempts \in [Delivery -> 0..MaxAttempts]
    /\ line \in Seq(Delivery) /\ IsInjective(line)
    /\ ripe \in 0..Len(line)
    /\ state \in [Endpoint -> States]
    /\ fails \in [Endpoint -> Nat]
    /\ jobs \subseteq Delivery
    /\ todo \in [Pass -> Seq(Delivery)]
    /\ rowCopy \in [Pass -> [Delivery -> Nat]]
    /\ endCopy \in [Pass -> [Endpoint -> Copy]]
    /\ reply \in [Pass -> Replies]
    /\ edit \in [Request -> SUBSET [endpoint : Endpoint, copy : Copy]]
    /\ accepted \subseteq Delivery
    /\ tries \in [Delivery -> 0..MaxAttempts]
    /\ streak \in [Endpoint -> Nat]
    /\ stale \subseteq Endpoint
    /\ cuts \in 0..MaxCuts
    /\ turns \in 0..MaxTurns

(* "The row is durable, it carries next_attempt_at": however stale the     *)
(* copies passes write from, a delivery still to be made has its next      *)
(* attempt scheduled, with attempts to spare.                              *)
PendingIsScheduled ==
    \A d \in Delivery : Pending(d) => d \in Range(line) /\ attempts[d] < MaxAttempts

(* A verdict has its evidence: however the jobs and sweeps of a delivery   *)
(* overlap, delivered means its endpoint accepted it, and failed that it   *)
(* was refused once or attempted MaxAttempts times.                        *)
SettledOnEvidence ==
    \A d \in Delivery :
        /\ status[d] = "delivered" => d \in accepted
        /\ status[d] = "failed" => tries[d] = MaxAttempts

(* "10 consecutive failures, reset by any success": as long as neither a   *)
(* pass nor a request has written an endpoint from an outdated copy, its   *)
(* count is the number of final failures in a row since a success or a     *)
(* change that restarts it, and an endpoint at the limit is off.           *)
CountsConsecutive ==
    \A e \in Endpoint \ stale :
        state[e] # "gone" =>
            /\ fails[e] = streak[e]
            /\ state[e] = "active" => fails[e] < FailureLimit

(* What can keep a delivery from being settled for as long as it lasts: a  *)
(* pass cut off by an answer that does not end, or an attempt of its own   *)
(* endpoint that raises.  If there are as many raising rows as a sweep     *)
(* reads, those of other endpoints too.                                    *)
RowsRaising == {d \in Delivery : EndpointOf[d] \in Raising}
Hinders(w, e) ==
    \/ reply[w] = "dripping"
    \/ reply[w] = "raised" /\ (EndpointAt(w) = e \/ Cardinality(RowsRaising) >= Limit)

(* "This is what makes it certain", and "one endpoint behaving badly must  *)
(* not abandon the rest of the pass": whatever jobs are lost and passes    *)
(* die, a queued delivery is settled, or deleted with its endpoint, unless *)
(* it is hindered again and again, without end.  An attempt that raises    *)
(* holds up its own endpoint's deliveries and no others.                   *)
NoWebhookLost ==
    \A d \in Delivery :
        \/ []<>(\E w \in Pass : Hinders(w, EndpointOf[d]))
        \/ Pending(d) ~> ~Pending(d)

-----------------------------------------------------------------------------
(* What the repository says and the code does not do.                      *)

(* models/webhook.py on consecutive_failures: "Reset to zero by any        *)
(* success".                                                               *)
SuccessResets ==
    [][\A e \in Endpoint : streak[e] > 0 /\ streak'[e] = 0 => fails'[e] = 0]_vars

(* worker/webhooks.py: "anything the immediate enqueue lost is picked up   *)
(* here on the next pass".                                                 *)
PickedUp == \A d \in Delivery : Pending(d) ~> ~Pending(d)
=============================================================================
