------------------------- MODULE SendPipelineProofs -------------------------
(***************************************************************************)
(* Safety of SendPipeline for every set of requests, keys and addresses,   *)
(* every MaxAttempts, and every number of deaths and changes around them.  *)
(*                                                                         *)
(* One inductive invariant, IInv.  Beside the checked properties that are  *)
(* inductive with it, it says what the place of a handler or a job tells   *)
(* of the row (Places, Collisions), that the copies on the wire stay below *)
(* the tries (Tries), that a key has one row and answers name rows of the  *)
(* same key (OneRowPerKey, AnswersExist), and what the suppression check   *)
(* left true (Checked).  With it every step is a step of Outbox, or none.  *)
(***************************************************************************)
EXTENDS SendPipeline, TLAPS

InCall == {"calling", "accepted", "transient", "rejected", "deferred"}

(* Before the commit there is no row, before the enqueue no job, and a job *)
(* knows what its row says at each of its steps.                           *)
Places ==
    \A r \in Req :
        /\ phase[r] \in {"new", "checking", "choosing", "inserting", "collided"}
             => status[r] = "none"
        /\ phase[r] = "stored" => status[r] = "queued"
        /\ phase[r] # "done" => job[r] = "none" /\ answer[r] = NoId
        /\ job[r] = "none" => task[r] = "idle" /\ try[r] = 0
        /\ job[r] # "none" => status[r] # "none"
        /\ wire[r] > 0 => status[r] # "none"
        /\ job[r] # "running" => task[r] = "idle"
        /\ task[r] \in InCall => status[r] = "sending"
        /\ task[r] = "retry" => status[r] = "sending" /\ try[r] < MaxAttempts
        /\ task[r] = "recorded" => status[r] \in Settled

(* Every copy used up a try, and a try that is still to call has copies to *)
(* spare; the last try waits again only after a death.                     *)
Tries ==
    \A r \in Req :
        /\ wire[r] <= try[r]
        /\ task[r] \in {"loading", "calling"} => wire[r] < try[r]
        /\ job[r] = "waiting" /\ try[r] = MaxAttempts => deaths[r] > 0

(* The unique constraint.                                                  *)
OneRowPerKey ==
    \A r, q \in Req : /\ status[r] # "none" /\ status[q] # "none"
                      /\ KeyOf[r] = KeyOf[q] /\ KeyOf[r] # NoKey
                      => r = q

(* An answer is the id of a stored row of the same key.                    *)
AnswersExist ==
    \A r \in Req : answer[r] # NoId => /\ status[answer[r]] # "none"
                                        /\ KeyOf[answer[r]] = KeyOf[r]

(* From the check until the message is settled, a listed recipient is one  *)
(* that was listed since.                                                  *)
Checked ==
    \A r \in Req : phase[r] \in {"choosing", "inserting", "stored"} \/ job[r] # "none"
                     => Recipients(r) \cap suppressed \subseteq late[r]

(* Only a request with a key loses an idempotency race.                    *)
Collisions == \A r \in Req : phase[r] = "collided" => KeyOf[r] # NoKey

IInv == TypeOK /\ Places /\ Collisions /\ Tries /\ CopiesAccountedFor /\ JobEndsSettled
        /\ OneRowPerKey /\ AnswersExist /\ Checked
-----------------------------------------------------------------------------
(* The invariant holds initially: there are no rows, jobs or copies.       *)
LEMMA InitInv == Init => IInv
  BY BoundAssumption, NoIdAssumption
  DEF Init, IInv, TypeOK, Phases, Statuses, Providers, Jobs, Tasks, Places, InCall, Collisions,
      Tries, CopiesAccountedFor, JobEndsSettled, OneRowPerKey, AnswersExist, Checked

(* Every step of a request, of a job, of a failure and of the environment  *)
(* keeps it.                                                               *)
LEMMA StepInv == IInv /\ [Next]_vars => IInv'
<1> SUFFICES ASSUME IInv, [Next]_vars PROVE IInv'
  OBVIOUS
<1> USE KeyAssumption, RcptAssumption, BoundAssumption, NoIdAssumption
    DEF IInv, TypeOK, Phases, Statuses, Providers, Jobs, Tasks, Places, InCall, Settled,
        Collisions, Tries, CopiesAccountedFor, JobEndsSettled, OneRowPerKey, AnswersExist,
        Checked, vars, reqVars, rowVars, jobVars, obsVars, listVars, connVars
(* Requests and jobs: each action touches one request's row and job.       *)
<1>1. ASSUME NEW r \in Req, LookUp(r) PROVE IInv'
  BY <1>1, SMTT(20) DEF LookUp, KeyTaken, RowsWithKey
<1>2. ASSUME NEW r \in Req, RefuseSuppressed(r) PROVE IInv'
  BY <1>2, SMTT(20) DEF RefuseSuppressed, Blocked, Recipients
<1>3. ASSUME NEW r \in Req, ChooseProvider(r) PROVE IInv'
  BY <1>3, SMTT(20) DEF ChooseProvider, ProviderFor
<1>4. ASSUME NEW r \in Req, CommitRow(r) PROVE IInv'
  BY <1>4, SMTT(20) DEF CommitRow, KeyTaken, RowsWithKey
<1>5. ASSUME NEW r \in Req, AnswerCollision(r) PROVE IInv'
  BY <1>5, SMTT(20) DEF AnswerCollision, RowsWithKey
<1>6. ASSUME NEW r \in Req, Enqueue(r) PROVE IInv'
  BY <1>6, SMTT(20) DEF Enqueue
<1>7. ASSUME NEW r \in Req, StartJob(r) PROVE IInv'
  BY <1>7, SMTT(20) DEF StartJob
<1>8. ASSUME NEW r \in Req, Claim(r) PROVE IInv'
  BY <1>8, SMTT(20) DEF Claim, Sendability, Sendable
<1>9. ASSUME NEW r \in Req, Call(r) PROVE IInv'
  BY <1>9, SMTT(20) DEF Call
<1>10. ASSUME NEW r \in Req, Record(r) PROVE IInv'
  BY <1>10, SMTT(20) DEF Record, WillRetry, Retryable
<1>11. ASSUME NEW r \in Req, FinishJob(r) PROVE IInv'
  BY <1>11, SMTT(20) DEF FinishJob
<1>12. ASSUME NEW r \in Req, RequestDies(r) PROVE IInv'
  BY <1>12, SMTT(20) DEF RequestDies
<1>13. ASSUME NEW r \in Req, WorkerDies(r) PROVE IInv'
  BY <1>13, SMTT(20) DEF WorkerDies, Abandoned
<1>14. ASSUME NEW r \in Req, JobAborts(r) PROVE IInv'
  BY <1>14, SMTT(20) DEF JobAborts, Abandoned
<1>15. ASSUME NEW r \in Req, QueueLost(r) PROVE IInv'
  BY <1>15, SMTT(20) DEF QueueLost
(* A newly listed address is late for every request past its check.        *)
<1>16. ASSUME NEW a \in Addr, Suppress(a) PROVE IInv'
  <2>1. TypeOK'
    BY <1>16 DEF Suppress
  <2>2. Checked'
    <3> SUFFICES ASSUME NEW r \in Req,
                        phase'[r] \in {"choosing", "inserting", "stored"} \/ job'[r] # "none"
                 PROVE  Recipients(r) \cap suppressed' \subseteq late'[r]
      OBVIOUS
    <3>1. phase[r] \in PastCheck
      BY <1>16 DEF Suppress, PastCheck
    <3>2. late'[r] = late[r] \cup {a}
      BY <1>16, <3>1 DEF Suppress
    <3>3. Recipients(r) \cap suppressed \subseteq late[r]
      BY <1>16 DEF Suppress
    <3> QED BY <1>16, <3>2, <3>3 DEF Suppress
  <2>3. Places' /\ Collisions' /\ Tries' /\ CopiesAccountedFor' /\ JobEndsSettled'
    BY <1>16 DEF Suppress
  <2>4. OneRowPerKey' /\ AnswersExist'
    BY <1>16 DEF Suppress
  <2> QED BY <2>1, <2>2, <2>3, <2>4
<1>17. ASSUME NEW a \in Addr, Unsuppress(a) PROVE IInv'
  BY <1>17, SMTT(20) DEF Unsuppress, Recipients
(* The connection only decides which provider is chosen and whether a job  *)
(* can send.                                                               *)
<1>18. ASSUME Connect \/ ConnectionBreaks \/ Disconnect PROVE IInv'
  <2>1. readable' \in BOOLEAN
    BY <1>18, Zenon DEF Connect, ConnectionBreaks, Disconnect
  <2>2. TypeOK'
    BY <1>18, <2>1 DEF Connect, ConnectionBreaks, Disconnect
  <2> QED BY <1>18, <2>2 DEF Connect, ConnectionBreaks, Disconnect
<1>19. ASSUME SecretKeyChanges PROVE IInv'
  <2>1. readable' \in BOOLEAN
    BY <1>19, Zenon DEF SecretKeyChanges
  <2> QED BY <1>19, <2>1, SMTT(20) DEF SecretKeyChanges
<1>20. CASE UNCHANGED vars
  BY <1>20, SMTT(20)
<1> QED
  BY <1>1, <1>2, <1>3, <1>4, <1>5, <1>6, <1>7, <1>8, <1>9, <1>10, <1>11, <1>12, <1>13,
     <1>14, <1>15, <1>16, <1>17, <1>18, <1>19, <1>20
  DEF Next, RequestStep, JobStep, Failure, Environment

(* IInv holds throughout every behaviour.                                  *)
THEOREM Invariance == Spec => []IInv
  BY InitInv, StepInv, PTL DEF Spec

-----------------------------------------------------------------------------
(* Every variable keeps its type.                                          *)
THEOREM TypeCorrect == Spec => []TypeOK
<1>1. IInv => TypeOK
  BY DEF IInv
<1> QED BY <1>1, Invariance, PTL

(* No copy is handed over that the row or a lost answer does not explain.  *)
THEOREM EveryCopyExplained == Spec => []CopiesAccountedFor
<1>1. IInv => CopiesAccountedFor
  BY DEF IInv
<1> QED BY <1>1, Invariance, PTL

(* EMAIL_SEND_MAX_ATTEMPTS bounds the copies whatever dies and whenever.   *)
THEOREM CopiesStayBounded == Spec => []CopiesBounded
<1>1. IInv => CopiesBounded
  BY BoundAssumption DEF IInv, TypeOK, Tries, CopiesBounded
<1> QED BY <1>1, Invariance, PTL

(* Requests that repeat a key are all answered with one stored message.    *)
THEOREM RepeatsAnsweredAlike == Spec => []IdempotentAnswers
<1>1. IInv => IdempotentAnswers
  <2> SUFFICES ASSUME IInv PROVE IdempotentAnswers
    OBVIOUS
  <2>1. ASSUME NEW r \in Req, NEW q \in Req, answer[r] # NoId, answer[q] # NoId,
               KeyOf[r] = KeyOf[q], KeyOf[r] # NoKey
        PROVE  answer[r] = answer[q]
    <3>1. answer[r] \in Req /\ answer[q] \in Req
      BY <2>1 DEF IInv, TypeOK
    <3> QED BY <2>1, <3>1 DEF IInv, AnswersExist, OneRowPerKey
  <2> QED BY <2>1 DEF IInv, AnswersExist, IdempotentAnswers
<1> QED BY <1>1, Invariance, PTL

(* Requests that repeat a key put at most one message on the wire.         *)
THEOREM RepeatsSendOneMessage == Spec => []OneMessagePerKey
<1>1. IInv => OneMessagePerKey
  BY DEF IInv, Places, OneRowPerKey, OneMessagePerKey
<1> QED BY <1>1, Invariance, PTL

(* A job that ends by itself leaves its row settled.                       *)
THEOREM JobsEndSettled == Spec => []JobEndsSettled
<1>1. IInv => JobEndsSettled
  BY DEF IInv
<1> QED BY <1>1, Invariance, PTL

(* The suppression check holds for every copy up to the addresses that     *)
(* were listed after it.                                                   *)
THEOREM CheckedBeforeSent == Spec => SuppressedBeforeNeverSent
<1>1. IInv /\ [Next]_vars =>
        [\A r \in Req : wire'[r] > wire[r] => Recipients(r) \cap suppressed \subseteq late[r]]_vars
  <2> SUFFICES ASSUME IInv, [Next]_vars, NEW r \in Req, wire'[r] > wire[r]
               PROVE  Recipients(r) \cap suppressed \subseteq late[r]
    OBVIOUS
  <2>1. job[r] # "none"
    <3>1. ASSUME NEW q \in Req, Call(q) \/ WorkerDies(q) \/ JobAborts(q) PROVE job[r] # "none"
      BY <3>1 DEF Call, WorkerDies, JobAborts, Abandoned, IInv, TypeOK, Places
    <3>2. ASSUME wire' = wire PROVE FALSE
      BY <3>2 DEF IInv, TypeOK
    <3> QED
      BY <3>1, <3>2
      DEF Next, RequestStep, JobStep, Failure, Environment, LookUp, RefuseSuppressed,
          ChooseProvider, CommitRow, AnswerCollision, Enqueue, StartJob, Claim, Record,
          FinishJob, RequestDies, QueueLost, Suppress, Unsuppress, Connect,
          ConnectionBreaks, Disconnect, SecretKeyChanges, vars, obsVars
  <2> QED BY <2>1 DEF IInv, Checked
<1> QED BY <1>1, Invariance, PTL DEF Spec, SuppressedBeforeNeverSent

-----------------------------------------------------------------------------
(* The promise to the caller.                                              *)

LEMMA PromiseInit == Init => Promise!Init
  BY DEF Init, Promise!Init, Shown

(* An answer is the id of an accepted message of the same key.             *)
LEMMA PromiseAnswer ==
    ASSUME IInv, NEW r \in Req, NEW e \in Req, answer[r] = NoId, status[e] # "none",
           e = r \/ (KeyOf[e] = KeyOf[r] /\ KeyOf[r] # NoKey),
           answer' = [answer EXCEPT ![r] = e], status' = status, wire' = wire
    PROVE  Promise!Next
<1>1. e \in Promise!Accepted(r)
  BY DEF Promise!Accepted, Promise!Twins, Shown
<1>2. Promise!Answer(r)
  BY <1>1 DEF Promise!Answer
<1> QED BY <1>2 DEF Promise!Next

(* A copy is handed over only of a message a caller sees queued.           *)
LEMMA PromiseHandOver ==
    ASSUME IInv, NEW r \in Req, task[r] = "calling",
           wire' = [wire EXCEPT ![r] = @ + 1], status' = status, answer' = answer
    PROVE  Promise!Next
<1>1. status[r] = "sending" /\ wire[r] < MaxAttempts
  BY BoundAssumption DEF IInv, Places, InCall, Tries, TypeOK
<1>2. Promise!HandOver(r)
  BY <1>1 DEF Promise!HandOver, Shown
<1> QED BY <1>2 DEF Promise!Next

(* A settled message was seen queued, and one that is sent was handed over. *)
LEMMA PromiseSettle ==
    ASSUME IInv, NEW r \in Req, status[r] \in {"queued", "sending"}, NEW s \in Settled,
           s = "sent" => wire[r] > 0,
           status' = [status EXCEPT ![r] = s], wire' = wire, answer' = answer
    PROVE  Promise!Next
<1>1. [q \in Req |-> Shown(status'[q])] = [[q \in Req |-> Shown(status[q])] EXCEPT ![r] = s]
  BY DEF IInv, TypeOK, Shown, Settled
<1>2. Promise!Settle(r)
  BY <1>1 DEF Promise!Settle, Shown, Settled
<1> QED BY <1>2 DEF Promise!Next

(* What a caller sees of a step: nothing, or one step of Outbox.           *)
LEMMA PromiseStep == IInv /\ [Next]_vars => [Promise!Next]_(Promise!vars)
<1> SUFFICES ASSUME IInv, [Next]_vars PROVE [Promise!Next]_(Promise!vars)
  OBVIOUS
<1>0. ASSUME status' = status, answer' = answer, wire' = wire
      PROVE  UNCHANGED Promise!vars
  BY <1>0 DEF Promise!vars
<1>1. ASSUME NEW r \in Req, LookUp(r) PROVE [Promise!Next]_(Promise!vars)
  <2>1. CASE KeyTaken(KeyOf[r])
    <3>1. PICK e \in RowsWithKey(KeyOf[r]) : answer' = [answer EXCEPT ![r] = e]
      BY <1>1, <2>1 DEF LookUp
    <3>2. e \in Req /\ status[e] # "none" /\ KeyOf[e] = KeyOf[r] /\ KeyOf[r] # NoKey
      BY <2>1 DEF RowsWithKey, KeyTaken
    <3>3. answer[r] = NoId /\ status' = status /\ wire' = wire
      BY <1>1 DEF LookUp, IInv, Places, rowVars, obsVars
    <3> QED BY <3>1, <3>2, <3>3, PromiseAnswer
  <2>2. CASE ~ KeyTaken(KeyOf[r])
    BY <1>1, <2>2, <1>0 DEF LookUp, rowVars, obsVars
  <2> QED BY <2>1, <2>2
<1>2. ASSUME NEW r \in Req, CommitRow(r) PROVE [Promise!Next]_(Promise!vars)
  <2>1. CASE KeyTaken(KeyOf[r])
    BY <1>2, <2>1, <1>0 DEF CommitRow, obsVars
  <2>2. CASE ~ KeyTaken(KeyOf[r])
    <3>1. /\ status' = [status EXCEPT ![r] = "queued"]
          /\ wire' = wire /\ answer' = answer
      BY <1>2, <2>2 DEF CommitRow, obsVars
    <3>2. status[r] = "none"
      BY <1>2 DEF CommitRow, IInv, Places
    <3>3. Promise!Accepted(r) = {}
      BY <2>2, <3>2 DEF Promise!Accepted, Promise!Twins, Shown, KeyTaken, RowsWithKey
    <3>4. [q \in Req |-> Shown(status'[q])]
            = [[q \in Req |-> Shown(status[q])] EXCEPT ![r] = "queued"]
      BY <3>1 DEF IInv, TypeOK, Shown
    <3>5. Promise!Accept(r)
      BY <3>1, <3>3, <3>4 DEF Promise!Accept
    <3> QED BY <3>5 DEF Promise!Next
  <2> QED BY <2>1, <2>2
<1>3. ASSUME NEW r \in Req, AnswerCollision(r) PROVE [Promise!Next]_(Promise!vars)
  <2>1. PICK e \in RowsWithKey(KeyOf[r]) : answer' = [answer EXCEPT ![r] = e]
    BY <1>3 DEF AnswerCollision
  <2>2. answer[r] = NoId /\ status' = status /\ wire' = wire
    BY <1>3 DEF AnswerCollision, IInv, Places, rowVars, obsVars
  <2>3. e \in Req /\ status[e] # "none" /\ KeyOf[e] = KeyOf[r]
    BY DEF RowsWithKey
  <2>4. KeyOf[r] # NoKey
    BY <1>3 DEF AnswerCollision, IInv, Collisions
  <2> QED BY <2>1, <2>2, <2>3, <2>4, PromiseAnswer
<1>4. ASSUME NEW r \in Req, Enqueue(r) PROVE [Promise!Next]_(Promise!vars)
  <2>1. /\ answer[r] = NoId /\ status[r] # "none"
        /\ answer' = [answer EXCEPT ![r] = r] /\ status' = status /\ wire' = wire
    BY <1>4 DEF Enqueue, IInv, Places, rowVars, obsVars
  <2> QED BY <2>1, PromiseAnswer
<1>5. ASSUME NEW r \in Req, Claim(r) PROVE [Promise!Next]_(Promise!vars)
  <2>1. wire' = wire /\ answer' = answer
    BY <1>5 DEF Claim, obsVars, reqVars
  <2>2. CASE status[r] \in Sendable /\ ~ Sendability(r)
    BY <1>5, <2>1, <2>2, PromiseSettle DEF Claim, Sendable, Settled
  <2>3. CASE status[r] \in Sendable /\ Sendability(r)
    <3>1. status' = [status EXCEPT ![r] = "sending"]
      BY <1>5, <2>3 DEF Claim
    <3>2. [q \in Req |-> Shown(status'[q])] = [q \in Req |-> Shown(status[q])]
      BY <2>3, <3>1 DEF IInv, TypeOK, Shown, Sendable
    <3> QED BY <2>1, <3>2 DEF Promise!vars
  <2>4. CASE status[r] \notin Sendable
    BY <1>5, <2>1, <2>4, <1>0 DEF Claim
  <2> QED BY <2>2, <2>3, <2>4
<1>6. ASSUME NEW r \in Req, Call(r) PROVE [Promise!Next]_(Promise!vars)
  <2>1. task[r] = "calling" /\ status' = status /\ answer' = answer
    BY <1>6 DEF Call, rowVars, reqVars
  <2>2. wire' = wire \/ wire' = [wire EXCEPT ![r] = @ + 1]
    BY <1>6 DEF Call
  <2> QED BY <2>1, <2>2, <1>0, PromiseHandOver
<1>7. ASSUME NEW r \in Req, Record(r) PROVE [Promise!Next]_(Promise!vars)
  <2>1. /\ wire' = wire /\ answer' = answer
        /\ status[r] = "sending"
        /\ task[r] = "accepted" => wire[r] > 0
    BY <1>7 DEF Record, obsVars, reqVars, IInv, Places, InCall, CopiesAccountedFor, TypeOK
  <2>2. CASE WillRetry(r)
    <3>1. status' = status
      BY <1>7, <2>1, <2>2 DEF Record, WillRetry, Retryable, IInv, TypeOK
    <3> QED BY <2>1, <3>1, <1>0
  <2>3. CASE ~ WillRetry(r)
    <3> DEFINE s == IF task[r] = "accepted" THEN "sent" ELSE "failed"
    <3>1. status' = [status EXCEPT ![r] = s]
      BY <1>7, <2>3 DEF Record
    <3>2. s \in Settled /\ (s = "sent" => wire[r] > 0)
      BY <2>1 DEF Settled
    <3> HIDE DEF s
    <3> QED BY <2>1, <3>1, <3>2, PromiseSettle
  <2> QED BY <2>2, <2>3
<1>8. ASSUME NEW r \in Req, WorkerDies(r) \/ JobAborts(r)
      PROVE  [Promise!Next]_(Promise!vars)
  <2>1. status' = status /\ answer' = answer
    BY <1>8 DEF WorkerDies, JobAborts, rowVars, reqVars
  <2>2. wire' = wire \/ (task[r] = "calling" /\ wire' = [wire EXCEPT ![r] = @ + 1])
    BY <1>8 DEF WorkerDies, JobAborts, Abandoned
  <2> QED BY <2>1, <2>2, <1>0, PromiseHandOver
(* The other steps change nothing a caller sees.                           *)
<1>9. ASSUME NEW r \in Req,
             \/ RefuseSuppressed(r) \/ ChooseProvider(r) \/ StartJob(r)
             \/ FinishJob(r) \/ RequestDies(r) \/ QueueLost(r)
      PROVE  [Promise!Next]_(Promise!vars)
  BY <1>9, <1>0
  DEF RefuseSuppressed, ChooseProvider, StartJob, FinishJob, RequestDies, QueueLost,
      rowVars, reqVars, obsVars
<1>10. ASSUME Environment PROVE [Promise!Next]_(Promise!vars)
  BY <1>10, <1>0
  DEF Environment, Suppress, Unsuppress, Connect, ConnectionBreaks, Disconnect,
      SecretKeyChanges, rowVars, reqVars, obsVars
<1>11. CASE UNCHANGED vars
  BY <1>11, <1>0 DEF vars
<1> QED
  BY <1>1, <1>2, <1>3, <1>4, <1>5, <1>6, <1>7, <1>8, <1>9, <1>10, <1>11
  DEF Next, RequestStep, JobStep, Failure

(* Requests and jobs, with everything that can befall them, keep the       *)
(* promise Outbox states.                                                  *)
THEOREM PromiseKept == Spec => KeepsPromise
  BY PromiseInit, PromiseStep, Invariance, PTL DEF Spec, KeepsPromise, Promise!Spec

=============================================================================
