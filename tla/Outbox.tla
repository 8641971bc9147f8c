-------------------------------- MODULE Outbox --------------------------------
(***************************************************************************)
(* What POST /v1/emails promises its caller, with none of the machinery.   *)
(*                                                                         *)
(* A message is accepted at most once per idempotency key.  Every request  *)
(* that is answered is answered, once, with the id of the message accepted *)
(* for its key.  While a message is queued it may be handed to a provider, *)
(* a bounded number of times; then it is sent or failed, for good, and it  *)
(* is sent only if it was handed over.                                     *)
(***************************************************************************)
EXTENDS Naturals

CONSTANTS
    Req,         \* requests, and the ids of the messages they make
    Key,         \* idempotency keys
    NoKey,       \* a request without one
    KeyOf,       \* the key of each request
    NoId,        \* no answer yet
    MaxAttempts  \* times a message may be handed over

VARIABLES
    message,  \* "none", "queued", "sent" or "failed"
    answer,   \* the id each request was answered with
    copies    \* times each message was handed over

vars == <<message, answer, copies>>

Twins(r) == {q \in Req : q = r \/ (KeyOf[q] = KeyOf[r] /\ KeyOf[r] # NoKey)}
Accepted(r) == {q \in Twins(r) : message[q] # "none"}

Init ==
    /\ message = [r \in Req |-> "none"]
    /\ answer = [r \in Req |-> NoId]
    /\ copies = [r \in Req |-> 0]

Accept(r) ==
    /\ Accepted(r) = {}
    /\ message' = [message EXCEPT ![r] = "queued"]
    /\ UNCHANGED <<answer, copies>>

Answer(r) ==
    /\ answer[r] = NoId
    /\ \E q \in Accepted(r) : answer' = [answer EXCEPT ![r] = q]
    /\ UNCHANGED <<message, copies>>

HandOver(r) ==
    /\ message[r] = "queued"
    /\ copies[r] < MaxAttempts
    /\ copies' = [copies EXCEPT ![r] = @ + 1]
    /\ UNCHANGED <<message, answer>>

Settle(r) ==
    /\ message[r] = "queued"
    /\ \/ message' = [message EXCEPT ![r] = "failed"]
       \/ copies[r] > 0 /\ message' = [message EXCEPT ![r] = "sent"]
    /\ UNCHANGED <<answer, copies>>

Next == \E r \in Req : Accept(r) \/ Answer(r) \/ HandOver(r) \/ Settle(r)

Spec == Init /\ [][Next]_vars
=============================================================================
