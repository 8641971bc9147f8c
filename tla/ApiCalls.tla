------------------------------- MODULE ApiCalls -------------------------------
(***************************************************************************)
(* Calls to the public API: the client library that repeats them, the key  *)
(* that admits them and the limit that counts them.                        *)
(*                                                                         *)
(* A call of the library is one request sent up to max_attempts times,     *)
(* with one idempotency key.  An attempt whose answer did not come may     *)
(* still be at work when the next one is sent.  The server looks the API   *)
(* key up in a cache, then in the table, counts the request against the    *)
(* project's window and accepts the message, which is one step here:       *)
(* SendPipeline has what it is made of.  Meanwhile people revoke keys.     *)
(*                                                                         *)
(* The database, Redis and HTTP are not under src/: they are modelled from *)
(* how src/ uses them.                                                     *)
(***************************************************************************)
EXTENDS Naturals, FiniteSets

CONSTANTS
    Call,        \* calls to emails.send
    Key,         \* API keys of one project
    KeyOf,       \* the key each call is made with
    Tries,       \* max_attempts
    Limit,       \* API_RATE_LIMIT_PER_MINUTE
    MaxWindows,  \* bound: windows of the rate limit
    MaxFaults    \* bound: calls to Redis that raise, answers that do not come, deaths

ASSUME KeyAssumption == KeyOf \in [Call -> Key]
ASSUME LimitAssumption ==
    /\ Tries \in Nat \ {0} /\ Limit \in Nat
    /\ MaxWindows \in Nat \ {0} /\ MaxFaults \in Nat

VARIABLES
    row,       \* whether the table says the key is live or revoked
    cached,    \* keys whose entry is in the cache
    revoking,  \* where each key's revocation is
    call,      \* where each call is
    try,       \* attempts made
    unsure,    \* calls one of whose attempts may have been accepted unseen
    handler,   \* where the server is with each attempt
    stamp,     \* the window each attempt is counted in
    accepted,  \* calls whose message is stored
    window,    \* the window it is
    used,      \* the counter of each window
    admitted,  \* what each window let through by its counter
    faults

keyVars    == <<row, cached, revoking>>
callVars   == <<call, try, unsure>>
windowVars == <<window, used, admitted>>
apiVars == <<keyVars, callVars, handler, stamp, accepted, windowVars, faults>>

Window == 1..MaxWindows
Attempt == Call \X (1..Tries)

Ended  == {"answered", "refused", "lost"}
Stages == Ended \cup {"ready", "waiting", "pausing"}
HandlerPlaces == {"none", "verifying", "querying", "filling", "charging", "accepting", "done"}

CallsInit ==
    /\ row = [k \in Key |-> "live"]
    /\ cached = {}
    /\ revoking = [k \in Key |-> "no"]
    /\ call = [c \in Call |-> "ready"]
    /\ try = [c \in Call |-> 0]
    /\ unsure = {}
    /\ handler = [a \in Attempt |-> "none"]
    /\ stamp = [a \in Attempt |-> 1]
    /\ accepted = {}
    /\ window = 1
    /\ used = [w \in Window |-> 0]
    /\ admitted = [w \in Window |-> 0]
    /\ faults = 0

-----------------------------------------------------------------------------
(* The library: _Transport.send.                                           *)

Send(c) ==
    /\ call[c] \in {"ready", "pausing"}
    /\ try' = [try EXCEPT ![c] = @ + 1]
    /\ call' = [call EXCEPT ![c] = "waiting"]
    /\ handler' = [handler EXCEPT ![<<c, try'[c]>>] = "verifying"]
    /\ UNCHANGED <<keyVars, unsure, stamp, accepted, windowVars, faults>>

(* The application sends another message, once the requests of the last    *)
(* one are over: Call bounds the calls that are going on, not their sum.   *)
SendAnother(c) ==
    /\ call[c] \in Ended
    /\ \A n \in 1..Tries : handler[<<c, n>>] \in {"none", "done"}
    /\ call' = [call EXCEPT ![c] = "ready"]
    /\ try' = [try EXCEPT ![c] = 0]
    /\ unsure' = unsure \ {c}
    /\ accepted' = accepted \ {c}
    /\ handler' = [a \in Attempt |-> IF a[1] = c THEN "none" ELSE handler[a]]
    /\ UNCHANGED <<keyVars, stamp, windowVars, faults>>

(* should_retry: while attempts are left.                                  *)
TryLeft(n) == n < Tries

(* RETRY_STATUSES are worth asking again; any other answer is the answer.  *)
WorthRetrying(status) == status \in {"limited", "failed"}

(* An answer reaches the call if it still waits for this attempt.          *)
Respond(a, status) ==
    LET c == a[1] IN
    /\ handler' = [handler EXCEPT ![a] = "done"]
    /\ IF call[c] = "waiting" /\ try[c] = a[2]
         THEN /\ call' = [call EXCEPT ![c] =
                             IF status = "accepted" THEN "answered"
                             ELSE IF WorthRetrying(status) /\ TryLeft(try[c]) THEN "pausing"
                             ELSE "refused"]
              /\ unsure' = IF status = "failed" THEN unsure \cup {c} ELSE unsure
         ELSE UNCHANGED <<call, unsure>>
    /\ UNCHANGED try

(* httpx raises: the answer is too late, or nobody is left to give one.    *)
NoAnswer(c) ==
    /\ call[c] = "waiting"
    /\ \/ handler[<<c, try[c]>>] = "done" /\ UNCHANGED faults
       \/ faults < MaxFaults /\ faults' = faults + 1
    /\ call' = [call EXCEPT ![c] = IF TryLeft(try[c]) THEN "pausing" ELSE "lost"]
    /\ unsure' = unsure \cup {c}
    /\ UNCHANGED <<keyVars, try, handler, stamp, accepted, windowVars>>

-----------------------------------------------------------------------------
(* The server: verify_api_key.                                             *)

KeyFor(a) == KeyOf[a[1]]

Move(a, place) == handler' = [handler EXCEPT ![a] = place]

(* check_rate_limit reads the clock as soon as the key is verified.        *)
Admit(a) ==
    /\ Move(a, "charging")
    /\ stamp' = [stamp EXCEPT ![a] = window]

(* The cache; one that cannot be reached is a miss.                        *)
LookInCache(a) ==
    /\ handler[a] = "verifying"
    /\ \/ KeyFor(a) \in cached /\ Admit(a) /\ UNCHANGED faults
       \/ KeyFor(a) \notin cached /\ Move(a, "querying") /\ UNCHANGED <<stamp, faults>>
       \/ /\ faults < MaxFaults /\ faults' = faults + 1
          /\ Move(a, "querying") /\ UNCHANGED stamp
    /\ UNCHANGED <<keyVars, callVars, accepted, windowVars>>

(* Mutant: a revoked row is found as well.                                 *)
FoundAny(k) == k \in Key

Found(k) == row[k] = "live"

Query(a) ==
    /\ handler[a] = "querying"
    /\ \/ Found(KeyFor(a)) /\ Move(a, "filling") /\ UNCHANGED callVars
       \/ ~ Found(KeyFor(a)) /\ Respond(a, "unauthorized")
    /\ UNCHANGED <<keyVars, stamp, accepted, windowVars, faults>>

(* The entry is set from what was read, if it can be set.                  *)
Fill(a) ==
    /\ handler[a] = "filling"
    /\ \/ cached' = cached \cup {KeyFor(a)} /\ UNCHANGED faults
       \/ faults < MaxFaults /\ faults' = faults + 1 /\ UNCHANGED cached
    /\ Admit(a)
    /\ UNCHANGED <<row, revoking, callVars, accepted, windowVars>>

-----------------------------------------------------------------------------
(* check_rate_limit, and what it lets through.                             *)

(* Mutant: compared before it is counted.                                  *)
FitsBefore(n) == n - 1 <= Limit

Fits(n) == n <= Limit

(* A counter past the limit stays at the first such value: all are alike.  *)
Counted(n) == IF n <= Limit THEN n + 1 ELSE n

(* Counts first and compares afterwards.  It is allowed if it cannot be    *)
(* counted.                                                                *)
Charge(a) ==
    LET w == stamp[a]  n == Counted(used[w]) IN
    /\ handler[a] = "charging"
    /\ \/ /\ used' = [used EXCEPT ![w] = n]
          /\ \/ /\ Fits(n)
                /\ admitted' = [admitted EXCEPT ![w] = @ + 1]
                /\ Move(a, "accepting")
                /\ UNCHANGED callVars
             \/ /\ ~ Fits(n)
                /\ Respond(a, "limited")
                /\ UNCHANGED admitted
          /\ UNCHANGED faults
       \/ /\ faults < MaxFaults /\ faults' = faults + 1
          /\ Move(a, "accepting")
          /\ UNCHANGED <<callVars, used, admitted>>
    /\ UNCHANGED <<keyVars, stamp, accepted, window>>

(* Mutant: the checks come after the message is stored.                    *)
AcceptUnchecked(a) ==
    /\ handler[a] = "accepting"
    /\ accepted' = accepted \cup {a[1]}
    /\ Respond(a, "accepted") \/ Respond(a, "invalid")
    /\ UNCHANGED <<keyVars, stamp, windowVars, faults>>

(* send_email.  A repeat is answered with what is stored; a new message is *)
(* refused, or stored; and the enqueue that follows may fail.              *)
Accept(a) ==
    LET c == a[1] IN
    /\ handler[a] = "accepting"
    /\ \/ accepted' = accepted \cup {c} /\ Respond(a, "accepted") /\ UNCHANGED faults
       \/ c \notin accepted /\ Respond(a, "invalid") /\ UNCHANGED <<accepted, faults>>
       \/ /\ c \notin accepted
          /\ faults < MaxFaults /\ faults' = faults + 1
          /\ accepted' = accepted \cup {c} /\ Respond(a, "failed")
    /\ UNCHANGED <<keyVars, stamp, windowVars>>

HandlerDies(a) ==
    /\ handler[a] \notin {"none", "done"}
    /\ faults < MaxFaults
    /\ faults' = faults + 1
    /\ Move(a, "done")
    /\ UNCHANGED <<keyVars, callVars, stamp, accepted, windowVars>>

-----------------------------------------------------------------------------
(* Revoking: revoke_api_key, then the commit.                              *)

(* The flush is nobody's to see; the entry goes, unless Redis raises.      *)
Evict(k) ==
    /\ revoking[k] = "no"
    /\ revoking' = [revoking EXCEPT ![k] = "evicted"]
    /\ \/ cached' = cached \ {k} /\ UNCHANGED faults
       \/ faults < MaxFaults /\ faults' = faults + 1 /\ UNCHANGED cached
    /\ UNCHANGED <<row, callVars, handler, stamp, accepted, windowVars>>

CommitRevocation(k) ==
    /\ revoking[k] = "evicted"
    /\ revoking' = [revoking EXCEPT ![k] = "done"]
    /\ row' = [row EXCEPT ![k] = "revoked"]
    /\ UNCHANGED <<cached, callVars, handler, stamp, accepted, windowVars, faults>>

-----------------------------------------------------------------------------
(* Time.                                                                   *)

(* API_KEY_CACHE_TTL_SECONDS after it was set.                             *)
CacheExpires(k) ==
    /\ k \in cached
    /\ cached' = cached \ {k}
    /\ UNCHANGED <<row, revoking, callVars, handler, stamp, accepted, windowVars, faults>>

WindowTurns ==
    /\ window < MaxWindows
    /\ window' = window + 1
    /\ UNCHANGED <<keyVars, callVars, handler, stamp, accepted, used, admitted, faults>>

-----------------------------------------------------------------------------
ClientStep(c) == Send(c) \/ NoAnswer(c) \/ SendAnother(c)
ServerStep(a) == LookInCache(a) \/ Query(a) \/ Fill(a) \/ Charge(a) \/ Accept(a)

CallsNext ==
    \/ \E c \in Call : ClientStep(c)
    \/ \E a \in Attempt : ServerStep(a) \/ HandlerDies(a)
    \/ \E k \in Key : Evict(k) \/ CommitRevocation(k) \/ CacheExpires(k)
    \/ WindowTurns

CallsSpec == CallsInit /\ [][CallsNext]_apiVars

(* A request is handled, and a cache entry expires.  Nobody need send,     *)
(* revoke or wait.                                                         *)
FairSpec ==
    /\ CallsSpec
    /\ \A a \in Attempt : WF_apiVars(ServerStep(a))
    /\ \A k \in Key : WF_apiVars(CacheExpires(k))

-----------------------------------------------------------------------------
CallsTypeOK ==
    /\ row \in [Key -> {"live", "revoked"}]
    /\ cached \subseteq Key
    /\ revoking \in [Key -> {"no", "evicted", "done"}]
    /\ call \in [Call -> Stages]
    /\ try \in [Call -> 0..Tries]
    /\ unsure \subseteq Call
    /\ handler \in [Attempt -> HandlerPlaces]
    /\ stamp \in [Attempt -> Window]
    /\ accepted \subseteq Call
    /\ window \in Window
    /\ used \in [Window -> 0..(Limit + 1)]
    /\ admitted \in [Window -> Nat]
    /\ faults \in 0..MaxFaults

(* Whatever is in flight, a window lets through no more requests than the  *)
(* limit by its counter.  check_rate_limit.                                *)
KeptWithinLimit == \A w \in Window : admitted[w] <= Limit

(* A key that was revoked comes to admit nobody, and stays so: requests    *)
(* that had read its row, and the entry they may put back, are the last.   *)
(* verify_api_key, revoke_api_key.                                         *)
Dead(k) ==
    /\ k \notin cached
    /\ \A a \in Attempt : handler[a] = "filling" => KeyFor(a) # k

RevocationTakesEffect == \A k \in Key : row[k] = "revoked" ~> []Dead(k)

(* A call whose every attempt was answered, and was refused, has left no   *)
(* message behind, and one that was answered with an id has one.           *)
(* _Transport.send, send_email.                                            *)
AnswersAreTrue ==
    \A c \in Call :
        /\ call[c] = "answered" => c \in accepted
        /\ call[c] = "refused" /\ c \notin unsure => c \notin accepted

(* "Requests using it start failing immediately."                          *)
(* apps/api/src/seskit_api/routes/api_keys.py:137.  So a request that      *)
(* begins after the commit is not let through.                             *)
FailsImmediately ==
    [][\A a \in Attempt :
          handler[a] = "verifying" /\ row[KeyFor(a)] = "revoked" => handler'[a] # "charging"]_apiVars

(* SESKitConnectionError: "Distinct from every class above, which are      *)
(* answers.  A send that failed this way may or may not have been          *)
(* accepted".  packages/sdk-python/src/seskit/_errors.py:120.  So one that *)
(* failed with an answer was not.                                          *)
RefusedMeansNotSent == \A c \in Call : call[c] = "refused" => c \notin accepted
=============================================================================
