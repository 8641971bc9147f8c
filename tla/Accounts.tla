------------------------------- MODULE Accounts -------------------------------
(***************************************************************************)
(* Accounts, their sessions and the ways back into them.                   *)
(*                                                                         *)
(* A request signs somebody up or in, recovers an account with its code or *)
(* the operator's key, replaces the code, or chooses a project; the        *)
(* operator resets a password from the command line.  Accounts are rows;   *)
(* sessions and the index of them are Redis keys that expire by themselves, *)
(* and time is what moves them.                                            *)
(*                                                                         *)
(* A code and a session are known by the number of the request that made   *)
(* them.  The database and Redis are not under src/: they are modelled     *)
(* from how src/ uses them.                                                *)
(***************************************************************************)
EXTENDS Naturals, FiniteSets

CONSTANTS
    User,         \* email addresses
    Request,      \* requests that can be open at once
    Nobody,       \* no account, or nothing in hand
    AllowSignup,  \* ALLOW_SIGNUP
    TTL,          \* SESSION_TTL, in ticks
    MaxMade,      \* bound: passwords, codes and sessions made
    MaxFailures   \* bound: requests that fail at a call to Redis, or die

ASSUME SignupAssumption == AllowSignup \in BOOLEAN
ASSUME BoundAssumption ==
    TTL \in Nat \ {0} /\ MaxMade \in Nat /\ MaxFailures \in Nat

VARIABLES
    account,    \* committed rows
    whose,      \* whose each session was, from when it was opened
    left,       \* the life left to each session's record, 0 for none
    bare,       \* records that have a project and no user
    index,      \* user_sessions: the tokens listed for each user
    indexLeft,  \* the life left to that set
    shown,      \* recovery codes somebody was shown
    at, op,     \* where each request is, and what it has in hand
    made,
    failures

sessionVars == <<whose, left, bare, index, indexLeft>>
vars == <<account, sessionVars, shown, at, op, made, failures>>

Made  == 1..MaxMade

Kind == {"signup", "login", "recover", "reset", "regenerate", "switch"}

(* A password is right or wrong when it is typed, and no more is told.     *)
Account == [owner : BOOLEAN, code : Made]

Op == [kind : Kind, user : User,
       owner : BOOLEAN,          \* whether the account it makes is the first
       number : 0..MaxMade,      \* what it has made, or the session it is in
       tokens : SUBSET Made]     \* what it read from the index

ASSUME NobodyAssumption == Nobody \notin User \cup Account \cup Op

Places == {"idle", "allowing", "counting", "verifying", "committing", "ending", "dropping",
           "opening", "switching"}

Init ==
    /\ account = [u \in User |-> Nobody]
    /\ whose = [s \in Made |-> Nobody]
    /\ left = [s \in Made |-> 0]
    /\ bare = {}
    /\ index = [u \in User |-> {}]
    /\ indexLeft = [u \in User |-> 0]
    /\ shown = [u \in User |-> {}]
    /\ at = [r \in Request |-> "idle"]
    /\ op = [r \in Request |-> Nobody]
    /\ made = 0 /\ failures = 0

-----------------------------------------------------------------------------
Busy == {r \in Request : at[r] # "idle"}
Go(r, place) == at' = [at EXCEPT ![r] = place]
Registered == {u \in User : account[u] # Nobody}

(* A record that says who it is for.                                       *)
Live(s) == left[s] > 0 /\ s \notin bare

Begin(r, k, u) ==
    /\ at[r] = "idle"
    /\ op' = [op EXCEPT ![r] = [kind |-> k, user |-> u, owner |-> FALSE, number |-> 0,
                                tokens |-> {}]]
    /\ UNCHANGED <<account, shown, made, failures>>

(* Answered, with or without what it asked for.                            *)
Leave(r) ==
    /\ Go(r, "idle")
    /\ op' = [op EXCEPT ![r] = Nobody]

(* A call to Redis raises, or the process dies.                            *)
Fails(r) ==
    /\ r \in Busy
    /\ failures < MaxFailures
    /\ failures' = failures + 1
    /\ Leave(r)
    /\ UNCHANGED <<account, sessionVars, shown, made>>

-----------------------------------------------------------------------------
(* Signing up: register_user.                                              *)

Signup(r, u) ==
    /\ Begin(r, "signup", u)
    /\ Go(r, IF AllowSignup THEN "counting" ELSE "allowing")
    /\ UNCHANGED sessionVars

(* signup_allowed: open while nobody is registered.                        *)
Allow(r) ==
    /\ at[r] = "allowing"
    /\ \/ Registered = {} /\ Go(r, "counting") /\ UNCHANGED op
       \/ Registered # {} /\ Leave(r)
    /\ UNCHANGED <<account, sessionVars, shown, made, failures>>

(* Mutant: the account counts itself.                                      *)
FirstOfAll(u) == Registered \cup {u} = {}

First(u) == Registered = {}

CountUsers(r) ==
    LET u == op[r].user IN
    /\ at[r] = "counting"
    /\ IF u \in Registered
         THEN Leave(r)
         ELSE op' = [op EXCEPT ![r].owner = First(u)] /\ Go(r, "committing")
    /\ UNCHANGED <<account, sessionVars, shown, made, failures>>

-----------------------------------------------------------------------------
(* Signing in and recovering.                                              *)

Login(r, u) ==
    /\ Begin(r, "login", u)
    /\ Go(r, "verifying")
    /\ UNCHANGED sessionVars

Recover(r, u) ==
    /\ Begin(r, "recover", u)
    /\ Go(r, "verifying")
    /\ UNCHANGED sessionVars

(* is_throttled may refuse.  Then authenticate, or recover_password: the   *)
(* password, or the code or key, is wrong, or right for the row as it is.  *)
Verify(r) ==
    LET o == op[r] IN
    /\ at[r] = "verifying"
    /\ \/ Leave(r)
       \/ /\ o.user \in Registered
          /\ Go(r, IF o.kind = "login" THEN "opening" ELSE "committing")
          /\ UNCHANGED op
    /\ UNCHANGED <<account, sessionVars, shown, made, failures>>

-----------------------------------------------------------------------------
(* What is committed.                                                      *)

(* reset_account_password, for an account that is there.                   *)
Reset(r, u) ==
    /\ u \in Registered
    /\ Begin(r, "reset", u)
    /\ Go(r, "committing")
    /\ UNCHANGED sessionVars

(* A page that needs a session: read_session gives the record its life     *)
(* back, and not the index.                                                *)
ReadBy(s) ==
    /\ Live(s)
    /\ left' = [left EXCEPT ![s] = TTL]
    /\ UNCHANGED <<whose, bare, index, indexLeft>>

(* regenerate_recovery_code, with the right password.                      *)
Regenerate(r, s) ==
    /\ ReadBy(s)
    /\ Begin(r, "regenerate", whose[s])
    /\ Go(r, "committing")

(* Mutant: a reset password replaces the code as well.                     *)
NextCodeAlways(o, row, n) == n

(* issue_recovery_code.                                                    *)
NextCode(o, row, n) == IF o.kind = "reset" THEN row.code ELSE n

(* The new password is committed before anything is revoked.               *)
Commit(r) ==
    LET o == op[r]  u == o.user  n == made + 1 IN
    /\ at[r] = "committing"
    /\ n \in Made
    /\ IF o.kind = "signup"
         THEN /\ u \notin Registered
              /\ account' = [account EXCEPT ![u] = [owner |-> o.owner, code |-> n]]
              /\ Go(r, "opening")
         ELSE /\ account' = [account EXCEPT ![u].code = NextCode(o, account[u], n)]
              /\ Go(r, IF o.kind = "regenerate" THEN "idle" ELSE "ending")
    /\ made' = IF o.kind = "reset" THEN made ELSE n
    /\ shown' = IF o.kind = "regenerate" THEN [shown EXCEPT ![u] = @ \cup {n}] ELSE shown
    /\ op' = [op EXCEPT ![r] = IF o.kind = "regenerate" THEN Nobody
                              ELSE [o EXCEPT !.number = IF o.kind = "reset" THEN 0 ELSE n]]
    /\ UNCHANGED <<sessionVars, failures>>

(* The unique email: somebody registered it first.                         *)
CommitCollides(r) ==
    /\ at[r] = "committing"
    /\ op[r].kind = "signup"
    /\ op[r].user \in Registered
    /\ Leave(r)
    /\ UNCHANGED <<account, sessionVars, shown, made, failures>>

-----------------------------------------------------------------------------
(* Sessions.                                                               *)

(* delete_user_sessions lists the tokens first.                            *)
ListSessions(r) ==
    LET o == op[r] IN
    /\ at[r] = "ending"
    /\ op' = [op EXCEPT ![r].tokens = index[o.user]]
    /\ Go(r, "dropping")
    /\ UNCHANGED <<account, sessionVars, shown, made, failures>>

AfterEnding(o) == IF o.kind = "reset" THEN "idle" ELSE "opening"

(* And deletes what it listed, with the index, in one transaction.         *)
DropSessions(r) ==
    LET o == op[r] IN
    /\ at[r] = "dropping"
    /\ left' = [s \in Made |-> IF s \in o.tokens THEN 0 ELSE left[s]]
    /\ bare' = bare \ o.tokens
    /\ IF o.tokens = {}
         THEN UNCHANGED <<index, indexLeft>>
         ELSE /\ index' = [index EXCEPT ![o.user] = {}]
              /\ indexLeft' = [indexLeft EXCEPT ![o.user] = 0]
    /\ Go(r, AfterEnding(o))
    /\ op' = [op EXCEPT ![r] = IF o.kind = "reset" THEN Nobody ELSE [o EXCEPT !.tokens = {}]]
    /\ UNCHANGED <<account, whose, shown, made, failures>>

(* create_session, and the answer: a new account's code, or the next one   *)
(* of a recovered account, is on its page.                                 *)
OpenSession(r) ==
    LET o == op[r]  s == IF o.kind = "login" THEN made + 1 ELSE o.number IN
    /\ at[r] = "opening"
    /\ s \in Made
    /\ whose' = [whose EXCEPT ![s] = o.user]
    /\ left' = [left EXCEPT ![s] = TTL]
    /\ index' = [index EXCEPT ![o.user] = @ \cup {s}]
    /\ indexLeft' = [indexLeft EXCEPT ![o.user] = TTL]
    /\ shown' = IF o.kind = "login" THEN shown ELSE [shown EXCEPT ![o.user] = @ \cup {s}]
    /\ made' = IF o.kind = "login" THEN s ELSE made
    /\ Leave(r)
    /\ UNCHANGED <<account, bare, failures>>

(* Any page.  A record without a user raises, and lives on all the same.   *)
Visit(s) ==
    /\ left[s] > 0
    /\ left' = [left EXCEPT ![s] = TTL]
    /\ UNCHANGED <<account, whose, bare, index, indexLeft, shown, at, op, made,
                   failures>>

(* delete_session.  A set that loses its last member is gone.              *)
Logout(s) ==
    LET u == whose[s] IN
    /\ Live(s)
    /\ left' = [left EXCEPT ![s] = 0]
    /\ index' = [index EXCEPT ![u] = @ \ {s}]
    /\ indexLeft' = [indexLeft EXCEPT ![u] = IF index[u] \subseteq {s} THEN 0 ELSE @]
    /\ UNCHANGED <<account, whose, bare, shown, at, op, made, failures>>

(* switch_project reads its session, then the project.                     *)
Switch(r, s) ==
    /\ ReadBy(s)
    /\ at[r] = "idle"
    /\ op' = [op EXCEPT ![r] = [kind |-> "switch", user |-> whose[s], owner |-> FALSE,
                                number |-> s, tokens |-> {}]]
    /\ Go(r, "switching")
    /\ UNCHANGED <<account, shown, made, failures>>

(* Mutant: the whole record is written again.                              *)
SetWholeRecord(r) ==
    /\ at[r] = "switching"
    /\ left' = [left EXCEPT ![op[r].number] = TTL]
    /\ Leave(r)
    /\ UNCHANGED <<account, whose, bare, index, indexLeft, shown, made, failures>>

(* set_current_project: HSET makes the record if it is gone.               *)
SetCurrentProject(r) ==
    LET s == op[r].number IN
    /\ at[r] = "switching"
    /\ left' = [left EXCEPT ![s] = TTL]
    /\ bare' = IF left[s] = 0 THEN bare \cup {s} ELSE bare
    /\ Leave(r)
    /\ UNCHANGED <<account, whose, index, indexLeft, shown, made, failures>>

(* Time passes for every key.                                              *)
Tick ==
    LET Older(n) == IF n = 0 THEN 0 ELSE n - 1 IN
    /\ left' = [s \in Made |-> Older(left[s])]
    /\ indexLeft' = [u \in User |-> Older(indexLeft[u])]
    /\ bare' = {s \in bare : left'[s] > 0}
    /\ index' = [u \in User |-> IF indexLeft'[u] = 0 THEN {} ELSE index[u]]
    /\ UNCHANGED <<account, whose, shown, at, op, made, failures>>

-----------------------------------------------------------------------------
Requests ==
    \E r \in Request :
        \/ \E u \in User : Signup(r, u) \/ Login(r, u) \/ Recover(r, u) \/ Reset(r, u)
        \/ \E s \in Made : Regenerate(r, s) \/ Switch(r, s)

Steps(r) ==
    \/ Allow(r) \/ CountUsers(r) \/ Verify(r) \/ Commit(r) \/ CommitCollides(r)
    \/ ListSessions(r) \/ DropSessions(r) \/ OpenSession(r) \/ SetCurrentProject(r)

Outside ==
    \/ \E s \in Made : Visit(s) \/ Logout(s)
    \/ Tick

Next == Requests \/ (\E r \in Request : Steps(r) \/ Fails(r)) \/ Outside

Spec == Init /\ [][Next]_vars

-----------------------------------------------------------------------------
TypeOK ==
    /\ account \in [User -> Account \cup {Nobody}]
    /\ whose \in [Made -> User \cup {Nobody}]
    /\ left \in [Made -> 0..TTL]
    /\ bare \subseteq Made
    /\ indexLeft \in [User -> 0..TTL]
    /\ index \in [User -> SUBSET Made]
    /\ \A u \in User : indexLeft[u] = 0 <=> index[u] = {}
    /\ \A u \in User : \A s \in index[u] : whose[s] = u
    /\ shown \in [User -> SUBSET Made]
    /\ at \in [Request -> Places]
    /\ op \in [Request -> Op \cup {Nobody}]
    /\ made \in 0..MaxMade /\ failures \in 0..MaxFailures

(* A session that was logged out, ended or left to expire never signs      *)
(* anybody in again, whatever requests it still had in flight.             *)
(* read_session, delete_session, set_current_project.                      *)
EndedStaysEnded == [][\A s \in Made : whose[s] # Nobody /\ ~ Live(s) => ~ Live(s)']_vars

(* "an account must not be left without a way back in by having used it":  *)
(* the recovery code on file is one somebody was shown, or is about to be, *)
(* as long as no request fails.  recover_password, issue_recovery_code.    *)
WayBack ==
    failures = 0 =>
        \A u \in Registered :
            \/ account[u].code \in shown[u]
            \/ \E r \in Busy : op[r].user = u /\ op[r].number = account[u].code

(* However first registrations race, the instance has an owner once it has *)
(* an account.  register_user.                                             *)
OwnedOnceClaimed == Registered # {} => \E u \in Registered : account[u].owner

(* "A success signs the account out everywhere before starting a new       *)
(* session".  apps/api/src/seskit_api/routes/auth.py:289.  The index lives *)
(* from the last sign-in, a session from its last page.                    *)
SignedOutEverywhere ==
    [][\A r \in Request :
          at[r] = "dropping" /\ at'[r] = "opening" =>
              \A s \in Made : whose[s] = op[r].user /\ s < op[r].number => ~ Live(s)']_vars
=============================================================================
