------------------------------ MODULE ApiProofs ------------------------------
(***************************************************************************)
(* Safety of what the API does itself.  For all values of the constants:   *)
(*  - Accounts: the people, their codes and their sessions;                *)
(*  - ApiCalls: the calls of programs, their keys and their limit;         *)
(*  - Listing: lists read page by page while rows arrive;                  *)
(*  - Overview: the numbers of a project's pages and their charts;         *)
(*  - Deployment: the settings it runs with and the doctor.                *)
(*                                                                         *)
(* Each has one inductive invariant.  Accounts', IInv, says what the place *)
(* of a request tells of its kind and of the number it has made (Hands),   *)
(* that no two requests and no session share a number that is still to     *)
(* become one (FreshNumbers), that a session without a user yet has no     *)
(* life (Unopened), and where the code on file is (CodeIsHeld).            *)
(*                                                                         *)
(* ApiCalls', CallsInv, says beside the checked properties which attempts  *)
(* of a call can still be at work while nothing about it is unsure         *)
(* (Attempts), and that a window's counter is no less than what it let     *)
(* through (Charged).                                                      *)
(*                                                                         *)
(* Listing's, ListingInv, adds the types of what a reader has been given,  *)
(* and the last row given to what it must have been given; the lemmas are  *)
(* about pages of any finite set of rows.  Overview's, OverviewInv, only   *)
(* says what the rows are: its lemmas are about what a chart adds up to,   *)
(* whichever buckets it has, about rounding, and about domains beneath     *)
(* each other.  Deployment's, DeployInv, says which services there are and *)
(* that what runs was accepted: the rest is true of every state.           *)
(***************************************************************************)
EXTENDS Accounts, ApiCalls, Listing, Overview, Deployment,
        FiniteSetTheorems, WellFoundedInduction, TLAPS

(* Requests that have made a code and are to open a session with it.       *)
Holds(r) == at[r] \in {"ending", "dropping", "opening"} /\ op[r].kind \in {"signup", "recover"}

Hands ==
    \A r \in Request :
        /\ at[r] = "idle" <=> op[r] = Nobody
        /\ at[r] \in {"allowing", "counting"} => op[r].kind = "signup"
        /\ at[r] = "verifying" => op[r].kind \in {"login", "recover"}
        /\ at[r] = "committing" => op[r].kind \in {"signup", "recover", "reset", "regenerate"}
        /\ at[r] = "committing" /\ op[r].kind # "signup" => op[r].user \in Registered
        /\ at[r] \in {"ending", "dropping", "opening"} => op[r].user \in Registered
        /\ at[r] = "committing" /\ op[r].kind = "signup" /\ ~ op[r].owner => Registered # {}
        /\ at[r] \in {"ending", "dropping"} => op[r].kind \in {"recover", "reset"}
        /\ at[r] = "opening" => op[r].kind \in {"signup", "login", "recover"}
        /\ at[r] = "switching" => op[r].number \in Made /\ whose[op[r].number] # Nobody

(* A number becomes one session.                                           *)
FreshNumbers ==
    /\ \A r \in Request : Holds(r) => op[r].number \in 1..made /\ whose[op[r].number] = Nobody
    /\ \A q, r \in Request : Holds(q) /\ Holds(r) /\ op[q].number = op[r].number => q = r

Unopened ==
    \A s \in Made : /\ s > made => whose[s] = Nobody
                    /\ whose[s] = Nobody => left[s] = 0 /\ s \notin bare
                    /\ whose[s] # Nobody => whose[s] \in Registered

(* The code on file was shown, or a request holds it that will show it.    *)
CodeIsHeld ==
    failures = 0 =>
        \A u \in Registered :
            \/ account[u].code \in shown[u]
            \/ \E r \in Request : Holds(r) /\ op[r].user = u /\ op[r].number = account[u].code

(* What is known of numbers and sessions.                                  *)
Sessions == Unopened /\ FreshNumbers

IInv == TypeOK /\ Hands /\ Sessions /\ CodeIsHeld /\ OwnedOnceClaimed

-----------------------------------------------------------------------------
(* The invariant holds initially: nobody is registered.                    *)
LEMMA InitInv == Init => IInv
  BY NobodyAssumption, BoundAssumption
  DEF Init, IInv, TypeOK, Made, Places, Hands, Sessions, Unopened, FreshNumbers, Holds,
      CodeIsHeld, OwnedOnceClaimed, Registered

(* A request that begins keeps it, whatever it asks for.                   *)
LEMMA BeginInv ==
    ASSUME IInv, NEW r \in Request, NEW u \in User, NEW k \in Kind, NEW n \in 0..MaxMade,
           NEW place \in {"allowing", "counting", "verifying", "committing", "switching"},
           at[r] = "idle",
           op' = [op EXCEPT ![r] = [kind |-> k, user |-> u, owner |-> FALSE, number |-> n,
                                    tokens |-> {}]],
           at' = [at EXCEPT ![r] = place],
           place \in {"allowing", "counting"} => k = "signup",
           place = "verifying" => k \in {"login", "recover"},
           place = "committing" => k \in {"reset", "regenerate"} /\ u \in Registered,
           place = "switching" => n \in Made /\ whose[n] # Nobody,
           UNCHANGED sessionVars \/ \E s \in Made : ReadBy(s),
           UNCHANGED <<account, shown, made, failures>>
    PROVE  IInv'
<1> DEFINE o == [kind |-> k, user |-> u, owner |-> FALSE, number |-> n, tokens |-> {}]
<1>1. o \in Op /\ o # Nobody /\ op' = [op EXCEPT ![r] = o]
  <2>1. o \in Op
    BY DEF Op
  <2> QED BY <2>1, NobodyAssumption
<1>2. /\ left' \in [Made -> 0..TTL]
      /\ \A s \in Made : whose[s] = Nobody => left'[s] = 0
      /\ UNCHANGED <<whose, bare, index, indexLeft>>
  BY BoundAssumption DEF ReadBy, Live, sessionVars, IInv, TypeOK, Sessions, Unopened
<1>3. TypeOK'
  BY <1>1, <1>2 DEF IInv, TypeOK, Places
<1>4. Hands'
  BY <1>1, <1>2 DEF IInv, TypeOK, Hands, Registered
<1>5. \A q \in Request : Holds(q)' <=> Holds(q) /\ q # r
  BY DEF Holds, IInv, TypeOK
<1>6. \A q \in Request : Holds(q) => op'[q] = op[q]
  BY DEF Holds, IInv, TypeOK
<1>7. Sessions' /\ OwnedOnceClaimed'
  BY <1>2, <1>5, <1>6 DEF IInv, TypeOK, Sessions, Unopened, FreshNumbers, OwnedOnceClaimed,
                           Registered
<1>8. CodeIsHeld'
  BY <1>2, <1>5, <1>6 DEF IInv, TypeOK, CodeIsHeld, Registered, Holds
<1> QED BY <1>3, <1>4, <1>7, <1>8 DEF IInv

(* So the requests of Next do.                                             *)
LEMMA RequestsInv == ASSUME IInv, Requests PROVE IInv'
<1>1. PICK r \in Request :
         \/ \E u \in User : Signup(r, u) \/ Login(r, u) \/ Recover(r, u) \/ Reset(r, u)
         \/ \E s \in Made : Regenerate(r, s) \/ Switch(r, s)
  BY DEF Requests
<1>2. 0 \in 0..MaxMade
  BY BoundAssumption
<1>3. ASSUME NEW u \in User, Signup(r, u) PROVE IInv'
  <2>1. CASE AllowSignup
    BY <1>2, <1>3, <2>1, BeginInv DEF Signup, Begin, Go, Kind
  <2>2. CASE ~ AllowSignup
    BY <1>2, <1>3, <2>2, BeginInv DEF Signup, Begin, Go, Kind
  <2> QED BY <2>1, <2>2
<1>4. ASSUME NEW u \in User, Login(r, u) PROVE IInv'
  BY <1>2, <1>4, BeginInv DEF Login, Begin, Go, Kind
<1>5. ASSUME NEW u \in User, Recover(r, u) PROVE IInv'
  BY <1>2, <1>5, BeginInv DEF Recover, Begin, Go, Kind
<1>6. ASSUME NEW u \in User, Reset(r, u) PROVE IInv'
  BY <1>2, <1>6, BeginInv DEF Reset, Begin, Go, Kind
<1>7. ASSUME NEW s \in Made, ReadBy(s) PROVE whose[s] \in User /\ whose[s] \in Registered
  BY <1>7 DEF ReadBy, Live, IInv, TypeOK, Sessions, Unopened
<1>8. ASSUME NEW s \in Made, Regenerate(r, s) PROVE IInv'
  BY <1>2, <1>7, <1>8, BeginInv DEF Regenerate, Begin, Go, Kind
<1>9. ASSUME NEW s \in Made, Switch(r, s) PROVE IInv'
  <2>1. s \in 0..MaxMade /\ whose[s] # Nobody /\ whose[s] \in User
    BY <1>7, <1>9, NobodyAssumption, BoundAssumption DEF Switch, Made
  <2> QED BY <1>9, <2>1, BeginInv DEF Switch, Go, Kind
<1> QED BY <1>1, <1>3, <1>4, <1>5, <1>6, <1>8, <1>9

(* A request that ends without having made anything keeps it.              *)
LEMMA LeaveInv ==
    ASSUME IInv, NEW r \in Request, Leave(r), ~ Holds(r) \/ failures' > 0,
           UNCHANGED <<account, sessionVars, shown, made>>, failures' \in 0..MaxFailures,
           failures' >= failures
    PROVE  IInv'
<1>1. TypeOK'
  BY DEF Leave, Go, IInv, TypeOK, Places, sessionVars
<1>2. Hands'
  BY DEF Leave, Go, IInv, TypeOK, Hands, Registered, sessionVars
<1>3. \A q \in Request : Holds(q)' => Holds(q) /\ q # r /\ op'[q] = op[q]
  BY DEF Leave, Go, Holds, IInv, TypeOK
<1>4. \A q \in Request : Holds(q) /\ q # r => Holds(q)' /\ op'[q] = op[q]
  BY DEF Leave, Go, Holds, IInv, TypeOK
<1>5. Sessions' /\ OwnedOnceClaimed'
  BY <1>3 DEF IInv, TypeOK, Sessions, Unopened, FreshNumbers, OwnedOnceClaimed, Registered,
              sessionVars
<1>6. CodeIsHeld'
  BY <1>4 DEF IInv, TypeOK, CodeIsHeld, Registered, sessionVars
<1> QED BY <1>1, <1>2, <1>5, <1>6 DEF IInv

(* A step of a request up to its commit keeps it.                          *)
LEMMA EarlyInv ==
    ASSUME IInv, NEW r \in Request,
           Allow(r) \/ CountUsers(r) \/ Verify(r) \/ CommitCollides(r) \/ Fails(r)
    PROVE  IInv'
<1>1. CASE Leave(r) /\ ~ Fails(r)
  <2>1. ~ Holds(r)
    BY <1>1 DEF Allow, CountUsers, Verify, CommitCollides, Holds
  <2>2. UNCHANGED <<account, sessionVars, shown, made, failures>>
    BY <1>1 DEF Allow, CountUsers, Verify, CommitCollides
  <2> QED BY <1>1, <2>1, <2>2, LeaveInv DEF IInv, TypeOK
<1>2. CASE Fails(r)
  BY <1>2, LeaveInv, BoundAssumption DEF Fails, IInv, TypeOK
<1>3. CASE ~ Leave(r) /\ ~ Fails(r)
  <2>1. PICK place \in {"counting", "committing", "opening"} :
           /\ at' = [at EXCEPT ![r] = place]
           /\ UNCHANGED <<account, sessionVars, shown, made, failures>>
    BY <1>3 DEF Allow, CountUsers, Verify, CommitCollides, Go
  <2>2. /\ at[r] \in {"allowing", "counting", "verifying"}
        /\ op'[r] \in Op /\ op'[r].kind = op[r].kind /\ op'[r].user = op[r].user
        /\ op' = [op EXCEPT ![r] = op'[r]]
    <3>1. at[r] \in {"allowing", "counting", "verifying"} /\ op[r] \in Op
      BY <1>3 DEF Allow, CountUsers, Verify, CommitCollides, IInv, TypeOK, Hands
    <3>2. op' = op \/ \E b \in BOOLEAN : op' = [op EXCEPT ![r].owner = b]
      BY <1>3 DEF Allow, CountUsers, Verify, CommitCollides, First
    <3>3. op \in [Request -> Op \cup {Nobody}]
      BY DEF IInv, TypeOK
    <3> QED BY <3>1, <3>2, <3>3 DEF Op
  <2>3. op'[r] # Nobody
    BY <2>2, NobodyAssumption
  <2>4. /\ place = "counting" => op[r].kind = "signup"
        /\ place = "committing" /\ op[r].kind # "signup" =>
              op[r].kind = "recover" /\ op[r].user \in Registered
        /\ place = "committing" /\ op[r].kind = "signup" =>
              op'[r].owner \/ Registered # {}
        /\ place = "opening" => op[r].kind = "login" /\ op[r].user \in Registered
    BY <1>3, <2>1, <2>2
    DEF Allow, CountUsers, Verify, CommitCollides, Go, First, IInv, TypeOK, Hands, Op
  <2>5. TypeOK'
    BY <2>1, <2>2 DEF IInv, TypeOK, Places, sessionVars
  <2>6. Hands'
    BY <2>1, <2>2, <2>3, <2>4 DEF IInv, TypeOK, Hands, Registered, sessionVars
  <2>7. \A q \in Request : (Holds(q)' <=> Holds(q)) /\ (Holds(q) => op'[q] = op[q])
    BY <2>1, <2>2, <2>4 DEF Holds, IInv, TypeOK
  <2>8. Sessions' /\ OwnedOnceClaimed' /\ CodeIsHeld'
    BY <2>1, <2>7 DEF IInv, TypeOK, Sessions, Unopened, FreshNumbers, OwnedOnceClaimed,
                      CodeIsHeld, Registered, sessionVars
  <2> QED BY <2>5, <2>6, <2>8 DEF IInv
<1> QED BY <1>1, <1>2, <1>3

(* A request in hand keeps its other fields when one of them is set.       *)
LEMMA Renumbered ==
    ASSUME NEW o \in Op, NEW n \in 0..MaxMade
    PROVE  LET p == [o EXCEPT !.number = n] IN
           p \in Op /\ p.user = o.user /\ p.kind = o.kind /\ p.number = n
  BY DEF Op

(* The commit keeps it: of a new account, ...                              *)
LEMMA SignupCommitInv ==
    ASSUME IInv, NEW r \in Request, Commit(r), op[r].kind = "signup"
    PROVE  IInv'
<1> DEFINE u == op[r].user
           n == made + 1
<1>1. /\ op[r] \in Op /\ u \in User /\ u \notin Registered
      /\ n \in Made /\ made' = n /\ n > made
      /\ account' = [account EXCEPT ![u] = [owner |-> op[r].owner, code |-> n]]
      /\ at' = [at EXCEPT ![r] = "opening"]
      /\ op' = [op EXCEPT ![r] = [op[r] EXCEPT !.number = n]]
      /\ UNCHANGED <<sessionVars, shown, failures>>
  BY DEF Commit, Go, IInv, TypeOK, Hands, Op, Made
<1>2. op'[r] \in Op /\ op'[r].user = u /\ op'[r].kind = "signup" /\ op'[r].number = n
  <2>1. n \in 0..MaxMade /\ op'[r] = [op[r] EXCEPT !.number = n]
    BY <1>1 DEF IInv, TypeOK, Made
  <2>2. op[r] \in Op
    BY <1>1
  <2> QED BY <2>1, <2>2, Renumbered
<1>3. account'[u] \in Account /\ account'[u].code = n /\ account'[u].owner = op[r].owner
  BY <1>1 DEF IInv, TypeOK, Account, Op
<1>4. account'[u] # Nobody /\ op'[r] # Nobody
  BY <1>2, <1>3, NobodyAssumption
<1>5. Registered' = Registered \cup {u}
  BY <1>1, <1>4 DEF Registered, IInv, TypeOK
<1>6. TypeOK'
  BY <1>1, <1>2, <1>3 DEF IInv, TypeOK, Places, sessionVars, Made
<1>7. Hands'
  BY <1>1, <1>2, <1>4, <1>5 DEF IInv, TypeOK, Hands, sessionVars
<1>8. /\ ~ Holds(r) /\ Holds(r)'
      /\ \A q \in Request \ {r} : (Holds(q)' <=> Holds(q)) /\ op'[q] = op[q]
  BY <1>1, <1>2 DEF Holds, Commit, IInv, TypeOK
<1>9. Sessions'
  BY <1>1, <1>2, <1>5, <1>8 DEF IInv, TypeOK, Sessions, Unopened, FreshNumbers, sessionVars, Made
<1>10. CodeIsHeld'
  BY <1>1, <1>2, <1>3, <1>5, <1>8 DEF IInv, TypeOK, CodeIsHeld
<1>11. OwnedOnceClaimed'
  <2>1. op[r].owner \/ Registered # {}
    BY DEF Commit, IInv, Hands
  <2>2. CASE Registered # {}
    BY <1>1, <1>5, <2>2 DEF IInv, TypeOK, OwnedOnceClaimed
  <2> QED BY <1>3, <1>5, <2>1, <2>2 DEF OwnedOnceClaimed
<1> QED BY <1>6, <1>7, <1>9, <1>10, <1>11 DEF IInv

(* ... and of a new password or code.                                      *)
LEMMA OtherCommitInv ==
    ASSUME IInv, NEW r \in Request, Commit(r), op[r].kind # "signup"
    PROVE  IInv'
<1> DEFINE u == op[r].user
           n == made + 1
           code == NextCode(op[r], account[u], n)
<1>1. /\ op[r] \in Op /\ op[r].kind \in {"recover", "reset", "regenerate"}
      /\ u \in User /\ u \in Registered /\ account[u] \in Account
      /\ at[r] = "committing"
      /\ n \in Made /\ made' \in {made, n} /\ (op[r].kind # "reset" => made' = n)
      /\ account' = [account EXCEPT ![u].code = code]
      /\ code \in Made
      /\ UNCHANGED <<sessionVars, failures>>
  BY DEF Commit, NextCode, IInv, TypeOK, Hands, Op, Registered, Account
<1>2. /\ account'[u] \in Account /\ account'[u].code = code
      /\ account'[u].owner = account[u].owner
      /\ \A v \in User \ {u} : account'[v] = account[v]
  BY <1>1 DEF IInv, TypeOK, Account
<1>3. Registered' = Registered
  BY <1>1, <1>2, NobodyAssumption DEF Registered, IInv, TypeOK
<1>4. OwnedOnceClaimed'
  BY <1>1, <1>2, <1>3 DEF IInv, TypeOK, OwnedOnceClaimed, Registered
<1>5. account' \in [User -> Account \cup {Nobody}]
  BY <1>1, <1>2 DEF IInv, TypeOK
<1>6. CASE op[r].kind = "regenerate"
  <2>1. /\ at' = [at EXCEPT ![r] = "idle"] /\ op' = [op EXCEPT ![r] = Nobody]
        /\ shown' = [shown EXCEPT ![u] = @ \cup {n}] /\ code = n /\ made' = n
    BY <1>1, <1>6 DEF Commit, Go, NextCode
  <2>2. \A q \in Request : /\ Holds(q)' <=> Holds(q)
                           /\ Holds(q) => op'[q] = op[q]
    BY <1>1, <2>1 DEF Holds, IInv, TypeOK
  <2>3. TypeOK'
    BY <1>1, <1>5, <2>1 DEF IInv, TypeOK, Places, sessionVars, Made
  <2>4. Hands' /\ Sessions'
    BY <1>1, <1>3, <2>1, <2>2
    DEF IInv, TypeOK, Hands, Sessions, Unopened, FreshNumbers, sessionVars, Made
  <2>5. CodeIsHeld'
    BY <1>1, <1>2, <1>3, <2>1, <2>2 DEF IInv, TypeOK, CodeIsHeld, Registered
  <2> QED BY <1>4, <2>3, <2>4, <2>5 DEF IInv
<1>7. CASE op[r].kind = "recover"
  <2>1. /\ at' = [at EXCEPT ![r] = "ending"]
        /\ op' = [op EXCEPT ![r] = [op[r] EXCEPT !.number = n]]
        /\ UNCHANGED shown /\ code = n /\ made' = n
    BY <1>1, <1>7 DEF Commit, Go, NextCode
  <2>2. /\ op'[r] \in Op /\ op'[r].user = u /\ op'[r].kind = "recover"
        /\ op'[r].number = n
    <3>1. n \in 0..MaxMade /\ op'[r] = [op[r] EXCEPT !.number = n]
      BY <1>1, <2>1 DEF IInv, TypeOK, Made
    <3> QED BY <1>1, <1>7, <3>1, Renumbered
  <2>3. op'[r] # Nobody
    BY <2>2, NobodyAssumption
  <2>4. /\ ~ Holds(r) /\ Holds(r)'
        /\ \A q \in Request \ {r} : (Holds(q)' <=> Holds(q)) /\ op'[q] = op[q]
    BY <1>1, <2>1, <2>2 DEF Holds, IInv, TypeOK
  <2>5. TypeOK'
    BY <1>1, <1>5, <2>1, <2>2 DEF IInv, TypeOK, Places, sessionVars, Made
  <2>6. Hands'
    BY <1>1, <1>3, <2>1, <2>2, <2>3 DEF IInv, TypeOK, Hands, sessionVars
  <2>7. Sessions'
    BY <1>1, <1>3, <2>1, <2>2, <2>4
    DEF IInv, TypeOK, Sessions, Unopened, FreshNumbers, sessionVars, Made
  <2>8. CodeIsHeld'
    BY <1>1, <1>2, <1>3, <2>1, <2>2, <2>4 DEF IInv, TypeOK, CodeIsHeld, Registered
  <2> QED BY <1>4, <2>5, <2>6, <2>7, <2>8 DEF IInv
<1>8. CASE op[r].kind = "reset"
  <2>1. /\ at' = [at EXCEPT ![r] = "ending"]
        /\ op' = [op EXCEPT ![r] = [op[r] EXCEPT !.number = 0]]
        /\ UNCHANGED <<shown, made>> /\ code = account[u].code
    BY <1>1, <1>8 DEF Commit, Go, NextCode
  <2>2. op'[r] \in Op /\ op'[r].user = u /\ op'[r].kind = "reset"
    <3>1. 0 \in 0..MaxMade /\ op'[r] = [op[r] EXCEPT !.number = 0]
      BY <2>1, BoundAssumption DEF IInv, TypeOK
    <3> QED BY <1>1, <1>8, <3>1, Renumbered
  <2>3. op'[r] # Nobody
    BY <2>2, NobodyAssumption
  <2>4. \A q \in Request : /\ Holds(q)' <=> Holds(q)
                           /\ Holds(q) => op'[q] = op[q]
    BY <1>1, <1>8, <2>1, <2>2 DEF Holds, IInv, TypeOK
  <2>5. TypeOK'
    BY <1>1, <1>5, <2>1, <2>2 DEF IInv, TypeOK, Places, sessionVars, Made
  <2>6. Hands'
    BY <1>1, <1>3, <2>1, <2>2, <2>3 DEF IInv, TypeOK, Hands, sessionVars
  <2>7. Sessions'
    BY <1>1, <1>3, <2>1, <2>4 DEF IInv, TypeOK, Sessions, Unopened, FreshNumbers, sessionVars
  <2>8. \A v \in Registered : account'[v].code = account[v].code /\ shown'[v] = shown[v]
    BY <1>2, <2>1 DEF Registered
  <2>9. CodeIsHeld'
    BY <1>1, <1>3, <2>4, <2>8 DEF IInv, TypeOK, CodeIsHeld
  <2> QED BY <1>4, <2>5, <2>6, <2>7, <2>9 DEF IInv
<1> QED BY <1>1, <1>6, <1>7, <1>8

(* A step that changes only the lives of sessions and what is listed of    *)
(* them keeps what the invariant says of the rest.                         *)
LEMMA LivesInv ==
    ASSUME IInv, UNCHANGED <<account, whose, shown, at, op, made, failures>>,
           left' \in [Made -> 0..TTL], bare' \subseteq bare,
           index' \in [User -> SUBSET Made], indexLeft' \in [User -> 0..TTL],
           \A u \in User : index'[u] \subseteq index[u] /\ (indexLeft'[u] = 0 <=> index'[u] = {}),
           \A s \in Made : left[s] = 0 => left'[s] = 0
    PROVE  IInv'
  BY DEF IInv, TypeOK, Hands, Sessions, Unopened, FreshNumbers, CodeIsHeld, Holds,
         OwnedOnceClaimed, Registered

(* What happens to sessions outside requests keeps the invariant.          *)
LEMMA OutsideInv == ASSUME IInv, Outside PROVE IInv'
<1> USE BoundAssumption DEF IInv, TypeOK
<1>1. ASSUME NEW s \in Made, Visit(s) PROVE IInv'
  BY <1>1, LivesInv DEF Visit
<1>2. ASSUME NEW s \in Made, Logout(s) PROVE IInv'
  <2>1. whose[s] \in User
    BY <1>2, NobodyAssumption DEF Logout, Live, Sessions, Unopened
  <2> QED BY <1>2, <2>1, LivesInv DEF Logout
<1>3. ASSUME Tick PROVE IInv'
  BY <1>3, LivesInv DEF Tick
<1> QED BY <1>1, <1>2, <1>3 DEF Outside

(* So does ending the sessions of an account.                              *)
LEMMA EndingInv ==
    ASSUME IInv, NEW r \in Request, ListSessions(r) \/ DropSessions(r) PROVE IInv'
<1>1. op[r] \in Op /\ op[r] # Nobody /\ op[r].user \in User /\ op[r].tokens \subseteq Made
  BY DEF ListSessions, DropSessions, IInv, TypeOK, Hands, Op
<1>2. CASE ListSessions(r)
  <2>1. /\ at[r] = "ending" /\ at' = [at EXCEPT ![r] = "dropping"]
        /\ op' = [op EXCEPT ![r] = [op[r] EXCEPT !.tokens = index[op[r].user]]]
        /\ index[op[r].user] \subseteq Made
        /\ UNCHANGED <<account, sessionVars, shown, made, failures>>
    BY <1>1, <1>2 DEF ListSessions, Go, IInv, TypeOK
  <2>2. /\ op'[r] \in Op /\ op'[r].user = op[r].user /\ op'[r].kind = op[r].kind
        /\ op'[r].number = op[r].number
    BY <1>1, <2>1 DEF IInv, TypeOK, Op
  <2>3. op'[r] # Nobody
    BY <2>2, NobodyAssumption
  <2>4. TypeOK' /\ Hands'
    BY <2>1, <2>2, <2>3 DEF IInv, TypeOK, Places, Hands, Registered, sessionVars
  <2>5. \A q \in Request : /\ Holds(q)' <=> Holds(q)
                           /\ op'[q].user = op[q].user /\ op'[q].number = op[q].number
    BY <2>1, <2>2 DEF Holds, IInv, TypeOK
  <2> QED BY <2>1, <2>4, <2>5
          DEF IInv, TypeOK, Sessions, Unopened, FreshNumbers, CodeIsHeld, OwnedOnceClaimed,
              Registered, sessionVars
<1>3. CASE DropSessions(r)
  <2>1. /\ left' \in [Made -> 0..TTL] /\ bare' \subseteq bare
        /\ index' \in [User -> SUBSET Made] /\ indexLeft' \in [User -> 0..TTL]
        /\ \A u \in User : index'[u] \subseteq index[u]
                           /\ (indexLeft'[u] = 0 <=> index'[u] = {})
        /\ \A s \in Made : left[s] = 0 => left'[s] = 0
        /\ UNCHANGED <<account, whose, shown, made, failures>>
    BY <1>1, <1>3, BoundAssumption DEF DropSessions, IInv, TypeOK
  <2>2. CASE op[r].kind = "reset"
    <3>1. at' = [at EXCEPT ![r] = "idle"] /\ op' = [op EXCEPT ![r] = Nobody]
      BY <1>3, <2>2 DEF DropSessions, Go, AfterEnding
    <3>2. \A q \in Request : /\ Holds(q)' <=> Holds(q)
                             /\ Holds(q) => op'[q] = op[q]
      BY <2>2, <3>1 DEF Holds, IInv, TypeOK
    <3>3. TypeOK' /\ Hands'
      BY <2>1, <3>1 DEF IInv, TypeOK, Places, Hands, Registered
    <3> QED BY <2>1, <3>2, <3>3
            DEF IInv, TypeOK, Sessions, Unopened, FreshNumbers, CodeIsHeld, OwnedOnceClaimed,
                Registered
  <2>3. CASE op[r].kind # "reset"
    <3>1. /\ at[r] = "dropping" /\ at' = [at EXCEPT ![r] = "opening"]
          /\ op' = [op EXCEPT ![r] = [op[r] EXCEPT !.tokens = {}]]
      BY <1>3, <2>3 DEF DropSessions, Go, AfterEnding
    <3>2. /\ op'[r] \in Op /\ op'[r].user = op[r].user /\ op'[r].kind = op[r].kind
          /\ op'[r].number = op[r].number
      BY <1>1, <3>1 DEF IInv, TypeOK, Op
    <3>3. op'[r] # Nobody
      BY <3>2, NobodyAssumption
    <3>4. TypeOK' /\ Hands'
      BY <2>1, <2>3, <3>1, <3>2, <3>3 DEF IInv, TypeOK, Places, Hands, Registered
    <3>5. \A q \in Request : /\ Holds(q)' <=> Holds(q)
                             /\ op'[q].user = op[q].user /\ op'[q].number = op[q].number
      BY <3>1, <3>2 DEF Holds, IInv, TypeOK
    <3>6. Sessions' /\ OwnedOnceClaimed'
      BY <2>1, <3>5 DEF IInv, TypeOK, Sessions, Unopened, FreshNumbers, OwnedOnceClaimed,
                        Registered
    <3>7. CodeIsHeld'
      BY <2>1, <3>5 DEF IInv, CodeIsHeld, Registered
    <3> QED BY <3>4, <3>6, <3>7 DEF IInv
  <2> QED BY <2>2, <2>3
<1> QED BY <1>2, <1>3

(* Opening a session keeps it: the number is no other session's.           *)
LEMMA OpeningInv == ASSUME IInv, NEW r \in Request, OpenSession(r) PROVE IInv'
<1> DEFINE u == op[r].user
           login == op[r].kind = "login"
           s == IF login THEN made + 1 ELSE op[r].number
<1>1. /\ op[r] \in Op /\ u \in User /\ u \in Registered /\ at[r] = "opening"
      /\ s \in Made /\ whose[s] = Nobody /\ s <= made' /\ made <= made'
      /\ made' \in 0..MaxMade
      /\ (login <=> ~ Holds(r)) /\ (login => s > made)
  BY DEF OpenSession, Holds, Op, Made, IInv, TypeOK, Hands, Sessions, Unopened, FreshNumbers
<1>2. /\ whose' = [whose EXCEPT ![s] = u] /\ left' = [left EXCEPT ![s] = TTL]
      /\ index' = [index EXCEPT ![u] = @ \cup {s}]
      /\ indexLeft' = [indexLeft EXCEPT ![u] = TTL]
      /\ shown' = IF login THEN shown ELSE [shown EXCEPT ![u] = @ \cup {s}]
      /\ at' = [at EXCEPT ![r] = "idle"] /\ op' = [op EXCEPT ![r] = Nobody]
      /\ UNCHANGED <<account, bare, failures>>
  BY DEF OpenSession, Leave, Go
<1>3. TypeOK'
  <2>1. \A v \in User : s \notin index[v]
    BY <1>1, NobodyAssumption DEF IInv, TypeOK
  <2>2. /\ left' \in [Made -> 0..TTL] /\ indexLeft' \in [User -> 0..TTL]
        /\ index' \in [User -> SUBSET Made] /\ shown' \in [User -> SUBSET Made]
        /\ \A v \in User : indexLeft'[v] = 0 <=> index'[v] = {}
    BY <1>1, <1>2, BoundAssumption DEF IInv, TypeOK
  <2>3. \A v \in User : \A t \in index'[v] : whose'[t] = v
    BY <1>1, <1>2, <2>1 DEF IInv, TypeOK
  <2> QED BY <1>1, <1>2, <2>2, <2>3 DEF IInv, TypeOK, Places
<1>4. u # Nobody
  BY <1>1, NobodyAssumption
<1>5. \A q \in Request : Holds(q)' <=> Holds(q) /\ q # r
  BY <1>2 DEF Holds, IInv, TypeOK
<1>6. \A q \in Request \ {r} : at'[q] = at[q] /\ op'[q] = op[q]
  BY <1>2 DEF IInv, TypeOK
<1>7. Hands'
  BY <1>1, <1>2, <1>4, <1>6 DEF IInv, TypeOK, Hands, Registered
<1>8. FreshNumbers'
  <2>1. \A q \in Request \ {r} : Holds(q) => op[q].number # s /\ op[q].number \in 1..made
    BY <1>1 DEF IInv, TypeOK, Sessions, FreshNumbers
  <2> QED BY <1>1, <1>2, <1>5, <1>6, <2>1 DEF IInv, TypeOK, Sessions, FreshNumbers, Made
<1>9. Unopened' /\ OwnedOnceClaimed'
  <2>1. OwnedOnceClaimed'
    BY <1>2 DEF IInv, OwnedOnceClaimed, Registered
  <2>2. ASSUME NEW t \in Made
        PROVE  /\ t > made' => whose'[t] = Nobody
               /\ whose'[t] = Nobody => left'[t] = 0 /\ t \notin bare'
               /\ whose'[t] # Nobody => whose'[t] \in Registered'
    <3>1. CASE t = s
      <4>1. whose'[t] = u /\ u \in Registered'
        BY <1>1, <1>2, <3>1 DEF IInv, TypeOK, Registered
      <4>2. ~(t > made')
        BY <1>1, <3>1, BoundAssumption DEF Made
      <4> QED BY <1>4, <4>1, <4>2
    <3>2. CASE t # s
      <4>1. whose'[t] = whose[t] /\ left'[t] = left[t] /\ bare' = bare /\ Registered' = Registered
        BY <1>2, <3>2 DEF IInv, TypeOK, Registered
      <4>2. t > made' => t > made
        BY <1>1, BoundAssumption DEF Made, IInv, TypeOK
      <4>3. /\ t > made => whose[t] = Nobody
            /\ whose[t] = Nobody => left[t] = 0 /\ t \notin bare
            /\ whose[t] # Nobody => whose[t] \in Registered
        BY DEF IInv, Sessions, Unopened
      <4> QED BY <4>1, <4>2, <4>3
    <3> QED BY <3>1, <3>2
  <2> QED BY <2>1, <2>2 DEF Unopened
<1>10. CodeIsHeld'
  <2>1. Holds(r) => s = op[r].number /\ op[r].number \in shown'[u]
    BY <1>1, <1>2 DEF IInv, TypeOK
  <2>2. \A v \in User : shown[v] \subseteq shown'[v]
    BY <1>1, <1>2 DEF IInv, TypeOK
  <2> QED BY <1>2, <1>5, <1>6, <2>1, <2>2 DEF IInv, TypeOK, CodeIsHeld, Registered
<1> QED BY <1>3, <1>7, <1>8, <1>9, <1>10 DEF IInv, Sessions

(* So does choosing a project, though it may bring a record back.          *)
LEMMA SwitchingInv == ASSUME IInv, NEW r \in Request, SetCurrentProject(r) PROVE IInv'
<1> DEFINE s == op[r].number
<1>1. /\ at[r] = "switching" /\ s \in Made /\ whose[s] # Nobody
      /\ left' = [left EXCEPT ![s] = TTL] /\ bare' \subseteq bare \cup {s}
      /\ at' = [at EXCEPT ![r] = "idle"] /\ op' = [op EXCEPT ![r] = Nobody]
      /\ UNCHANGED <<account, whose, index, indexLeft, shown, made, failures>>
  BY DEF SetCurrentProject, Leave, Go, IInv, Hands
<1>2. TypeOK'
  BY <1>1, BoundAssumption DEF IInv, TypeOK, Places
<1>3. Hands'
  BY <1>1 DEF IInv, TypeOK, Hands, Registered
<1>4. \A q \in Request : /\ Holds(q)' <=> Holds(q)
                         /\ Holds(q) => op'[q] = op[q]
  BY <1>1 DEF Holds, IInv, TypeOK
<1>5. Sessions' /\ CodeIsHeld' /\ OwnedOnceClaimed'
  BY <1>1, <1>4 DEF IInv, TypeOK, Sessions, Unopened, FreshNumbers, CodeIsHeld,
                    OwnedOnceClaimed, Registered
<1> QED BY <1>2, <1>3, <1>5 DEF IInv

(* Every step keeps the invariant.                                         *)
LEMMA StepInv == IInv /\ [Next]_vars => IInv'
<1> SUFFICES ASSUME IInv, [Next]_vars PROVE IInv'
  OBVIOUS
<1>1. CASE UNCHANGED vars
  BY <1>1 DEF IInv, vars, sessionVars, TypeOK, Hands, Sessions, Unopened, FreshNumbers,
              CodeIsHeld, Holds, OwnedOnceClaimed, Registered
<1>2. ASSUME NEW r \in Request, Steps(r) \/ Fails(r) PROVE IInv'
  BY <1>2, EarlyInv, SignupCommitInv, OtherCommitInv, EndingInv, OpeningInv, SwitchingInv
  DEF Steps
<1> QED BY <1>1, <1>2, RequestsInv, OutsideInv DEF Next

(* IInv holds throughout every behaviour.                                  *)
THEOREM Invariance == Spec => []IInv
<1> QED BY InitInv, StepInv, PTL DEF Spec

-----------------------------------------------------------------------------
(* Every variable keeps its type.                                          *)
THEOREM TypeCorrect == Spec => []TypeOK
<1>1. IInv => TypeOK
  BY DEF IInv
<1> QED BY <1>1, Invariance, PTL

(* As long as no request fails, nobody loses the way back in by using it.  *)
THEOREM WayBackIsKept == Spec => []WayBack
<1>1. IInv => WayBack
  BY DEF IInv, CodeIsHeld, WayBack, Holds, Busy
<1> QED BY <1>1, Invariance, PTL

(* An instance with an account has an owner.                               *)
THEOREM Owned == Spec => []OwnedOnceClaimed
<1>1. IInv => OwnedOnceClaimed
  BY DEF IInv
<1> QED BY <1>1, Invariance, PTL

(* A session that is over stays over, though its record may come back.     *)
THEOREM OverStaysOver == Spec => EndedStaysEnded
<1> DEFINE Over == \A s \in Made : whose[s] # Nobody /\ ~ Live(s) => ~ Live(s)'
<1>1. IInv /\ [Next]_vars => [Over]_vars
  <2> SUFFICES ASSUME IInv, Next, NEW s \in Made, whose[s] # Nobody, ~ Live(s)
               PROVE  ~ Live(s)'
    BY DEF Over
  <2> USE DEF IInv, TypeOK
  <2>1. ASSUME NEW t \in Made, ReadBy(t) PROVE ~ Live(s)'
    BY <2>1 DEF ReadBy, Live
  <2>2. ASSUME NEW r \in Request, OpenSession(r) PROVE ~ Live(s)'
    <3>1. PICK t \in Made : whose[t] = Nobody /\ left' = [left EXCEPT ![t] = TTL] /\ bare' = bare
      <4>1. CASE op[r].kind = "login"
        <5>1. made + 1 \in Made /\ made + 1 > made
          BY <2>2, <4>1 DEF OpenSession
        <5> QED BY <2>2, <4>1, <5>1 DEF OpenSession, Sessions, Unopened
      <4>2. CASE op[r].kind # "login"
        BY <2>2, <4>2 DEF OpenSession, Hands, Holds, Sessions, FreshNumbers
      <4> QED BY <4>1, <4>2
    <3> QED BY <3>1 DEF Live
  <2>3. ASSUME NEW r \in Request, SetCurrentProject(r) PROVE ~ Live(s)'
    BY <2>3 DEF SetCurrentProject, Live, Hands
  <2>4. ASSUME NEW r \in Request, DropSessions(r) PROVE ~ Live(s)'
    BY <2>4 DEF DropSessions, Live
  <2>5. CASE Outside
    BY <2>5, BoundAssumption DEF Outside, Visit, Logout, Tick, Live
  <2>6. CASE UNCHANGED <<left, bare>>
    BY <2>6 DEF Live
  <2> QED
    BY <2>1, <2>2, <2>3, <2>4, <2>5, <2>6
    DEF Next, Requests, Steps, Signup, Login, Recover, Reset, Regenerate, Switch, Allow,
        CountUsers, Verify, Commit, CommitCollides, ListSessions, Fails, sessionVars
<1> QED BY <1>1, Invariance, PTL DEF Spec, EndedStaysEnded

-----------------------------------------------------------------------------
(* ApiCalls.                                                               *)

(* Where the attempts of a call are.                                       *)
Attempts ==
    \A c \in Call :
        /\ call[c] = "ready" <=> try[c] = 0
        /\ call[c] = "pausing" => try[c] < Tries
        /\ \A n \in 1..Tries : n > try[c] => handler[<<c, n>>] = "none"
        /\ c \notin unsure =>
              /\ \A n \in 1..Tries :
                    n < try[c] \/ call[c] # "waiting" => handler[<<c, n>>] \in {"none", "done"}
              /\ call[c] # "answered" => c \notin accepted

(* What a window let through was counted.                                  *)
Charged == \A w \in Window : admitted[w] <= used[w]

CallsInv == CallsTypeOK /\ Attempts /\ Charged /\ KeptWithinLimit /\ AnswersAreTrue

-----------------------------------------------------------------------------
(* The invariant holds initially: nothing was sent.                        *)
LEMMA CallsInitInv == CallsInit => CallsInv
  BY LimitAssumption
  DEF CallsInit, CallsInv, CallsTypeOK, Stages, Ended, HandlerPlaces, Attempt, Window, Attempts, Charged,
      KeptWithinLimit, AnswersAreTrue

(* An attempt is its call and its number.                                  *)
LEMMA Parts ==
    ASSUME NEW a \in Attempt
    PROVE  /\ a[1] \in Call /\ a[2] \in 1..Tries /\ a = <<a[1], a[2]>>
           /\ \A c \in Call, n \in 1..Tries : <<c, n>> = a <=> c = a[1] /\ n = a[2]
  BY DEF Attempt

(* A step of the library keeps it.                                         *)
LEMMA ClientInv == ASSUME CallsInv, NEW c \in Call, ClientStep(c) PROVE CallsInv'
<1> USE LimitAssumption DEF CallsInv, CallsTypeOK, keyVars, windowVars, callVars
<1>1. CASE Send(c)
  <2>1. /\ try[c] + 1 \in 1..Tries /\ <<c, try[c] + 1>> \in Attempt
        /\ try'[c] = try[c] + 1
    BY <1>1 DEF Send, Attempts, Attempt
  <2>2. CallsTypeOK'
    BY <1>1, <2>1 DEF Send, Stages, Ended, HandlerPlaces
  <2>3. Attempts'
    <3>1. ASSUME NEW d \in Call, NEW n \in 1..Tries
          PROVE  /\ <<d, n>> \in Attempt
                 /\ handler'[<<d, n>>] = IF d = c /\ n = try[c] + 1 THEN "verifying"
                                         ELSE handler[<<d, n>>]
      BY <1>1, <2>1 DEF Send, Attempt
    <3> QED BY <1>1, <2>1, <3>1 DEF Send, Attempts
  <2> QED BY <1>1, <2>2, <2>3 DEF Send, Charged, KeptWithinLimit, AnswersAreTrue
<1>2. CASE NoAnswer(c)
  <2>1. CallsTypeOK'
    BY <1>2 DEF NoAnswer, Stages, Ended
  <2>2. Attempts'
    BY <1>2 DEF NoAnswer, Attempts, TryLeft
  <2> QED BY <1>2, <2>1, <2>2 DEF NoAnswer, Charged, KeptWithinLimit, AnswersAreTrue
<1>3. CASE SendAnother(c)
  <2>1. CallsTypeOK'
    BY <1>3 DEF SendAnother, Stages, Ended, HandlerPlaces, Attempt
  <2>2. Attempts'
    <3>1. ASSUME NEW d \in Call, NEW n \in 1..Tries
          PROVE  handler'[<<d, n>>] = IF d = c THEN "none" ELSE handler[<<d, n>>]
      BY <1>3 DEF SendAnother, Attempt
    <3> QED BY <1>3, <3>1 DEF SendAnother, Attempts, Ended
  <2> QED BY <1>3, <2>1, <2>2 DEF SendAnother, Charged, KeptWithinLimit, AnswersAreTrue, Ended
<1> QED BY <1>1, <1>2, <1>3 DEF ClientStep

(* A request that moves on without an answer keeps it.                     *)
LEMMA MovesInv ==
    ASSUME CallsInv, NEW a \in Attempt, NEW place \in HandlerPlaces \ {"none"},
           handler[a] \notin {"none", "done"},
           Move(a, place), UNCHANGED <<callVars, accepted>>,
           CallsTypeOK', Charged', KeptWithinLimit'
    PROVE  CallsInv'
<1>1. ASSUME NEW c \in Call, NEW n \in 1..Tries
      PROVE  /\ <<c, n>> \in Attempt
             /\ handler'[<<c, n>>] = IF <<c, n>> = a THEN place ELSE handler[<<c, n>>]
  BY DEF Move, CallsInv, CallsTypeOK, Attempt
<1>2. Attempts'
  BY <1>1, Parts DEF CallsInv, CallsTypeOK, Attempts, callVars
<1> QED BY <1>2 DEF CallsInv, AnswersAreTrue, callVars

(* What a request can be answered with.                                    *)
Statuses == {"unauthorized", "limited", "invalid", "failed", "accepted"}

(* So does one that is answered, if the answer is true.                    *)
LEMMA RespondInv ==
    ASSUME CallsInv, NEW a \in Attempt, NEW status \in Statuses, Respond(a, status),
           handler[a] \notin {"none", "done"},
           \/ accepted' = accepted
           \/ accepted' = accepted \cup {a[1]} /\ status \in {"accepted", "failed"},
           status = "accepted" => a[1] \in accepted',
           faults' \in 0..MaxFaults,
           UNCHANGED <<keyVars, stamp, window>>,
           used' \in [Window -> 0..(Limit + 1)], admitted' \in [Window -> Nat],
           Charged', KeptWithinLimit'
    PROVE  CallsInv'
<1> DEFINE c == a[1]
<1> USE LimitAssumption DEF CallsInv, CallsTypeOK
<1>1. /\ c \in Call /\ a[2] \in 1..Tries
      /\ \A d \in Call, n \in 1..Tries :
            /\ <<d, n>> \in Attempt
            /\ handler'[<<d, n>>] = IF d = c /\ n = a[2] THEN "done" ELSE handler[<<d, n>>]
      /\ handler[<<c, a[2]>>] \notin {"none", "done"}
  <2>1. c \in Call /\ a[2] \in 1..Tries /\ a = <<c, a[2]>>
    BY DEF Attempt
  <2>2. ASSUME NEW d \in Call, NEW n \in 1..Tries
        PROVE  /\ <<d, n>> \in Attempt
               /\ <<d, n>> = a <=> d = c /\ n = a[2]
    BY <2>1 DEF Attempt
  <2>3. handler' = [handler EXCEPT ![a] = "done"] /\ handler \in [Attempt -> HandlerPlaces]
    BY DEF Respond
  <2> QED BY <2>1, <2>2, <2>3
<1>2. CallsTypeOK'
  BY <1>1 DEF Respond, Stages, Ended, HandlerPlaces, keyVars
<1>3. CASE call[c] = "waiting" /\ try[c] = a[2]
  <2>1. /\ call' = [call EXCEPT ![c] = IF status = "accepted" THEN "answered"
                                       ELSE IF WorthRetrying(status) /\ TryLeft(try[c])
                                            THEN "pausing" ELSE "refused"]
        /\ unsure' = IF status = "failed" THEN unsure \cup {c} ELSE unsure
        /\ try' = try
    BY <1>3 DEF Respond
  <2>2. Attempts'
    BY <1>1, <1>3, <2>1 DEF Attempts, TryLeft
  <2>3. AnswersAreTrue'
    BY <1>1, <1>3, <2>1 DEF Attempts, AnswersAreTrue
  <2> QED BY <1>2, <2>2, <2>3
<1>4. CASE ~ (call[c] = "waiting" /\ try[c] = a[2])
  <2>1. c \in unsure
    BY <1>1, <1>4 DEF Attempts
  <2>2. UNCHANGED callVars
    BY <1>4 DEF Respond, callVars
  <2>3. Attempts'
    BY <1>1, <2>1, <2>2 DEF Attempts, callVars
  <2>4. AnswersAreTrue'
    BY <1>1, <2>1, <2>2 DEF AnswersAreTrue, callVars
  <2> QED BY <1>2, <2>3, <2>4
<1> QED BY <1>3, <1>4

(* A step of the server keeps it.                                          *)
LEMMA ServerInv == ASSUME CallsInv, NEW a \in Attempt, ServerStep(a) \/ HandlerDies(a) PROVE CallsInv'
<1> USE LimitAssumption DEF CallsInv, CallsTypeOK, HandlerPlaces, keyVars, windowVars
<1>1. KeyFor(a) \in Key
  BY Parts, KeyAssumption DEF KeyFor
<1>2. CASE LookInCache(a)
  <2>1. PICK place \in {"charging", "querying"} : Move(a, place)
    BY <1>2 DEF LookInCache, Admit
  <2>2. CallsTypeOK' /\ Charged' /\ KeptWithinLimit'
    BY <1>2, <2>1 DEF LookInCache, Admit, Move, callVars, Charged, KeptWithinLimit
  <2> QED BY <1>2, <2>1, <2>2, MovesInv DEF LookInCache
<1>3. CASE Query(a)
  <2>1. CASE Move(a, "filling") /\ UNCHANGED callVars
    <3>1. CallsTypeOK' /\ Charged' /\ KeptWithinLimit'
      BY <1>3, <2>1 DEF Query, Move, callVars, Charged, KeptWithinLimit
    <3> QED BY <1>3, <2>1, <3>1, MovesInv DEF Query
  <2>2. CASE Respond(a, "unauthorized")
    <3>1. /\ handler[a] = "querying"
          /\ UNCHANGED <<keyVars, stamp, accepted, window, used, admitted, faults>>
      BY <1>3 DEF Query
    <3>2. /\ used' \in [Window -> 0..(Limit + 1)] /\ admitted' \in [Window -> Nat]
          /\ faults' \in 0..MaxFaults /\ Charged' /\ KeptWithinLimit'
      BY <3>1 DEF Charged, KeptWithinLimit
    <3> HIDE DEF CallsInv, CallsTypeOK, HandlerPlaces, keyVars, windowVars
    <3> QED BY <2>2, <3>1, <3>2, RespondInv DEF Statuses
  <2> QED BY <1>3, <2>1, <2>2 DEF Query
<1>4. CASE Fill(a)
  <2>1. CallsTypeOK' /\ Charged' /\ KeptWithinLimit'
    BY <1>1, <1>4 DEF Fill, Admit, Move, callVars, Charged, KeptWithinLimit
  <2> QED BY <1>4, <2>1, MovesInv DEF Fill, Admit
<1>5. CASE Charge(a)
  <2> DEFINE w == stamp[a]
             n == Counted(used[w])
  <2>1. w \in Window /\ n \in 0..(Limit + 1) /\ used[w] <= n /\ (Fits(n) => n = used[w] + 1)
    BY DEF Counted, Fits
  <2>2. CASE used' = [used EXCEPT ![w] = n] /\ Fits(n) /\ UNCHANGED faults
    <3>1. admitted' = [admitted EXCEPT ![w] = @ + 1] /\ Move(a, "accepting") /\ UNCHANGED callVars
      BY <1>5, <2>1, <2>2 DEF Charge
    <3>2. CallsTypeOK' /\ Charged' /\ KeptWithinLimit'
      BY <1>5, <2>1, <2>2, <3>1 DEF Charge, Move, callVars, Charged, KeptWithinLimit, Fits
    <3> QED BY <1>5, <3>1, <3>2, MovesInv DEF Charge
  <2>3. CASE used' = [used EXCEPT ![w] = n] /\ Respond(a, "limited") /\ UNCHANGED <<admitted, faults>>
    <3>1. /\ used' \in [Window -> 0..(Limit + 1)] /\ admitted' \in [Window -> Nat]
          /\ faults' \in 0..MaxFaults /\ Charged' /\ KeptWithinLimit'
      BY <2>1, <2>3 DEF Charged, KeptWithinLimit
    <3>2. handler[a] = "charging" /\ UNCHANGED <<keyVars, stamp, accepted, window>>
      BY <1>5 DEF Charge
    <3> HIDE DEF CallsInv, CallsTypeOK, HandlerPlaces, keyVars, windowVars, n, w
    <3> QED BY <2>3, <3>1, <3>2, RespondInv DEF Statuses
  <2>4. CASE Move(a, "accepting") /\ UNCHANGED <<callVars, used, admitted>> /\ faults' = faults + 1
    <3>1. CallsTypeOK' /\ Charged' /\ KeptWithinLimit'
      BY <1>5, <2>4 DEF Charge, Move, callVars, Charged, KeptWithinLimit
    <3> QED BY <1>5, <2>4, <3>1, MovesInv DEF Charge
  <2> QED BY <1>5, <2>2, <2>3, <2>4 DEF Charge
<1>6. CASE Accept(a)
  <2>1. /\ handler[a] = "accepting" /\ UNCHANGED <<keyVars, stamp, window, used, admitted>>
        /\ faults' \in 0..MaxFaults
    BY <1>6 DEF Accept
  <2>2. /\ used' \in [Window -> 0..(Limit + 1)] /\ admitted' \in [Window -> Nat]
        /\ Charged' /\ KeptWithinLimit'
    BY <2>1 DEF Charged, KeptWithinLimit
  <2>3. PICK status \in {"accepted", "invalid", "failed"} :
           /\ Respond(a, status)
           /\ \/ status = "invalid" /\ accepted' = accepted
              \/ status # "invalid" /\ accepted' = accepted \cup {a[1]}
    BY <1>6 DEF Accept
  <2> HIDE DEF CallsInv, CallsTypeOK, HandlerPlaces, keyVars, windowVars
  <2> QED BY <2>1, <2>2, <2>3, RespondInv DEF Statuses
<1>7. CASE HandlerDies(a)
  <2>1. CallsTypeOK' /\ Charged' /\ KeptWithinLimit'
    BY <1>7 DEF HandlerDies, Move, callVars, Charged, KeptWithinLimit
  <2> QED BY <1>7, <2>1, MovesInv DEF HandlerDies
<1> QED BY <1>2, <1>3, <1>4, <1>5, <1>6, <1>7 DEF ServerStep

(* Every step keeps the invariant.                                         *)
LEMMA CallsStepInv == CallsInv /\ [CallsNext]_apiVars => CallsInv'
<1> SUFFICES ASSUME CallsInv, [CallsNext]_apiVars PROVE CallsInv'
  OBVIOUS
<1> USE LimitAssumption
    DEF CallsInv, CallsTypeOK, Attempts, Charged, KeptWithinLimit, AnswersAreTrue, keyVars, callVars,
        windowVars
<1>1. ASSUME NEW k \in Key, Evict(k) \/ CommitRevocation(k) \/ CacheExpires(k) PROVE CallsInv'
  BY <1>1 DEF Evict, CommitRevocation, CacheExpires
<1>2. CASE WindowTurns
  BY <1>2 DEF WindowTurns, Window
<1>3. CASE UNCHANGED apiVars
  BY <1>3 DEF apiVars
<1> QED BY <1>1, <1>2, <1>3, ClientInv, ServerInv DEF CallsNext

(* CallsInv holds throughout every behaviour.                                  *)
THEOREM CallsInvariance == CallsSpec => []CallsInv
<1> QED BY CallsInitInv, CallsStepInv, PTL DEF CallsSpec

-----------------------------------------------------------------------------
(* Every variable keeps its type; no call is sent more often than Tries.   *)
THEOREM CallsTypeCorrect == CallsSpec => []CallsTypeOK
<1>1. CallsInv => CallsTypeOK
  BY DEF CallsInv
<1> QED BY <1>1, CallsInvariance, PTL

(* Requests counted in a window never exceed the limit, however they race. *)
THEOREM LimitIsKept == CallsSpec => []KeptWithinLimit
<1>1. CallsInv => KeptWithinLimit
  BY DEF CallsInv
<1> QED BY <1>1, CallsInvariance, PTL

(* A call that was only refused left no message; an answered one has one.  *)
THEOREM AnswersStayTrue == CallsSpec => []AnswersAreTrue
<1>1. CallsInv => AnswersAreTrue
  BY DEF CallsInv
<1> QED BY <1>1, CallsInvariance, PTL

-----------------------------------------------------------------------------
(* Listing.                                                                *)

(* The n newest of some rows.                                              *)
Top(rows, n) == {id \in rows : Cardinality({o \in rows : o > id}) < n}

(* What is left to read.                                                   *)
Unread == {id \in committed : reader.pages > 0 => id < reader.last}

Reader == [pages : Nat, given : SUBSET committed, twice : BOOLEAN, last : 0..MaxId,
           more : BOOLEAN, there : SUBSET committed]

(* A reader has been given everything from the last row on that was there  *)
(* when it began.                                                          *)
ListingInv ==
    /\ committed \subseteq 1..MaxId
    /\ reader \in Reader
    /\ reader.pages = 0 => reader = NotReading
    /\ reader.pages > 0 => \A id \in reader.there : id >= reader.last => id \in reader.given
    /\ EachOnce

-----------------------------------------------------------------------------
(* "Less than" is well founded on the naturals.                            *)
Less == {p \in Nat \X Nat : p[1] < p[2]}

(* So it has no descending chain.                                          *)
LEMMA LessIsWellFounded == IsWellFoundedOn(Less, Nat)
<1>1. IsWellFoundedOn(OpToRel(<, Nat), Nat)
  BY NatLessThanWellFounded
<1> QED BY <1>1 DEF OpToRel, Less

(* So a set of naturals has a least element, which is its minimum.         *)
LEMMA Least ==
    ASSUME NEW S, S \subseteq Nat, S # {} PROVE Min(S) \in S /\ \A y \in S : Min(S) <= y
<1>1. PICK x \in S : \A y \in S : ~ (<<y, x>> \in Less)
  BY LessIsWellFounded, WFMin
<1>2. ASSUME NEW y \in S PROVE x <= y
  <2>1. x \in Nat /\ y \in Nat /\ <<y, x>> \notin Less
    BY <1>1
  <2> QED BY <2>1 DEF Less
<1>3. \E z \in S : \A y \in S : z <= y
  BY <1>2
<1> QED BY <1>3 DEF Min

(* And one that is bounded has a greatest.                                 *)
LEMMA Greatest ==
    ASSUME NEW n \in Nat, NEW S, S \subseteq 1..n, S # {} PROVE \E x \in S : \A y \in S : x >= y
<1> DEFINE T == {n - y : y \in S}
<1>1. T \subseteq Nat /\ T # {}
  <2>1. \A y \in S : n - y \in Nat
    <3>1. \A y \in S : y \in 1..n
      OBVIOUS
    <3> QED BY <3>1
  <2> QED BY <2>1
<1>2. Min(T) \in T /\ \A t \in T : Min(T) <= t
  BY <1>1, Least
<1>3. PICK x \in S : Min(T) = n - x
  BY <1>2
<1>4. ASSUME NEW y \in S PROVE x >= y
  <2>1. n - y \in T
    OBVIOUS
  <2>2. n - x <= n - y
    BY <1>2, <1>3, <2>1
  <2>3. x \in 1..n /\ y \in 1..n
    OBVIOUS
  <2> HIDE DEF T
  <2> QED BY <2>2, <2>3
<1> QED BY <1>4

(* Rows are finitely many, whichever one looks at.                         *)
LEMMA RowsFinite ==
    ASSUME NEW n \in Nat, NEW S, S \subseteq 1..n
    PROVE  IsFiniteSet(S) /\ Cardinality(S) \in Nat
<1>1. IsFiniteSet(1..n)
  BY FS_Interval
<1> QED BY <1>1, FS_Subset, FS_CardinalityType

(* A newer row than one of the newest is one of them, and those of a       *)
(* longer page hold those of a shorter one.                                *)
LEMMA TopClosed ==
    ASSUME IdAssumption, NEW rows, rows \subseteq 1..MaxId, NEW n \in Nat
    PROVE  /\ Top(rows, n) \subseteq rows
           /\ \A x \in Top(rows, n), y \in rows : y > x => y \in Top(rows, n)
           /\ Top(rows, n) \subseteq Top(rows, n + 1)
<1> DEFINE Above(x) == {o \in rows : o > x}
<1>1. ASSUME NEW x \in rows PROVE IsFiniteSet(Above(x)) /\ Cardinality(Above(x)) \in Nat
  BY RowsFinite DEF IdAssumption
<1>2. ASSUME NEW x \in Top(rows, n), NEW y \in rows, y > x PROVE y \in Top(rows, n)
  <2>1. x \in rows /\ x \in 1..MaxId /\ y \in 1..MaxId /\ Cardinality(Above(x)) < n
    BY DEF Top
  <2>2. Above(y) \in SUBSET Above(x)
    <3>1. ASSUME NEW o \in Above(y) PROVE o \in Above(x)
      <4>1. o \in rows /\ o > y /\ o \in 1..MaxId
        OBVIOUS
      <4>2. o > x
        <5> HIDE DEF Above
        <5> QED BY <1>2, <2>1, <4>1
      <4> QED BY <4>1, <4>2
    <3> QED BY <3>1
  <2>3. Cardinality(Above(y)) <= Cardinality(Above(x))
    <3> HIDE DEF Above
    <3> QED BY <1>1, <2>1, <2>2, FS_Subset
  <2>4. Cardinality(Above(y)) < n
    BY <1>1, <2>1, <2>3
  <2> QED BY <2>4 DEF Top
<1>3. ASSUME NEW x \in Top(rows, n) PROVE x \in Top(rows, n + 1)
  BY <1>1, <1>3 DEF Top
<1> QED BY <1>2, <1>3 DEF Top

(* A page has no more rows than were asked for.                            *)
LEMMA TopFits ==
    ASSUME IdAssumption, NEW rows, rows \subseteq 1..MaxId, NEW n \in Nat
    PROVE  /\ IsFiniteSet(Top(rows, n)) /\ Cardinality(Top(rows, n)) \in Nat
           /\ Cardinality(Top(rows, n)) <= n
<1> DEFINE batch == Top(rows, n)
<1>1. batch \subseteq rows /\ batch \subseteq 1..MaxId /\ batch \subseteq Nat
  <2>1. batch \subseteq rows
    BY TopClosed
  <2>2. \A x \in 1..MaxId : x \in Nat
    BY DEF IdAssumption
  <2> HIDE DEF batch
  <2> QED BY <2>1, <2>2
<1>2. IsFiniteSet(batch) /\ Cardinality(batch) \in Nat
  BY <1>1, RowsFinite DEF IdAssumption
<1>3. CASE batch = {}
  <2>1. Cardinality(batch) = 0
    BY <1>3, FS_EmptySet
  <2>2. Cardinality(batch) <= n
    <3> HIDE DEF batch
    <3> QED BY <2>1
  <2> QED BY <1>2, <2>2
<1>4. CASE batch # {}
  <2> DEFINE m == Min(batch)
             above == {o \in rows : o > m}
  <2>1. m \in batch /\ \A y \in batch : m <= y
    BY <1>1, <1>4, Least
  <2>2. IsFiniteSet(above) /\ Cardinality(above) \in Nat /\ Cardinality(above) < n
    <3>1. above \subseteq 1..MaxId
      OBVIOUS
    <3>2. Cardinality(above) < n
      BY <2>1 DEF Top
    <3> QED BY <3>1, <3>2, RowsFinite DEF IdAssumption
  <2>3. batch \in SUBSET (above \cup {m})
    <3>1. ASSUME NEW y \in batch, y # m PROVE y > m
      <4>1. m \in Nat /\ y \in Nat /\ m <= y
        BY <1>1, <2>1
      <4> HIDE DEF m
      <4> QED BY <3>1, <4>1
    <3> QED BY <1>1, <3>1
  <2>4. /\ IsFiniteSet(above \cup {m})
        /\ Cardinality(above \cup {m}) \in Nat
        /\ Cardinality(above \cup {m}) <= Cardinality(above) + 1
    <3> HIDE DEF m, above
    <3>1. IsFiniteSet(above \cup {m})
      BY <2>2, FS_AddElement
    <3>2. Cardinality(above \cup {m}) = IF m \in above THEN Cardinality(above)
                                        ELSE Cardinality(above) + 1
      BY <2>2, FS_AddElement
    <3> QED BY <2>2, <3>1, <3>2
  <2>5. Cardinality(batch) <= Cardinality(above \cup {m})
    <3> HIDE DEF m, above, batch
    <3> QED BY <2>3, <2>4, FS_Subset
  <2>6. Cardinality(batch) <= n
    <3> HIDE DEF m, above, batch
    <3> QED BY <1>2, <2>2, <2>4, <2>5
  <2> QED BY <1>2, <2>6
<1> QED BY <1>2, <1>3, <1>4

(* A page has a row if there is one to give.                               *)
LEMMA TopNotEmpty ==
    ASSUME IdAssumption, NEW rows, rows \subseteq 1..MaxId, rows # {}, NEW n \in Nat, n # 0
    PROVE  Top(rows, n) # {}
<1>1. PICK x \in rows : \A y \in rows : x >= y
  BY Greatest DEF IdAssumption
<1>2. \A o \in rows : ~ (o > x)
  <2>1. \A o \in rows : o \in 1..MaxId /\ x \in 1..MaxId
    OBVIOUS
  <2> QED BY <1>1, <2>1
<1>3. {o \in rows : o > x} = {}
  BY <1>2
<1>4. Cardinality({o \in rows : o > x}) < n
  BY <1>3, FS_EmptySet
<1> QED BY <1>4 DEF Top

(* A page without a next one has all the rows.                             *)
LEMMA LastPage ==
    ASSUME IdAssumption, NEW rows, rows \subseteq 1..MaxId, NEW n \in Nat,
           ~ (Cardinality(Top(rows, n + 1)) > n)
    PROVE  rows \subseteq Top(rows, n)
<1> DEFINE batch == Top(rows, n)
           next == Top(rows, n + 1)
           rest == rows \ batch
<1>1. SUFFICES ASSUME rest # {} PROVE FALSE
  OBVIOUS
<1>2. PICK x \in rest : \A y \in rest : x >= y
  BY <1>1, Greatest DEF IdAssumption
<1> DEFINE above == {o \in rows : o > x}
<1>3. x \in rows /\ x \notin batch /\ x \in 1..MaxId
  OBVIOUS
<1>4. above \in SUBSET batch /\ above \subseteq 1..MaxId
  <2>1. ASSUME NEW o \in above PROVE o \in batch
    <3>1. o \in rows /\ o > x /\ o \in 1..MaxId
      OBVIOUS
    <3>2. o \notin rest
      <4>1. o \in rest => x >= o
        BY <1>2
      <4> HIDE DEF rest, above
      <4> QED BY <1>3, <3>1, <4>1
    <3> QED BY <3>1, <3>2
  <2> QED BY <2>1
<1>5. IsFiniteSet(above) /\ Cardinality(above) \in Nat
  BY <1>4, RowsFinite DEF IdAssumption
<1>6. IsFiniteSet(batch) /\ Cardinality(batch) \in Nat /\ Cardinality(batch) <= n
  BY TopFits
<1>7. Cardinality(above) <= Cardinality(batch)
  <2> HIDE DEF above, batch
  <2> QED BY <1>4, <1>6, FS_Subset
<1>8. ~ (Cardinality(above) < n)
  BY <1>3 DEF Top
<1>9. Cardinality(above) = n
  <2> HIDE DEF above, batch
  <2> QED BY <1>5, <1>6, <1>7, <1>8
<1>10. x \in next
  <2>1. Cardinality(above) < n + 1
    BY <1>9
  <2> QED BY <1>3, <2>1 DEF Top
<1>11. above \cup {x} \in SUBSET next
  <2>1. batch \subseteq next
    BY TopClosed
  <2> QED BY <1>4, <1>10, <2>1
<1>12. Cardinality(above \cup {x}) = n + 1
  <2>1. x \notin above
    BY <1>3
  <2> HIDE DEF above
  <2> QED BY <1>5, <1>9, <2>1, FS_AddElement
<1>13. IsFiniteSet(next) /\ Cardinality(next) \in Nat
  <2>1. n + 1 \in Nat
    OBVIOUS
  <2> QED BY <2>1, TopFits
<1>14. Cardinality(above \cup {x}) <= Cardinality(next)
  <2> HIDE DEF above, next
  <2> QED BY <1>11, <1>13, FS_Subset
<1>15. ~ (Cardinality(next) > n)
  OBVIOUS
<1> HIDE DEF next, above
<1> QED BY <1>12, <1>13, <1>14, <1>15

(* And one with a next one leaves a row below all of its own.              *)
LEMMA MorePages ==
    ASSUME IdAssumption, NEW rows, rows \subseteq 1..MaxId, NEW n \in Nat,
           Cardinality(Top(rows, n + 1)) > n
    PROVE  \E x \in rows : x \notin Top(rows, n) /\ \A y \in Top(rows, n) : x < y
<1> DEFINE batch == Top(rows, n)
           next == Top(rows, n + 1)
<1>1. batch \subseteq next /\ next \subseteq rows
  <2>1. n + 1 \in Nat
    OBVIOUS
  <2> QED BY <2>1, TopClosed
<1>2. Cardinality(batch) \in Nat /\ Cardinality(batch) <= n
  BY TopFits
<1>3. next # batch
  <2>1. Cardinality(next) > n
    OBVIOUS
  <2> HIDE DEF batch, next
  <2> QED BY <1>2, <2>1
<1>4. PICK x \in next : x \notin batch
  BY <1>1, <1>3
<1>5. ASSUME NEW y \in batch PROVE x < y
  <2>1. x \in rows /\ y \in rows /\ x \in 1..MaxId /\ y \in 1..MaxId
    BY <1>1, <1>4
  <2>2. x > y => x \in batch
    BY <2>1, TopClosed
  <2>3. x # y
    BY <1>4
  <2> HIDE DEF batch, next
  <2> QED BY <1>4, <2>1, <2>2, <2>3
<1> QED BY <1>1, <1>4, <1>5

-----------------------------------------------------------------------------
(* Nothing is committed at first, and nobody reads.                        *)
LEMMA ListingInitInv == ListingInit => ListingInv
  BY IdAssumption DEF ListingInit, ListingInv, NotReading, Reader, EachOnce

(* A page that is read.                                                    *)
LEMMA ReadPageInv ==
    ASSUME ListingInv, NEW limit \in 1..MaxLimit, ReadPage(limit) PROVE ListingInv'
<1> DEFINE rows == Unread
           batch == Top(rows, limit)
           more == Cardinality(Top(rows, limit + 1)) > limit
           last == IF batch = {} THEN reader.last ELSE Min(batch)
<1>1. /\ reader.more /\ committed' = committed
      /\ reader' = [pages |-> reader.pages + 1, given |-> reader.given \cup batch,
                    twice |-> reader.twice \/ reader.given \cap batch # {},
                    last |-> last, more |-> more,
                    there |-> IF reader.pages = 0 THEN committed ELSE reader.there]
  BY DEF ReadPage, Page, Unread, Top
<1>2. /\ reader \in Reader /\ committed \subseteq 1..MaxId /\ ~ reader.twice
      /\ reader.pages \in Nat /\ reader.last \in 0..MaxId
      /\ reader.given \subseteq committed /\ reader.there \subseteq committed
  BY DEF ListingInv, Reader, EachOnce
<1>3. /\ rows \subseteq committed /\ rows \subseteq 1..MaxId /\ limit \in Nat /\ IdAssumption
      /\ batch \subseteq rows /\ batch \subseteq Nat /\ batch \subseteq 1..MaxId
  <2>1. rows \subseteq committed
    BY DEF Unread
  <2>2. limit \in Nat /\ IdAssumption
    BY IdAssumption DEF IdAssumption
  <2>3. batch \subseteq rows
    BY <1>2, <2>1, <2>2, TopClosed
  <2>4. \A x \in 1..MaxId : x \in Nat
    BY <2>2 DEF IdAssumption
  <2> HIDE DEF rows, batch
  <2> QED BY <1>2, <2>1, <2>2, <2>3, <2>4
<1>3a. rows # {} => batch # {}
  <2>1. limit # 0
    OBVIOUS
  <2> QED BY <1>3, <2>1, TopNotEmpty
<1>4. batch # {} => last \in batch /\ \A y \in batch : last <= y
  BY <1>3, Least
<1>5. last \in 0..MaxId
  BY <1>2, <1>3, <1>4
<1>6. reader.given \cap batch = {} /\ \A id \in reader.given : id >= last
  <2>1. CASE reader.pages = 0
    BY <2>1 DEF ListingInv, NotReading
  <2>2. CASE reader.pages > 0
    <3>1. ASSUME NEW id \in reader.given
          PROVE  /\ id \in 1..MaxId /\ id >= reader.last
                 /\ \A y \in rows : y \in 1..MaxId /\ y < reader.last
      BY <1>2, <2>2 DEF ListingInv, EachOnce, Unread
    <3>2. ASSUME NEW id \in reader.given PROVE id \notin batch /\ id >= last
      <4>1. id \in 1..MaxId /\ id >= reader.last
        BY <3>1
      <4>2. \A y \in batch : y \in 1..MaxId /\ y < reader.last
        BY <1>3, <3>1
      <4>3. id \notin batch
        BY <1>2, <4>1, <4>2
      <4>4. CASE batch = {}
        BY <4>1, <4>4
      <4>5. CASE batch # {}
        <5>1. last \in 1..MaxId /\ last < reader.last
          BY <1>4, <4>2, <4>5
        <5> HIDE DEF last
        <5> QED BY <1>2, <4>1, <4>3, <5>1
      <4> QED BY <4>3, <4>4, <4>5
    <3> QED BY <3>2
  <2> QED BY <1>2, <2>1, <2>2
<1>7. ~ more => rows \subseteq batch
  BY <1>3, LastPage
<1>8. more => \E x \in rows : x \notin batch /\ \A y \in batch : x < y
  BY <1>3, MorePages
<1>9. ASSUME NEW id \in reader'.there, id \notin rows PROVE id \in reader'.given
  <2>1. CASE reader.pages = 0
    BY <1>1, <1>9, <2>1 DEF Unread
  <2>2. CASE reader.pages > 0
    <3>1. id \in reader.there /\ id \in committed /\ id \in 1..MaxId
      BY <1>1, <1>2, <2>2
    <3>2. id >= reader.last
      BY <1>2, <1>9, <3>1 DEF Unread
    <3> QED BY <1>1, <2>2, <3>1, <3>2 DEF ListingInv
  <2> QED BY <1>2, <2>1, <2>2
<1>10. ASSUME NEW id \in reader'.there, id >= last PROVE id \in reader'.given
  <2>1. CASE id \notin rows
    BY <1>9, <2>1
  <2>2. CASE id \in rows
    <3>1. batch # {}
      BY <1>3a, <2>2
    <3>2. last \in batch /\ last \in 1..MaxId /\ id \in 1..MaxId
      BY <1>3, <1>4, <2>2, <3>1
    <3>3. id > last => id \in batch
      BY <1>3, <2>2, <3>2, TopClosed
    <3>4. id \in batch
      <4> HIDE DEF last, batch
      <4> QED BY <1>10, <3>2, <3>3
    <3> QED BY <1>1, <3>4
  <2> QED BY <2>1, <2>2
<1>11. more => \E id \in committed : id < last
  <2> SUFFICES ASSUME more PROVE \E id \in committed : id < last
    OBVIOUS
  <2>1. PICK x \in rows : x \notin batch /\ \A y \in batch : x < y
    BY <1>8
  <2>2. batch # {}
    BY <1>3a, <2>1
  <2> QED BY <1>3, <1>4, <2>1, <2>2
<1>12. ~ more => reader'.there \subseteq reader'.given
  BY <1>1, <1>7, <1>9
<1>13. reader' \in Reader' /\ reader'.pages > 0
  <2>1. more \in BOOLEAN /\ (reader.twice \/ reader.given \cap batch # {}) \in BOOLEAN
    OBVIOUS
  <2>2. reader.pages + 1 \in Nat /\ reader.pages + 1 > 0
    BY <1>2
  <2> HIDE DEF batch, rows, last, more
  <2> QED BY <1>1, <1>2, <1>3, <1>5, <2>1, <2>2 DEF Reader
<1>14. \A id \in reader'.given : id >= reader'.last
  <2>1. \A id \in batch : id >= last
    <3>1. ASSUME NEW id \in batch PROVE id >= last
      <4>1. last <= id /\ last \in 1..MaxId /\ id \in 1..MaxId
        BY <1>3, <1>4
      <4> HIDE DEF last, batch
      <4> QED BY <4>1
    <3> QED BY <3>1
  <2> QED BY <1>1, <1>6, <2>1
<1>15. EachOnce'
  <2> HIDE DEF batch, rows, last, more
  <2>1. ~ reader'.twice /\ reader'.more = more /\ reader'.last = last
    BY <1>1, <1>2, <1>6
  <2>2. \A id \in reader'.there : id > last => id \in reader'.given
    <3>1. ASSUME NEW id \in reader'.there, id > last PROVE id \in reader'.given
      <4>1. id \in 1..MaxId
        BY <1>1, <1>2
      <4>2. id >= last
        BY <1>5, <3>1, <4>1
      <4> QED BY <1>10, <4>2
    <3> QED BY <3>1
  <2> QED BY <1>1, <1>11, <1>12, <1>14, <2>1, <2>2 DEF EachOnce
<1> HIDE DEF batch, rows, last, more
<1> QED BY <1>1, <1>2, <1>10, <1>13, <1>15 DEF ListingInv

(* A row that arrives, wherever it sorts, and a reader that stops.         *)
LEMMA ListingStepInv == ListingInv /\ [ListingNext]_listingVars => ListingInv'
<1> SUFFICES ASSUME ListingInv, [ListingNext]_listingVars PROVE ListingInv'
  OBVIOUS
<1>1. ASSUME NEW id \in 1..MaxId, Arrives(id) PROVE ListingInv'
  BY <1>1 DEF Arrives, ListingInv, Reader, EachOnce, NotReading
<1>2. ASSUME NEW limit \in 1..MaxLimit, ReadPage(limit) PROVE ListingInv'
  BY <1>2, ReadPageInv
<1>3. CASE StopReading
  <2>1. NotReading \in Reader
    BY IdAssumption DEF NotReading, Reader, IdAssumption
  <2> QED BY <1>3, <2>1 DEF StopReading, ListingInv, Reader, EachOnce, NotReading
<1>4. CASE UNCHANGED listingVars
  BY <1>4 DEF listingVars, ListingInv, Reader, EachOnce
<1> QED BY <1>1, <1>2, <1>3, <1>4 DEF ListingNext

(* Whatever arrives meanwhile, a reader is given each row once and, by the *)
(* last page, every row that was there when it began.                      *)
THEOREM PagesGiveEachOnce == ListingSpec => []EachOnce
<1>1. ListingInv => EachOnce
  BY DEF ListingInv
<1> QED BY <1>1, ListingInitInv, ListingStepInv, PTL DEF ListingSpec

-----------------------------------------------------------------------------
(* Deployment.                                                             *)

(* Which services there are, and that a process runs only with settings    *)
(* that were accepted.                                                     *)
DeployInv ==
    /\ up \subseteq {"postgres", "redis"}
    /\ \A s \in {api, worker} : s # Down => Accepted(s)

(* Nothing runs at first, and both services answer.                        *)
LEMMA DeployInitInv == DeployInit => DeployInv
  BY DEF DeployInit, DeployInv

(* Every step keeps it: what starts was accepted.                          *)
LEMMA DeployStepInv == DeployInv /\ [DeployNext]_deployVars => DeployInv'
<1> SUFFICES ASSUME DeployInv, [DeployNext]_deployVars PROVE DeployInv'
  OBVIOUS
<1>1. CASE StartApi \/ StartWorker
  <2>1. Started # Down => Accepted(Started)
    BY DEF Started
  <2> QED BY <1>1, <2>1 DEF StartApi, StartWorker, DeployInv
<1>2. CASE WorkerStops
  BY <1>2 DEF WorkerStops, DeployInv
<1>3. ASSUME NEW service \in {"postgres", "redis"}, Outage(service) PROVE DeployInv'
  BY <1>3 DEF Outage, DeployInv
<1>4. ASSUME UNCHANGED <<api, worker, up>> PROVE DeployInv'
  BY <1>4 DEF DeployInv
<1> QED
  BY <1>1, <1>2, <1>3, <1>4
  DEF DeployNext, Edit, Deploy, Migrate, Connect, AwsRefuses, Refresh, Disconnect, Waits, Drains,
      deployVars

(* What the doctor says of sending is so, given which services there are.  *)
LEMMA SendingIsSo == ASSUME DeployInv PROVE SendingToldTruly
<1> SUFFICES ASSUME api # Down, worker = api
             PROVE  /\ Run(api) = {} =>
                          \A p \in Projects :
                             /\ connection[p].status = "connected" => Outcome(p) = "ses"
                             /\ connection = [q \in Projects |-> NoConnection] =>
                                    Outcome(p) = "smtp"
                    /\ "sending" \in Run(api) /\ Projects # {} =>
                          \E p \in Projects : Outcome(p) \in {"refused", "failed"}
  BY DEF SendingToldTruly
<1>1. ASSUME Run(api) = {}
      PROVE  Serves /\ CheckSending(api) = {} /\ "postgres" \in up
  <2>1. CheckPostgres = {} /\ CheckRedis(api) = {} /\ CheckSending(api) = {}
    BY <1>1 DEF Run
  <2>2. "postgres" \in up /\ "redis" \in up
    BY <2>1 DEF CheckPostgres, CheckRedis
  <2> QED BY <2>1, <2>2 DEF DeployInv, Serves
<1>2. ASSUME Run(api) = {}, NEW p \in Projects, connection[p].status = "connected"
      PROVE  Outcome(p) = "ses"
  <2>1. StoredCredentials(p, worker)
    BY <1>1, <1>2 DEF CheckSending, UnreadableKeys
  <2> QED BY <1>1, <1>2, <2>1 DEF Outcome, ChooseProvider
<1>3. ASSUME Run(api) = {}, NEW p \in Projects, connection = [q \in Projects |-> NoConnection]
      PROVE  Outcome(p) = "smtp"
  <2>1. connection[p] = NoConnection /\ \A q \in Projects : connection[q].status # "connected"
    BY <1>3 DEF NoConnection
  <2>2. SmtpConfigured(api)
    BY <1>1, <1>3, <2>1 DEF CheckSending
  <2> QED BY <1>1, <1>3, <2>1, <2>2 DEF Outcome, ChooseProvider
<1>4. ASSUME "sending" \in Run(api), Projects # {}
      PROVE  \E p \in Projects : Outcome(p) \in {"refused", "failed"}
  <2>1. CASE ~ Serves
    BY <1>4, <2>1 DEF Outcome
  <2>2. CASE Serves
    <3>1. CheckSending(api) # {} /\ "postgres" \in up
      BY <1>4, <2>2 DEF Run, CheckConfiguration, CheckPostgres, CheckRedis, CheckWorker, Serves
    <3>2. CASE \E p \in Projects : connection[p].status = "connected"
      <4>1. PICK p \in Projects :
               connection[p].status = "connected" /\ ~ StoredCredentials(p, api)
        BY <3>1, <3>2 DEF CheckSending, UnreadableKeys
      <4>2. connection[p] # NoConnection
        BY <4>1 DEF NoConnection
      <4> QED BY <2>2, <4>1, <4>2 DEF Outcome, ChooseProvider
    <3>3. CASE \A p \in Projects : connection[p].status # "connected"
      <4>1. ~ SmtpConfigured(api)
        BY <3>1, <3>3 DEF CheckSending
      <4> QED BY <1>4, <2>2, <3>3, <4>1 DEF Outcome, ChooseProvider
    <3> QED BY <3>2, <3>3
  <2> QED BY <2>1, <2>2
<1> QED BY <1>2, <1>3, <1>4

(* A single head is nobody's down_revision.                                *)
LEMMA SchemaIsSo == SchemaToldTruly
<1> DEFINE heads == {m.revision : m \in history} \ {m.down_revision : m \in history}
<1> SUFFICES ASSUME CheckPostgres = {}, AlembicHead # NoRevision
             PROVE  \A m \in history : m.down_revision # applied
  BY DEF SchemaToldTruly
<1>1. Cardinality(heads) = 1 /\ AlembicHead = CHOOSE h \in heads : TRUE
  BY DEF AlembicHead
<1>2. heads # {}
  <2> HIDE DEF heads
  <2> QED BY <1>1, FS_EmptySet
<1>3. AlembicHead \in heads
  BY <1>1, <1>2
<1>4. AlembicHead = applied
  BY DEF CheckPostgres
<1> QED BY <1>3, <1>4

(* However the operator edits, restarts, deploys and migrates and projects *)
(* connect: the doctor that passes is right that mail goes out and that no *)
(* migration is missing, and one that fails sending is right too.          *)
THEOREM DoctorIsBelieved == DeploySpec => []DoctorIsRight
<1>1. DeployInv => DoctorIsRight
  BY SendingIsSo, SchemaIsSo DEF DoctorIsRight
<1> QED BY <1>1, DeployInitInv, DeployStepInv, PTL DEF DeploySpec

-----------------------------------------------------------------------------
(* The element that the sum takes next, and what is left.                  *)
Next1(s) == CHOOSE x \in s : TRUE
Rest(s) == s \ {Next1(s)}

(* The partial sums of a chart, as the fold computes them.                 *)
PartialSums(chart, column) ==
    CHOOSE sum : sum = [s \in SUBSET DOMAIN chart |->
                           IF s = {} THEN 0
                           ELSE LET x == CHOOSE x \in s : TRUE
                                IN chart[x][column] + sum[s \ {x}]]

(* A total is the partial sum over all buckets.                            *)
LEMMA TotalIsLastSum ==
    ASSUME NEW chart, NEW column
    PROVE  Total(chart, column) = PartialSums(chart, column)[DOMAIN chart]
  BY DEF Total, PartialSums, MapThenSumSet, MapThenFoldSet

(* Of a finite set, something is taken, and one less is left.              *)
LEMMA OneLess ==
    ASSUME NEW s, IsFiniteSet(s), s # {}
    PROVE  /\ Next1(s) \in s /\ Rest(s) \subseteq s /\ IsFiniteSet(Rest(s))
           /\ Cardinality(s) \in Nat /\ Cardinality(Rest(s)) = Cardinality(s) - 1
           /\ Cardinality(Rest(s)) \in Nat
<1>1. Next1(s) \in s
  BY DEF Next1
<1>2. IsFiniteSet(Rest(s)) /\ Cardinality(Rest(s)) = Cardinality(s) - 1
  BY <1>1, FS_RemoveElement DEF Rest
<1>3. Cardinality(s) \in Nat /\ Cardinality(Rest(s)) \in Nat
  BY <1>2, FS_CardinalityType
<1> QED BY <1>1, <1>2, <1>3 DEF Rest

(* The partial sums are what their equation says.                          *)
LEMMA SumsAdd ==
    ASSUME NEW chart, NEW column, IsFiniteSet(DOMAIN chart)
    PROVE  \A s \in SUBSET DOMAIN chart :
               PartialSums(chart, column)[s] =
                   IF s = {} THEN 0
                   ELSE chart[Next1(s)][column] + PartialSums(chart, column)[Rest(s)]
<1> DEFINE D == DOMAIN chart
           Adds(sum, s) == sum[s] = IF s = {} THEN 0
                                    ELSE chart[Next1(s)][column] + sum[Rest(s)]
           UpTo(n) == \E sum : \A s \in SUBSET D : Cardinality(s) <= n => Adds(sum, s)
           Beyond == {n \in Nat : ~UpTo(n)}
<1>0. \A s \in SUBSET D : IsFiniteSet(s) /\ Cardinality(s) \in Nat
  BY FS_Subset, FS_CardinalityType
<1>1. Beyond = {}
  <2> SUFFICES ASSUME Beyond # {} PROVE FALSE
    OBVIOUS
  <2>1. /\ Min(Beyond) \in Nat /\ ~UpTo(Min(Beyond))
        /\ \A n \in Nat : n < Min(Beyond) => UpTo(n)
    <3>1. Min(Beyond) \in Beyond /\ \A y \in Beyond : Min(Beyond) <= y
      <4> HIDE DEF UpTo
      <4>1. Beyond \subseteq Nat
        OBVIOUS
      <4> HIDE DEF Beyond
      <4> QED BY <4>1, Least
    <3>2. Min(Beyond) \in Nat /\ ~UpTo(Min(Beyond))
      <4> HIDE DEF UpTo
      <4> DEFINE b == Min(Beyond)
      <4>1. b \in Beyond
        BY <3>1
      <4> HIDE DEF b
      <4>2. b \in Nat /\ ~UpTo(b)
        BY <4>1
      <4> QED BY <4>2 DEF b
    <3>3. ASSUME NEW n \in Nat, n < Min(Beyond) PROVE UpTo(n)
      <4> HIDE DEF UpTo
      <4> DEFINE b == Min(Beyond)
      <4>1. \A y \in Beyond : b <= y
        BY <3>1
      <4>2. b \in Nat /\ n < b
        BY <3>2, <3>3
      <4> HIDE DEF b
      <4>3. n \notin Beyond
        BY <4>1, <4>2
      <4> QED BY <4>3
    <3> QED BY <3>2, <3>3
  <2> DEFINE m == Min(Beyond)
  <2>2. m \in Nat /\ ~UpTo(m) /\ (\A n \in Nat : n < m => UpTo(n))
    BY <2>1
  <2> HIDE DEF m, Beyond
  <2>3. CASE m = 0
    <3> DEFINE sum == [s \in SUBSET D |-> 0]
    <3>1. ASSUME NEW s \in SUBSET D, Cardinality(s) <= 0 PROVE Adds(sum, s)
      <4>1. s = {}
        BY <1>0, <3>1, FS_EmptySet
      <4> QED BY <4>1
    <3> HIDE DEF sum
    <3>2. UpTo(0)
      BY <3>1
    <3> QED BY <2>2, <2>3, <3>2
  <2>4. CASE m > 0
    <3>1. PICK sum : \A s \in SUBSET D : Cardinality(s) <= m - 1 => Adds(sum, s)
      <4> HIDE DEF Adds
      <4>1. m - 1 \in Nat /\ m - 1 < m
        BY <2>2, <2>4
      <4>2. UpTo(m - 1)
        <5> HIDE DEF UpTo
        <5> QED BY <2>2, <4>1
      <4> QED BY <4>2
    <3> DEFINE more == [s \in SUBSET D |->
                           IF s = {} THEN 0 ELSE chart[Next1(s)][column] + sum[Rest(s)]]
    <3>2. ASSUME NEW s \in SUBSET D, Cardinality(s) <= m - 1 PROVE more[s] = sum[s]
      BY <3>1, <3>2
    <3>3. ASSUME NEW s \in SUBSET D, Cardinality(s) <= m PROVE Adds(more, s)
      <4>1. CASE s = {}
        BY <4>1
      <4>2. CASE s # {}
        <5>1. Rest(s) \in SUBSET D /\ Cardinality(Rest(s)) <= m - 1
          <6>1. Rest(s) \subseteq s /\ Cardinality(Rest(s)) = Cardinality(s) - 1
            BY <1>0, <4>2, OneLess
          <6>2. Cardinality(s) \in Nat
            BY <1>0
          <6> QED BY <2>2, <3>3, <6>1, <6>2
        <5>2. more[Rest(s)] = sum[Rest(s)]
          BY <3>2, <5>1
        <5> QED BY <4>2, <5>2
      <4> QED BY <4>1, <4>2
    <3> HIDE DEF more
    <3>4. UpTo(m)
      BY <3>3
    <3> QED BY <2>2, <3>4
  <2> QED BY <2>2, <2>3, <2>4
<1>2. PICK sum : \A s \in SUBSET D : Adds(sum, s)
  <2>1. Cardinality(D) \in Nat /\ \A s \in SUBSET D : Cardinality(s) <= Cardinality(D)
    BY FS_Subset, FS_CardinalityType
  <2>2. UpTo(Cardinality(D))
    <3> HIDE DEF UpTo
    <3> QED BY <1>1, <2>1
  <2>3. PICK sum : \A s \in SUBSET D : Cardinality(s) <= Cardinality(D) => Adds(sum, s)
    <3> HIDE DEF Adds
    <3> QED BY <2>2
  <2> HIDE DEF Adds
  <2> QED BY <2>1, <2>3
<1> DEFINE all == [s \in SUBSET D |-> sum[s]]
           Right(f) == f = [s \in SUBSET D |->
                           IF s = {} THEN 0
                           ELSE LET x == CHOOSE x \in s : TRUE
                                IN chart[x][column] + f[s \ {x}]]
<1>3. Right(all)
  <2>1. ASSUME NEW s \in SUBSET D
        PROVE  sum[s] = IF s = {} THEN 0
                           ELSE LET x == CHOOSE x \in s : TRUE
                                IN chart[x][column] + all[s \ {x}]
    <3>1. CASE s = {}
      BY <1>2, <3>1
    <3>2. CASE s # {}
      <4>1. Rest(s) \in SUBSET D
        BY DEF Rest
      <4>2. all[Rest(s)] = sum[Rest(s)]
        BY <4>1
      <4>3. sum[s] = chart[Next1(s)][column] + all[Rest(s)]
        BY <1>2, <3>2, <4>2
      <4> HIDE DEF all
      <4> QED BY <3>2, <4>3 DEF Next1, Rest
    <3> QED BY <3>1, <3>2
  <2> QED BY <2>1
<1>4. Right(PartialSums(chart, column))
  <2> HIDE DEF all
  <2> QED BY <1>3 DEF PartialSums
<1> QED BY <1>4 DEF Next1, Rest

(* What is in the buckets b of the rows E, each in its bucket k[e].        *)
Into(E, k, b) == {e \in E : k[e] \in b}
Marks(m, rows) == {m[e] : e \in rows}

(* A set of marks is no larger than the set of what bears them.            *)
LEMMA MarksFewer ==
    ASSUME NEW R, IsFiniteSet(R), NEW m
    PROVE  /\ IsFiniteSet(Marks(m, R)) /\ Cardinality(Marks(m, R)) \in Nat
           /\ Cardinality(R) \in Nat /\ Cardinality(Marks(m, R)) <= Cardinality(R)
<1> DEFINE f == [e \in R |-> m[e]]
<1>1. f \in Surjection(R, Marks(m, R))
  BY DEF Surjection, Marks
<1> HIDE DEF f
<1>2. IsFiniteSet(Marks(m, R)) /\ Cardinality(Marks(m, R)) <= Cardinality(R)
  BY <1>1, FS_Surjection
<1> QED BY <1>2, FS_CardinalityType

(* What one more bucket adds.                                              *)
LEMMA OneBucketMore ==
    ASSUME NEW E, IsFiniteSet(E), NEW k, NEW m, NEW s, NEW x \in s
    PROVE  LET t == s \ {x} IN
           /\ Cardinality(Into(E, k, s)) =
                  Cardinality(Into(E, k, t)) + Cardinality(Into(E, k, {x}))
           /\ Cardinality(Marks(m, Into(E, k, s))) <=
                  Cardinality(Marks(m, Into(E, k, t))) + Cardinality(Marks(m, Into(E, k, {x})))
<1> DEFINE t == s \ {x}
           A == Into(E, k, t)
           B == Into(E, k, {x})
           C == Marks(m, A)
           F == Marks(m, B)
<1>1. IsFiniteSet(A) /\ IsFiniteSet(B) /\ IsFiniteSet(Into(E, k, s))
  <2>1. A \in SUBSET E /\ B \in SUBSET E /\ Into(E, k, s) \in SUBSET E
    BY DEF Into
  <2> HIDE DEF A, B
  <2> QED BY <2>1, FS_Subset
<1>2. Into(E, k, s) = A \cup B /\ A \cap B = {}
  BY DEF Into
<1>3. Marks(m, Into(E, k, s)) = C \cup F
  BY <1>2 DEF Marks
<1> HIDE DEF A, B
<1>4. IsFiniteSet(C) /\ IsFiniteSet(F)
  BY <1>1, MarksFewer
<1> HIDE DEF C, F
<1>5. Cardinality(A \cup B) = Cardinality(A) + Cardinality(B)
  <2>1. Cardinality(A \cup B) = Cardinality(A) + Cardinality(B) - Cardinality(A \cap B)
    BY <1>1, FS_Union
  <2>2. Cardinality(A \cap B) = 0
    BY <1>2, FS_EmptySet
  <2>3. Cardinality(A) \in Nat /\ Cardinality(B) \in Nat
    BY <1>1, FS_CardinalityType
  <2> QED BY <2>1, <2>2, <2>3
<1>6. Cardinality(C \cup F) <= Cardinality(C) + Cardinality(F)
  <2>1. Cardinality(C \cup F) = Cardinality(C) + Cardinality(F) - Cardinality(C \cap F)
    BY <1>4, FS_Union
  <2>2. IsFiniteSet(C \cap F)
    BY <1>4, FS_Intersection
  <2>3. Cardinality(C) \in Nat /\ Cardinality(F) \in Nat /\ Cardinality(C \cap F) \in Nat
    BY <1>4, <2>2, FS_CardinalityType
  <2> QED BY <2>1, <2>3
<1>7. /\ Cardinality(Into(E, k, s)) = Cardinality(A) + Cardinality(B)
      /\ Cardinality(Marks(m, Into(E, k, s))) <= Cardinality(C) + Cardinality(F)
  BY <1>2, <1>3, <1>5, <1>6
<1> QED BY <1>7 DEF A, B, C, F

(* A column that counts the marks in each bucket adds up to no less than   *)
(* the marks there are, and to no more than the rows.                      *)
LEMMA TotalBetween ==
    ASSUME NEW chart, NEW column, IsFiniteSet(DOMAIN chart),
           NEW E, IsFiniteSet(E), NEW k, NEW m,
           \A x \in DOMAIN chart :
               chart[x][column] = Cardinality(Marks(m, Into(E, k, {x})))
    PROVE  LET rows == Into(E, k, DOMAIN chart) IN
           /\ Total(chart, column) \in Nat
           /\ Cardinality(Marks(m, rows)) <= Total(chart, column)
           /\ Total(chart, column) <= Cardinality(rows)
<1> DEFINE D == DOMAIN chart
           sum == PartialSums(chart, column)
           Between(s) == /\ sum[s] \in Nat
                         /\ Cardinality(Marks(m, Into(E, k, s))) <= sum[s]
                         /\ sum[s] <= Cardinality(Into(E, k, s))
           Bad == {n \in Nat : \E s \in SUBSET D : Cardinality(s) = n /\ ~Between(s)}
<1>0. \A s \in SUBSET D : IsFiniteSet(s) /\ Cardinality(s) \in Nat
  BY FS_Subset, FS_CardinalityType
<1>1. \A s : /\ IsFiniteSet(Into(E, k, s)) /\ Cardinality(Into(E, k, s)) \in Nat
             /\ Cardinality(Marks(m, Into(E, k, s))) \in Nat
             /\ Cardinality(Marks(m, Into(E, k, s))) <= Cardinality(Into(E, k, s))
  <2> TAKE s
  <2>1. Into(E, k, s) \in SUBSET E
    BY DEF Into
  <2>2. IsFiniteSet(Into(E, k, s))
    BY <2>1, FS_Subset
  <2> QED BY <2>2, MarksFewer
<1>2. Bad = {}
  <2> SUFFICES ASSUME Bad # {} PROVE FALSE
    OBVIOUS
  <2> DEFINE n == Min(Bad)
  <2>1. n \in Bad /\ \A y \in Bad : n <= y
    <3> HIDE DEF Between
    <3>1. Bad \subseteq Nat
      OBVIOUS
    <3> HIDE DEF Bad
    <3> QED BY <3>1, Least
  <2> HIDE DEF n, Between
  <2>2. PICK s \in SUBSET D : Cardinality(s) = n /\ ~Between(s)
    BY <2>1
  <2>3. CASE s = {}
    <3>1. sum[s] = 0
      BY <2>3, SumsAdd
    <3>2. Into(E, k, s) = {}
      BY <2>3 DEF Into
    <3>3. Marks(m, Into(E, k, s)) = {}
      BY <3>2 DEF Marks
    <3>4. Cardinality({}) = 0
      BY FS_EmptySet
    <3>5. Between(s)
      BY <3>1, <3>2, <3>3, <3>4 DEF Between
    <3> QED BY <2>2, <3>5
  <2>4. CASE s # {}
    <3> DEFINE x == Next1(s)
               t == Rest(s)
    <3>1. /\ x \in s /\ x \in D /\ t = s \ {x} /\ t \in SUBSET D
          /\ Cardinality(t) \in Nat /\ Cardinality(t) = n - 1 /\ n \in Nat
      <4>1. x \in s /\ t \subseteq s /\ Cardinality(t) = Cardinality(s) - 1 /\ Cardinality(t) \in Nat
        BY <1>0, <2>4, OneLess
      <4>2. t = s \ {x}
        BY DEF Rest
      <4> HIDE DEF x, t
      <4> QED BY <1>0, <2>2, <4>1, <4>2
    <3>2. sum[s] = chart[x][column] + sum[t]
      BY <2>4, SumsAdd
    <3> HIDE DEF x, t, sum
    <3>3. Between(t)
      <4>1. Cardinality(t) \notin Bad
        BY <2>1, <3>1
      <4> QED BY <3>1, <4>1
    <3>4. chart[x][column] = Cardinality(Marks(m, Into(E, k, {x})))
      BY <3>1
    <3>5. /\ Cardinality(Into(E, k, s)) =
                  Cardinality(Into(E, k, t)) + Cardinality(Into(E, k, {x}))
          /\ Cardinality(Marks(m, Into(E, k, s))) <=
                  Cardinality(Marks(m, Into(E, k, t))) + Cardinality(Marks(m, Into(E, k, {x})))
      BY <3>1, OneBucketMore
    <3>6. Between(s)
      BY <1>1, <3>2, <3>3, <3>4, <3>5 DEF Between
    <3> QED BY <2>2, <3>6
  <2> QED BY <2>3, <2>4
<1>3. Between(D)
  <2>1. Cardinality(D) \in Nat /\ Cardinality(D) \notin Bad
    BY <1>0, <1>2
  <2> HIDE DEF Between
  <2> QED BY <2>1
<1>4. Total(chart, column) = sum[D]
  BY TotalIsLastSum
<1> QED BY <1>3, <1>4

-----------------------------------------------------------------------------
(* Truncating keeps the order, gives a multiple, and goes back by less     *)
(* than a bucket.                                                          *)
LEMMA Truncating ==
    ASSUME RangeAssumption, NEW range \in Ranges, NEW x \in Int
    PROVE  /\ Bucket[range] \in Nat \ {0}
           /\ Truncate(x, range) \in Int /\ Truncate(x, range) % Bucket[range] = 0
           /\ Truncate(x, range) <= x /\ x < Truncate(x, range) + Bucket[range]
<1>1. Bucket[range] \in Nat \ {0}
  BY DEF RangeAssumption
<1>2. x % Bucket[range] \in 0..(Bucket[range] - 1)
  BY <1>1
<1>3. (x - (x % Bucket[range])) % Bucket[range] = 0
  <2> DEFINE b == Bucket[range]
  <2>1. b \in Nat \ {0}
    BY <1>1
  <2> HIDE DEF b
  <2>2. (x - (x % b)) % b = 0
    BY <2>1
  <2> QED BY <2>2 DEF b
<1> QED BY <1>1, <1>2, <1>3 DEF Truncate

(* Multiples of a bucket that are less than one apart are the same, so the *)
(* order of times is that of their buckets.                                *)
LEMMA MultiplesApart ==
    ASSUME NEW b \in Nat \ {0}, NEW x \in Int, NEW y \in Int, x % b = 0, y % b = 0, x < y
    PROVE  x + b <= y
<1>1. x = b * (x \div b) + (x % b) /\ x \div b \in Int
  OBVIOUS
<1>2. y = b * (y \div b) + (y % b) /\ y \div b \in Int
  OBVIOUS
<1> DEFINE p == x \div b
           q == y \div b
<1>3. x = b * p /\ y = b * q /\ p \in Int /\ q \in Int
  BY <1>1, <1>2
<1> HIDE DEF p, q
<1>4. p < q
  BY <1>3
<1>5. b * (p + 1) <= b * q
  BY <1>3, <1>4
<1>6. b * (p + 1) = b * p + b
  BY <1>3
<1> QED BY <1>3, <1>5, <1>6

(* Two multiples of a bucket that a time is less than a bucket after are   *)
(* one.                                                                    *)
LEMMA OneMultiple ==
    ASSUME NEW b \in Nat \ {0}, NEW time \in Int, NEW x \in Int, NEW y \in Int,
           x % b = 0, x <= time, time < x + b, y % b = 0, y <= time, time < y + b
    PROVE  x = y
<1>1. x < y => x + b <= y
  BY MultiplesApart
<1>2. y < x => y + b <= x
  BY MultiplesApart
<1> QED BY <1>1, <1>2

(* The difference of two multiples is one.                                 *)
LEMMA MultiplesDiffer ==
    ASSUME NEW b \in Nat \ {0}, NEW x \in Int, NEW y \in Int, x % b = 0, y % b = 0
    PROVE  (x - y) % b = 0
<1> DEFINE p == x \div b
           q == y \div b
           z == x - y
           r == z \div b
<1>1. x = b * p /\ y = b * q /\ p \in Int /\ q \in Int
  OBVIOUS
<1>2. z = b * r + (z % b) /\ r \in Int /\ z % b \in 0..(b - 1)
  OBVIOUS
<1>3. z = b * (p - q)
  <2> HIDE DEF p, q
  <2>1. b * p - b * q = b * (p - q)
    BY <1>1
  <2> QED BY <1>1, <2>1
<1> DEFINE t == p - q - r
<1>4. b * t = z % b /\ t \in Int
  <2>1. p - q \in Int /\ z \in Int
    BY <1>1
  <2> HIDE DEF p, q, r, z
  <2>2. b * t = b * (p - q) - b * r
    BY <1>1, <1>2
  <2>3. b * (p - q) - b * r = z % b
    BY <1>2, <1>3, <2>1
  <2> QED BY <1>1, <1>2, <2>2, <2>3
<1> HIDE DEF t, z, p, q, r
<1>5. t = 0
  <2>1. t >= 1 => b * t >= b
    BY <1>4
  <2>2. t <= -1 => b * t <= -b
    BY <1>4
  <2> QED BY <1>2, <1>4, <2>1, <2>2
<1>6. z % b = 0
  BY <1>4, <1>5
<1> QED BY <1>6 DEF z

(* Where the zone is a whole number of buckets from UTC, the key of a row  *)
(* is the bucket of its time; elsewhere no key is a bucket.                *)
LEMMA KeysMatch ==
    ASSUME RangeAssumption, NEW range \in Ranges, NEW x \in Int
    PROVE  /\ Aligned(range) => DateTrunc(x, range) = Truncate(x, range)
           /\ ~Aligned(range) => DateTrunc(x, range) % Bucket[range] # 0
<1> DEFINE b == Bucket[range]
           key == DateTrunc(x, range)
           slot == Truncate(x, range)
<1>1. b \in Nat \ {0} /\ Offset \in Int /\ x + Offset \in Int
  BY DEF RangeAssumption
<1>2. slot \in Int /\ slot % b = 0 /\ slot <= x /\ x < slot + b
  BY Truncating
<1>3. Truncate(x + Offset, range) = key + Offset /\ key \in Int
  BY <1>1 DEF Truncate, DateTrunc
<1>4. (key + Offset) % b = 0 /\ key <= x /\ x < key + b
  <2>1. /\ Truncate(x + Offset, range) % b = 0
        /\ Truncate(x + Offset, range) <= x + Offset
        /\ x + Offset < Truncate(x + Offset, range) + b
    BY <1>1, Truncating
  <2> HIDE DEF key, b
  <2> QED BY <1>1, <1>3, <2>1
<1>5. Aligned(range) <=> Offset % b = 0
  BY DEF Aligned
<1> HIDE DEF b, key, slot
<1>6. ASSUME Offset % b = 0 PROVE key = slot
  <2>1. ((key + Offset) - Offset) % b = 0
    BY <1>1, <1>3, <1>4, <1>6, MultiplesDiffer
  <2>2. (key + Offset) - Offset = key
    BY <1>1, <1>3
  <2>3. key % b = 0
    BY <2>1, <2>2
  <2> QED BY <1>1, <1>2, <1>3, <1>4, <2>3, OneMultiple
<1>7. ASSUME key % b = 0 PROVE Offset % b = 0
  <2>1. ((key + Offset) - key) % b = 0
    BY <1>1, <1>3, <1>4, <1>7, MultiplesDiffer
  <2>2. (key + Offset) - key = Offset
    BY <1>1, <1>3
  <2> QED BY <2>1, <2>2
<1>8. /\ Aligned(range) => key = slot
      /\ ~Aligned(range) => key % b # 0
  BY <1>5, <1>6, <1>7
<1> QED BY <1>8 DEF b, key, slot

(* So what happened in a window is in one of its buckets, unless it is     *)
(* beyond the last, and what is beyond the last is in the window.          *)
LEMMA BucketsCover ==
    ASSUME RangeAssumption, NEW range \in Ranges, NEW time \in Int, NEW x \in Int
    PROVE  LET since == time - Duration[range]
               beyond == x >= Truncate(time, range) + Bucket[range]
           IN /\ since \in Int
              /\ x >= since => (Truncate(x, range) \in Buckets(range, time) <=> ~beyond)
              /\ beyond => x >= since
<1> DEFINE b == Bucket[range]
           since == time - Duration[range]
           last == Truncate(time, range)
           first == Truncate(since, range)
           slot == Truncate(x, range)
<1>1. b \in Nat \ {0} /\ since \in Int /\ since <= time
  BY DEF RangeAssumption
<1>2. /\ slot \in Int /\ slot % b = 0 /\ slot <= x /\ x < slot + b
      /\ last \in Int /\ last % b = 0 /\ last <= time /\ time < last + b
      /\ first \in Int /\ first % b = 0 /\ first <= since /\ since < first + b
  BY <1>1, Truncating
<1>3. slot \in Buckets(range, time) <=> first <= slot /\ slot <= last
  BY <1>2 DEF Buckets
<1> HIDE DEF b, since, last, first, slot
<1>4. ASSUME x >= since, x < last + b PROVE first <= slot /\ slot <= last
  <2>1. ~(slot < first)
    <3>1. slot < first => slot + b <= first
      BY <1>1, <1>2, MultiplesApart
    <3> QED BY <1>1, <1>2, <1>4, <3>1
  <2>2. ~(last < slot)
    <3>1. last < slot => last + b <= slot
      BY <1>1, <1>2, MultiplesApart
    <3> QED BY <1>1, <1>2, <1>4, <3>1
  <2> QED BY <1>2, <2>1, <2>2
<1>5. x >= last + b => ~(slot <= last)
  BY <1>1, <1>2
<1>6. x >= last + b => x >= since
  BY <1>1, <1>2
<1>7. x >= since => (slot \in Buckets(range, time) <=> ~(x >= last + b))
  BY <1>1, <1>2, <1>3, <1>4, <1>5
<1> QED BY <1>1, <1>6, <1>7 DEF b, since, last, slot

-----------------------------------------------------------------------------
(* The rows of emails and of email_events, and what a page is put together *)
(* from.                                                                   *)
Mails == Seq([from : Senders, at : Nat])
Events == [mail : Nat, type : Reported, at : Nat]
Scopes == [value : Seq(STRING), narrower : SUBSET Domains]
PageStages == {"opened", "counted", "heard", "timed", "drawn", "shown"}
Pages == [stage : PageStages, scope : Scopes, range : Ranges,
          numbersAt : Nat, counted : Nat, heard : SUBSET Events,
          chartAt : Nat, drawn : Nat, plotted : SUBSET Events]

(* A query sees what an earlier one of the page saw, and a time is taken   *)
(* after an earlier one.                                                   *)
InOrder ==
    page.stage # "none" =>
        /\ page \in Pages
        /\ page.numbersAt <= now /\ page.counted <= Len(mails) /\ page.heard \subseteq events
        /\ page.stage \in {"timed", "drawn", "shown"} =>
               page.numbersAt <= page.chartAt /\ page.chartAt <= now
        /\ page.stage \in {"drawn", "shown"} =>
               page.counted <= page.drawn /\ page.drawn <= Len(mails)
        /\ page.stage = "shown" =>
               page.heard \subseteq page.plotted /\ page.plotted \subseteq events

(* The rows are rows, there are finitely many of each, and a page sees     *)
(* them in the order of its queries.                                       *)
OverviewInv ==
    /\ now \in Nat
    /\ added \subseteq Domains
    /\ mails \in Mails
    /\ events \subseteq Events /\ IsFiniteSet(events)
    /\ InOrder

(* The rows that a page's queries find.                                    *)
LEMMA RowsFound ==
    ASSUME RangeAssumption, OverviewInv, page.stage = "shown"
    PROVE  /\ NumbersSince \in Int /\ ChartSince \in Int /\ NumbersSince <= ChartSince
           /\ page.range \in Ranges /\ page.chartAt \in Nat
           /\ \A n \in 0..Len(mails), since \in Int :
                  /\ IsFiniteSet(SentSince(n, since))
                  /\ \A i \in SentSince(n, since) : mails[i].at \in Nat /\ mails[i].at >= since
           /\ \A rows \in SUBSET events, type \in Reported, since \in Int :
                  /\ IsFiniteSet(EventsSince(rows, type, since))
                  /\ \A e \in EventsSince(rows, type, since) : e.at \in Nat /\ e.at >= since
<1>1. page \in Pages /\ page.numbersAt <= page.chartAt
  BY DEF OverviewInv, InOrder
<1>2. page.range \in Ranges /\ page.chartAt \in Nat /\ page.numbersAt \in Nat
  BY <1>1 DEF Pages
<1>3. Duration[page.range] \in Nat
  BY <1>2 DEF RangeAssumption
<1>4. NumbersSince \in Int /\ ChartSince \in Int /\ NumbersSince <= ChartSince
  BY <1>1, <1>2, <1>3 DEF NumbersSince, ChartSince
<1>5. ASSUME NEW n \in 0..Len(mails), NEW since \in Int
      PROVE  /\ IsFiniteSet(SentSince(n, since))
             /\ \A i \in SentSince(n, since) : mails[i].at \in Nat /\ mails[i].at >= since
  <2>1. n \in Nat /\ 1..n \subseteq 1..Len(mails) /\ IsFiniteSet(1..n)
    <3>1. Len(mails) \in Nat
      BY DEF OverviewInv, Mails
    <3>2. n \in Nat
      BY <3>1
    <3> QED BY <3>1, <3>2, FS_Interval
  <2>2. \A i \in 1..n : mails[i].at \in Nat
    <3> DEFINE R == [from : Senders, at : Nat]
    <3>1. mails \in Seq(R)
      BY DEF OverviewInv, Mails
    <3> HIDE DEF R
    <3>2. \A i \in 1..Len(mails) : mails[i] \in R
      BY <3>1
    <3> QED BY <2>1, <3>2 DEF R
  <2>3. SentSince(n, since) \in SUBSET (1..n)
    BY DEF SentSince
  <2>4. IsFiniteSet(SentSince(n, since))
    BY <2>1, <2>3, FS_Subset
  <2> QED BY <2>2, <2>4 DEF SentSince
<1>6. ASSUME NEW rows \in SUBSET events, NEW type \in Reported, NEW since \in Int
      PROVE  /\ IsFiniteSet(EventsSince(rows, type, since))
             /\ \A e \in EventsSince(rows, type, since) : e.at \in Nat /\ e.at >= since
  <2>1. EventsSince(rows, type, since) \in SUBSET events
    BY DEF EventsSince
  <2>2. IsFiniteSet(EventsSince(rows, type, since))
    BY <2>1, FS_Subset DEF OverviewInv
  <2>3. \A e \in events : e.at \in Nat
    BY DEF OverviewInv, Events
  <2> QED BY <2>1, <2>2, <2>3 DEF EventsSince
<1> QED BY <1>2, <1>4, <1>5, <1>6

(* A chart has finitely many buckets, and each counts the rows whose key   *)
(* it is.                                                                  *)
LEMMA ChartCounts ==
    ASSUME RangeAssumption, OverviewInv, page.stage = "shown", NEW type \in Reported
    PROVE  LET there == SentSince(page.drawn, ChartSince)
               told == EventsSince(page.plotted, type, ChartSince)
               sentIn == [i \in there |-> DateTrunc(mails[i].at, page.range)]
               toldIn == [e \in told |-> DateTrunc(e.at, page.range)]
               itself == [i \in there |-> i]
               about == [e \in told |-> e.mail]
           IN /\ DOMAIN Activity = Buckets(page.range, page.chartAt)
              /\ IsFiniteSet(DOMAIN Activity)
              /\ \A slot \in DOMAIN Activity :
                     /\ Activity[slot]["sent"] =
                            Cardinality(Marks(itself, Into(there, sentIn, {slot})))
                     /\ Activity[slot][type] =
                            Cardinality(Marks(about, Into(told, toldIn, {slot})))
<1> DEFINE range == page.range
           time == page.chartAt
           there == SentSince(page.drawn, ChartSince)
           told == EventsSince(page.plotted, type, ChartSince)
           sentIn == [i \in there |-> DateTrunc(mails[i].at, range)]
           toldIn == [e \in told |-> DateTrunc(e.at, range)]
           itself == [i \in there |-> i]
           about == [e \in told |-> e.mail]
<1>1. DOMAIN Activity = Buckets(range, time)
  BY DEF Activity
<1>2. IsFiniteSet(Buckets(range, time))
  <2>1. time - Duration[range] \in Int /\ time \in Int /\ range \in Ranges
    BY RowsFound DEF RangeAssumption
  <2>2. Truncate(time - Duration[range], range) \in Int /\ Truncate(time, range) \in Int
    BY <2>1, Truncating
  <2>3. IsFiniteSet(Truncate(time - Duration[range], range)..Truncate(time, range))
    BY <2>2, FS_Interval
  <2>4. Buckets(range, time)
            \in SUBSET (Truncate(time - Duration[range], range)..Truncate(time, range))
    BY DEF Buckets
  <2> QED BY <2>3, <2>4, FS_Subset
<1>3. ASSUME NEW slot \in DOMAIN Activity
      PROVE  Activity[slot]["sent"] = Cardinality(Marks(itself, Into(there, sentIn, {slot})))
  <2>1. Activity[slot]["sent"] =
            Cardinality({i \in there : DateTrunc(mails[i].at, range) = slot})
    BY <1>1 DEF Activity
  <2>2. Marks(itself, Into(there, sentIn, {slot})) =
            {i \in there : DateTrunc(mails[i].at, range) = slot}
    <3> HIDE DEF there
    <3> QED BY DEF Marks, Into
  <2> QED BY <2>1, <2>2
<1>4. ASSUME NEW slot \in DOMAIN Activity
      PROVE  Activity[slot][type] = Cardinality(Marks(about, Into(told, toldIn, {slot})))
  <2>1. Activity[slot][type] =
            Cardinality({e.mail : e \in {e \in told : DateTrunc(e.at, range) = slot}})
    <3>1. CASE type = "delivered"
      BY <1>1, <3>1 DEF Activity
    <3>2. CASE type = "bounced"
      BY <1>1, <3>2 DEF Activity
    <3> QED BY <3>1, <3>2 DEF Reported
  <2>2. Marks(about, Into(told, toldIn, {slot}))
            = {e.mail : e \in {e \in told : DateTrunc(e.at, range) = slot}}
    <3> HIDE DEF told
    <3> QED BY DEF Marks, Into
  <2> QED BY <2>1, <2>2
<1> QED BY <1>1, <1>2, <1>3, <1>4

(* A part of a finite set, and the rest of it.                             *)
LEMMA PartAndRest ==
    ASSUME NEW A, IsFiniteSet(A), NEW B \in SUBSET A
    PROVE  /\ Cardinality(A) = Cardinality(B) + Cardinality(A \ B)
           /\ Cardinality(A) \in Nat /\ Cardinality(B) \in Nat /\ Cardinality(A \ B) \in Nat
<1> DEFINE C == A \ B
<1>1. IsFiniteSet(B) /\ IsFiniteSet(C)
  BY FS_Subset
<1>2. A = B \cup C /\ B \cap C = {}
  OBVIOUS
<1> HIDE DEF C
<1>3. Cardinality(B \cup C) = Cardinality(B) + Cardinality(C) - Cardinality(B \cap C)
  BY <1>1, FS_Union
<1>4. Cardinality(B \cap C) = 0
  BY <1>2, FS_EmptySet
<1>5. Cardinality(A) \in Nat /\ Cardinality(B) \in Nat /\ Cardinality(C) \in Nat
  BY <1>1, FS_CardinalityType
<1>6. Cardinality(A) = Cardinality(B) + Cardinality(C)
  BY <1>2, <1>3, <1>4, <1>5
<1> QED BY <1>5, <1>6 DEF C

(* Where the keys match, what was sent in the chart's window is in it or   *)
(* beyond its last bucket, and the number has what came and left.          *)
LEMMA SendsCounted ==
    ASSUME RangeAssumption, OverviewInv, page.stage = "shown", Aligned(page.range)
    PROVE  SendsAddUp(Activity)
<1> DEFINE range == page.range
           end == Truncate(page.chartAt, range) + Bucket[range]
           there == SentSince(page.drawn, ChartSince)
           sentIn == [i \in there |-> DateTrunc(mails[i].at, range)]
           itself == [i \in there |-> i]
           before == SentSince(page.counted, NumbersSince)
           still == SentSince(page.counted, ChartSince)
           beyond == {i \in there : mails[i].at >= end}
           inside == Into(there, sentIn, DOMAIN Activity)
<1>1. /\ page.counted \in 0..Len(mails) /\ page.drawn \in 0..Len(mails)
      /\ page.counted <= page.drawn /\ page.chartAt \in Int /\ range \in Ranges
      /\ Len(mails) \in Nat
  <2>1. page \in Pages /\ page.counted <= page.drawn /\ page.drawn <= Len(mails)
    BY DEF OverviewInv, InOrder
  <2>2. page.counted \in Nat /\ page.drawn \in Nat /\ page.chartAt \in Nat /\ range \in Ranges
    BY <2>1 DEF Pages
  <2>3. Len(mails) \in Nat
    BY DEF OverviewInv, Mails
  <2> HIDE DEF range
  <2> QED BY <2>1, <2>2, <2>3
<1>2. IsFiniteSet(there) /\ IsFiniteSet(before) /\ IsFiniteSet(still)
  BY <1>1, RowsFound
<1>3. still \subseteq before /\ still = there \cap 1..page.counted
  <2>1. \A i \in before : mails[i].at \in Nat
    BY <1>1, RowsFound
  <2>2. \A i \in 1..page.counted : i \in 1..page.drawn
    BY <1>1
  <2>3. \A i \in still : mails[i].at \in Nat
    BY <1>1, RowsFound
  <2>4. NumbersSince \in Int /\ ChartSince \in Int /\ NumbersSince <= ChartSince
    BY RowsFound
  <2> QED BY <2>2, <2>3, <2>4 DEF SentSince
<1>4. DOMAIN Activity = Buckets(range, page.chartAt) /\ IsFiniteSet(DOMAIN Activity)
  BY ChartCounts DEF Reported
<1>5. /\ Total(Activity, "sent") \in Nat
      /\ Cardinality(Marks(itself, inside)) <= Total(Activity, "sent")
      /\ Total(Activity, "sent") <= Cardinality(inside)
  <2>1. \A slot \in DOMAIN Activity :
            Activity[slot]["sent"] = Cardinality(Marks(itself, Into(there, sentIn, {slot})))
    BY ChartCounts DEF Reported
  <2> HIDE DEF there, sentIn, itself
  <2> QED BY <1>2, <1>4, <2>1, TotalBetween
<1>6. Marks(itself, inside) = inside /\ inside \subseteq there
  <2> HIDE DEF there, sentIn
  <2> QED BY DEF Marks, Into
<1>7. inside = there \ beyond
  <2>1. ASSUME NEW i \in there PROVE sentIn[i] \in DOMAIN Activity <=> ~(mails[i].at >= end)
    <3>1. mails[i].at \in Int /\ mails[i].at >= ChartSince
      BY <1>1, RowsFound
    <3>2. sentIn[i] = Truncate(mails[i].at, range)
      BY <1>1, <3>1, KeysMatch
    <3>3. Truncate(mails[i].at, range) \in Buckets(range, page.chartAt) <=> ~(mails[i].at >= end)
      BY <1>1, <3>1, BucketsCover DEF ChartSince
    <3> QED BY <1>4, <3>2, <3>3
  <2> HIDE DEF there, sentIn
  <2> QED BY <2>1 DEF Into
<1>8. /\ Cardinality(there) = Cardinality(inside) + Cardinality(beyond)
      /\ Cardinality(inside) \in Nat /\ Cardinality(beyond) \in Nat
  <2>1. beyond \in SUBSET there
    OBVIOUS
  <2> HIDE DEF there, beyond, inside
  <2> QED BY <1>2, <1>7, <2>1, PartAndRest
<1>9. /\ Cardinality(before) = Cardinality(still) + Cardinality(before \ still)
      /\ Cardinality(there) = Cardinality(still) + Cardinality(there \ still)
      /\ Cardinality(still) \in Nat /\ Cardinality(before) \in Nat /\ Cardinality(there) \in Nat
      /\ Cardinality(before \ still) \in Nat /\ Cardinality(there \ still) \in Nat
  <2> HIDE DEF there, before, still
  <2>1. still \in SUBSET before /\ still \in SUBSET there
    BY <1>3
  <2> QED BY <1>2, <2>1, PartAndRest
<1>10. there \ 1..page.counted = there \ still
  <2> HIDE DEF there, still
  <2> QED BY <1>3
<1>11. Total(Activity, "sent") = Cardinality(inside)
  <2> HIDE DEF inside, itself
  <2> QED BY <1>5, <1>6, <1>8
<1>12. Sent = Cardinality(before)
  BY DEF Sent
<1> HIDE DEF there, before, still, beyond, inside, end
<1>13. Cardinality(there \ 1..page.counted) = Cardinality(there \ still)
  BY <1>10
<1>14. Sent + Cardinality(there \ 1..page.counted) =
           Total(Activity, "sent") + Cardinality(before \ still) + Cardinality(beyond)
  <2> DEFINE a == Cardinality(before \ still)
             c == Cardinality(there \ still)
             d == Cardinality(there \ 1..page.counted)
             t == Total(Activity, "sent")
             n == Sent
  <2>1. d = c /\ t = Cardinality(inside) /\ n = Cardinality(before)
    BY <1>11, <1>12, <1>13
  <2>2. a \in Nat /\ c \in Nat
    BY <1>9
  <2>3. n = Cardinality(still) + a /\ Cardinality(inside) + Cardinality(beyond) = Cardinality(still) + c
    BY <1>8, <1>9, <2>1
  <2> HIDE DEF a, c, d, t, n
  <2>4. n + d = t + a + Cardinality(beyond)
    BY <1>8, <1>9, <2>1, <2>2, <2>3
  <2> QED BY <2>4 DEF a, d, t, n
<1> QED BY <1>14 DEF SendsAddUp, there, before, still, beyond, end

(* And of what was reported on in it, each message is in a bucket, and in  *)
(* none twice.                                                             *)
LEMMA ReportsCounted ==
    ASSUME RangeAssumption, OverviewInv, page.stage = "shown", Aligned(page.range),
           NEW type \in Reported
    PROVE  ReportsAddUp(Activity, type)
<1> DEFINE range == page.range
           end == Truncate(page.chartAt, range) + Bucket[range]
           told == EventsSince(page.plotted, type, ChartSince)
           toldIn == [e \in told |-> DateTrunc(e.at, range)]
           about == [e \in told |-> e.mail]
           rows == {e \in told : e.at < end}
           before == EventsSince(page.heard, type, NumbersSince)
           came == EventsSince(page.plotted \ page.heard, type, ChartSince)
           Of(s) == {e.mail : e \in s}
<1>1. /\ page.heard \subseteq page.plotted /\ page.plotted \subseteq events
      /\ page.chartAt \in Int /\ range \in Ranges
  BY RowsFound DEF OverviewInv, InOrder
<1>2. /\ IsFiniteSet(told) /\ IsFiniteSet(before) /\ IsFiniteSet(came)
      /\ \A e \in told : e.at \in Int /\ e.at >= ChartSince
  <2>1. /\ page.plotted \in SUBSET events /\ page.heard \in SUBSET events
        /\ page.plotted \ page.heard \in SUBSET events
    BY <1>1
  <2>2. ChartSince \in Int /\ NumbersSince \in Int
    BY RowsFound
  <2>3. \A set \in SUBSET events, since \in Int :
            /\ IsFiniteSet(EventsSince(set, type, since))
            /\ \A e \in EventsSince(set, type, since) : e.at \in Nat /\ e.at >= since
    BY RowsFound
  <2>4. IsFiniteSet(told) /\ \A e \in told : e.at \in Nat /\ e.at >= ChartSince
    BY <2>1, <2>2, <2>3
  <2>5. IsFiniteSet(before) /\ IsFiniteSet(came)
    BY <2>1, <2>2, <2>3
  <2> HIDE DEF told, before, came
  <2> QED BY <2>4, <2>5
<1>3. DOMAIN Activity = Buckets(range, page.chartAt) /\ IsFiniteSet(DOMAIN Activity)
  BY ChartCounts
<1>4. \A slot \in DOMAIN Activity :
          Activity[slot][type] = Cardinality(Marks(about, Into(told, toldIn, {slot})))
  BY ChartCounts
<1>5. rows = Into(told, toldIn, DOMAIN Activity)
  <2>1. ASSUME NEW e \in told PROVE toldIn[e] \in DOMAIN Activity <=> e.at < end
    <3>1. toldIn[e] = Truncate(e.at, range)
      BY <1>1, <1>2, KeysMatch
    <3>2. Truncate(e.at, range) \in Buckets(range, page.chartAt) <=> ~(e.at >= end)
      BY <1>1, <1>2, BucketsCover DEF ChartSince
    <3>3. end \in Int
      BY <1>1, Truncating
    <3> HIDE DEF end
    <3> QED BY <1>2, <1>3, <3>1, <3>2, <3>3
  <2> HIDE DEF told, toldIn, end
  <2> QED BY <2>1 DEF Into
<1>6. Of(rows) = Marks(about, rows) /\ Of(told) = Marks(about, told)
  <2>1. rows \subseteq told
    OBVIOUS
  <2> HIDE DEF told, rows
  <2> QED BY <2>1 DEF Marks
<1>7. /\ Cardinality(Marks(about, rows)) <= Total(Activity, type)
      /\ Total(Activity, type) <= Cardinality(rows)
  <2> HIDE DEF told, toldIn, about, rows
  <2> QED BY <1>2, <1>3, <1>4, <1>5, TotalBetween
<1>8. told \subseteq before \cup came
  <2>1. NumbersSince \in Int /\ ChartSince \in Int /\ NumbersSince <= ChartSince
    BY RowsFound
  <2>2. ASSUME NEW e \in told PROVE e \in before \cup came
    <3>1. e.at >= NumbersSince
      <4> HIDE DEF told
      <4> QED BY <1>2, <2>1
    <3>2. e \in page.plotted /\ Covers(page.scope, mails[e.mail].from) /\ e.type = type
          /\ e.at >= ChartSince
      BY DEF EventsSince
    <3> QED BY <3>1, <3>2 DEF EventsSince
  <2> QED BY <2>2
<1>9. /\ IsFiniteSet(Of(before) \cup Of(came))
      /\ Cardinality(Of(before) \cup Of(came)) <= Cardinality(Of(before)) + Cardinality(Of(came))
      /\ Cardinality(Of(before)) \in Nat /\ Cardinality(Of(came)) \in Nat
      /\ Cardinality(Of(before) \cup Of(came)) \in Nat
  <2> DEFINE A == Of(before)
             B == Of(came)
  <2>1. IsFiniteSet(A) /\ IsFiniteSet(B)
    <3> HIDE DEF before, came
    <3>1. A = Marks([e \in before |-> e.mail], before) /\ B = Marks([e \in came |-> e.mail], came)
      BY DEF Marks
    <3> QED BY <1>2, <3>1, MarksFewer
  <2> HIDE DEF A, B
  <2>2. /\ IsFiniteSet(A \cup B)
        /\ Cardinality(A \cup B) = Cardinality(A) + Cardinality(B) - Cardinality(A \cap B)
    BY <2>1, FS_Union
  <2>3. IsFiniteSet(A \cap B)
    BY <2>1, FS_Intersection
  <2>4. /\ Cardinality(A) \in Nat /\ Cardinality(B) \in Nat /\ Cardinality(A \cap B) \in Nat
        /\ Cardinality(A \cup B) \in Nat
    BY <2>1, <2>2, <2>3, FS_CardinalityType
  <2>5. Cardinality(A \cup B) <= Cardinality(A) + Cardinality(B)
    BY <2>2, <2>4
  <2> QED BY <2>2, <2>4, <2>5 DEF A, B
<1>10. ASSUME NEW slot \in DOMAIN Activity
       PROVE  Activity[slot][type] <= Cardinality(Of(before)) + Cardinality(Of(came))
  <2> DEFINE marks == Marks(about, Into(told, toldIn, {slot}))
  <2>1. marks \in SUBSET (Of(before) \cup Of(came))
    <3>1. marks \subseteq Of(told)
      <4> HIDE DEF told
      <4> QED BY DEF Marks, Into
    <3>2. Of(told) \subseteq Of(before) \cup Of(came)
      <4> HIDE DEF told, before, came
      <4> QED BY <1>8
    <3> HIDE DEF marks, Of
    <3> QED BY <3>1, <3>2
  <2>2. Activity[slot][type] = Cardinality(marks)
    BY <1>4, <1>10
  <2> HIDE DEF marks, Of
  <2>3. /\ Cardinality(marks) <= Cardinality(Of(before) \cup Of(came))
        /\ Cardinality(marks) \in Nat
    BY <1>9, <2>1, FS_Subset, FS_CardinalityType
  <2> QED BY <1>9, <2>2, <2>3
<1>11. Distinct(type) = Cardinality(Of(before))
  BY DEF Distinct
<1> HIDE DEF told, about, end
<1>12. /\ Cardinality(Of(rows)) <= Total(Activity, type)
       /\ Total(Activity, type) <= Cardinality(rows)
       /\ \A slot \in DOMAIN Activity :
              Activity[slot][type] <= Distinct(type) + Cardinality(Of(came))
  BY <1>6, <1>7, <1>10, <1>11
<1> QED BY <1>12 DEF ReportsAddUp, told, end

(* Where they do not match, every bucket is empty.                         *)
LEMMA NothingFound ==
    ASSUME RangeAssumption, OverviewInv, page.stage = "shown", ~Aligned(page.range),
           NEW column \in Reported \cup {"sent"}
    PROVE  Total(Activity, column) = 0
<1> DEFINE range == page.range
           there == SentSince(page.drawn, ChartSince)
           sentIn == [i \in there |-> DateTrunc(mails[i].at, range)]
           itself == [i \in there |-> i]
<1>1. DOMAIN Activity = Buckets(range, page.chartAt) /\ IsFiniteSet(DOMAIN Activity)
  BY ChartCounts DEF Reported
<1>2. \A slot \in DOMAIN Activity : slot % Bucket[range] = 0
  BY <1>1 DEF Buckets
<1>3. range \in Ranges /\ ChartSince \in Int
  BY RowsFound
<1>4. /\ page.plotted \subseteq events /\ page.drawn \in 0..Len(mails)
  <2>1. page \in Pages /\ page.drawn <= Len(mails) /\ page.plotted \subseteq events
    BY DEF OverviewInv, InOrder
  <2>2. page.drawn \in Nat /\ Len(mails) \in Nat
    BY <2>1 DEF Pages, OverviewInv, Mails
  <2> QED BY <2>1, <2>2
<1>5. CASE column = "sent"
  <2>1. IsFiniteSet(there) /\ \A i \in there : mails[i].at \in Int
    BY <1>3, <1>4, RowsFound
  <2>2. \A i \in there : sentIn[i] \notin DOMAIN Activity
    BY <1>2, <1>3, <2>1, KeysMatch
  <2>3. \A slot \in DOMAIN Activity :
            Activity[slot]["sent"] = Cardinality(Marks(itself, Into(there, sentIn, {slot})))
    BY ChartCounts DEF Reported
  <2> HIDE DEF there, sentIn, itself
  <2>4. Into(there, sentIn, DOMAIN Activity) = {}
    BY <2>2 DEF Into
  <2>5. /\ Total(Activity, "sent") \in Nat
        /\ Total(Activity, "sent") <= Cardinality(Into(there, sentIn, DOMAIN Activity))
    BY <1>1, <2>1, <2>3, TotalBetween
  <2> QED BY <1>5, <2>4, <2>5, FS_EmptySet
<1>6. CASE column \in Reported
  <2> DEFINE told == EventsSince(page.plotted, column, ChartSince)
             toldIn == [e \in told |-> DateTrunc(e.at, range)]
             about == [e \in told |-> e.mail]
  <2>1. IsFiniteSet(told) /\ \A e \in told : e.at \in Int
    <3>1. \A set \in SUBSET events, since \in Int :
              /\ IsFiniteSet(EventsSince(set, column, since))
              /\ \A e \in EventsSince(set, column, since) : e.at \in Nat /\ e.at >= since
      BY <1>6, RowsFound
    <3>2. page.plotted \in SUBSET events
      BY <1>4
    <3>3. IsFiniteSet(told) /\ \A e \in told : e.at \in Nat
      BY <1>3, <3>1, <3>2
    <3> HIDE DEF told
    <3> QED BY <3>3
  <2>2. \A e \in told : toldIn[e] \notin DOMAIN Activity
    BY <1>2, <1>3, <2>1, KeysMatch
  <2>3. \A slot \in DOMAIN Activity :
            Activity[slot][column] = Cardinality(Marks(about, Into(told, toldIn, {slot})))
    BY <1>6, ChartCounts
  <2> HIDE DEF told, toldIn, about
  <2>4. Into(told, toldIn, DOMAIN Activity) = {}
    BY <2>2 DEF Into
  <2>5. /\ Total(Activity, column) \in Nat
        /\ Total(Activity, column) <= Cardinality(Into(told, toldIn, DOMAIN Activity))
    BY <1>1, <2>1, <2>3, TotalBetween
  <2> QED BY <2>4, <2>5, FS_EmptySet
<1> QED BY <1>5, <1>6

(* Of two that a domain is beneath, one is beneath the other; a longer one *)
(* beneath the shorter, and two as long as each other are one.             *)
LEMMA Nested ==
    ASSUME DomainAssumption, NEW from \in Senders, NEW d \in Domains, NEW o \in Domains,
           Under(from, d), Under(from, o)
    PROVE  /\ Len(d) \in Nat /\ Len(o) \in Nat /\ Len(d) <= Len(from) /\ Len(from) \in Nat
           /\ Len(o) <= Len(d) => Under(d, o)
           /\ Len(o) = Len(d) => o = d
<1>1. d \in Seq(STRING) /\ o \in Seq(STRING) /\ from \in Seq(STRING)
  BY DEF DomainAssumption
<1>2. /\ Len(d) \in Nat /\ Len(o) \in Nat /\ Len(from) \in Nat
      /\ Len(d) <= Len(from) /\ Len(o) <= Len(from)
  BY <1>1 DEF Under, IsPrefix
<1>3. ASSUME NEW s \in {d, o} PROVE \A i \in 1..Len(s) : s[i] = from[i]
  <2>1. s \in Seq(STRING) /\ Len(s) \in Nat /\ Len(s) <= Len(from)
    BY <1>1, <1>2
  <2>2. SubSeq(s, 1, Len(s)) = SubSeq(from, 1, Len(s))
    BY DEF Under, IsPrefix
  <2> TAKE i \in 1..Len(s)
  <2>3. SubSeq(s, 1, Len(s))[i] = s[i]
    BY <2>1
  <2>4. SubSeq(from, 1, Len(s))[i] = from[i]
    BY <1>1, <1>2, <2>1
  <2> QED BY <2>2, <2>3, <2>4
<1>4. ASSUME Len(o) <= Len(d) PROVE Under(d, o)
  <2>1. \A i \in 1..Len(o) : o[i] = d[i]
    BY <1>2, <1>3, <1>4
  <2>2. SubSeq(o, 1, Len(o)) = [i \in 1..Len(o) |-> o[i]]
    BY <1>1, <1>2
  <2>3. SubSeq(d, 1, Len(o)) = [i \in 1..Len(o) |-> d[i]]
    BY <1>1, <1>2, <1>4
  <2>4. SubSeq(o, 1, Len(o)) = SubSeq(d, 1, Len(o))
    BY <2>1, <2>2, <2>3
  <2> QED BY <1>4, <2>4 DEF Under, IsPrefix
<1>5. ASSUME Len(o) = Len(d) PROVE o = d
  <2>1. \A i \in 1..Len(o) : o[i] = d[i]
    BY <1>2, <1>3, <1>5
  <2> QED BY <1>1, <1>2, <1>5, <2>1
<1> QED BY <1>2, <1>4, <1>5

(* One that is beneath another and not it is longer.                       *)
LEMMA BeneathIsLonger ==
    ASSUME DomainAssumption, NEW d \in Domains, NEW o \in Domains, Under(d, o), d # o
    PROVE  Len(o) < Len(d)
<1>1. d \in Seq(STRING) /\ o \in Seq(STRING) /\ Len(d) \in Nat /\ Len(o) \in Nat
  BY DEF DomainAssumption
<1>2. Len(o) <= Len(d) /\ SubSeq(o, 1, Len(o)) = SubSeq(d, 1, Len(o))
  BY DEF Under, IsPrefix
<1>3. Len(o) # Len(d)
  <2> SUFFICES ASSUME Len(o) = Len(d) PROVE FALSE
    OBVIOUS
  <2>1. SubSeq(o, 1, Len(o)) = o /\ SubSeq(d, 1, Len(d)) = d
    BY <1>1
  <2> QED BY <1>2, <2>1
<1> QED BY <1>1, <1>2, <1>3

(* Of the domains above a sender, one is the longest.                      *)
LEMMA LongestAbove ==
    ASSUME DomainAssumption, NEW from \in Senders, NEW above, above \subseteq Domains,
           above # {}, \A d \in above : Under(from, d)
    PROVE  \E d \in above : \A o \in above : Len(o) <= Len(d)
<1> DEFINE Gap(d) == Len(from) - Len(d)
           S == {Gap(d) : d \in above}
<1>1. \A d \in above : Len(d) \in Nat /\ Len(from) \in Nat /\ Len(d) <= Len(from)
  BY Nested
<1>2. S \subseteq Nat /\ S # {}
  BY <1>1
<1>3. Min(S) \in S /\ \A y \in S : Min(S) <= y
  <2> HIDE DEF S
  <2> QED BY <1>2, Least
<1>4. PICK d \in above : Min(S) = Gap(d)
  BY <1>3
<1>5. ASSUME NEW o \in above PROVE Len(o) <= Len(d)
  <2>1. Gap(o) \in S
    OBVIOUS
  <2>2. Gap(d) <= Gap(o)
    BY <1>3, <1>4, <2>1
  <2> HIDE DEF S
  <2> QED BY <1>1, <2>2
<1> QED BY <1>5

(* Mail that is beneath an added domain is on exactly one page, that of    *)
(* the longest such domain.                                                *)
LEMMA PagesShare == ASSUME DomainAssumption, OverviewInv PROVE PagesShareTheMail
<1> SUFFICES ASSUME NEW i \in DOMAIN mails
             PROVE  LET from == mails[i].from
                        above == {d \in added : Under(from, d)}
                        pages == {d \in added : Covers(ScopeOf(d), from)}
                    IN /\ pages \subseteq above
                       /\ above # {} => /\ Cardinality(pages) = 1
                                        /\ \A d \in pages : \A o \in above : Len(o) <= Len(d)
  BY DEF PagesShareTheMail
<1> DEFINE from == mails[i].from
           above == {d \in added : Under(from, d)}
           pages == {d \in added : Covers(ScopeOf(d), from)}
<1>1. from \in Senders
  <2> DEFINE R == [from : Senders, at : Nat]
  <2>1. mails \in Seq(R)
    BY DEF OverviewInv, Mails
  <2> HIDE DEF R
  <2>2. mails[i] \in R
    BY <2>1
  <2> QED BY <2>2 DEF R
<1>2. \A d \in added : Covers(ScopeOf(d), from) <=>
          Under(from, d) /\ ~\E o \in added : o # d /\ Under(o, d) /\ Under(from, o)
  BY DEF Covers, ScopeOf
<1>3. pages \subseteq above
  BY <1>2
<1>4. above \subseteq Domains /\ \A d \in above : Under(from, d)
  BY DEF OverviewInv
<1>5. \A d \in pages : d \in above /\ \A o \in above : o # d => ~Under(o, d)
  BY <1>2
<1>6. ASSUME NEW d \in above, \A o \in above : o # d => ~Under(o, d) PROVE d \in pages
  BY <1>2, <1>6
<1> HIDE DEF above, pages, from
<1>7. ASSUME NEW d \in pages, NEW o \in above PROVE Len(o) <= Len(d)
  <2>1. Len(d) \in Nat /\ Len(o) \in Nat
    BY <1>1, <1>4, <1>5, Nested
  <2>2. Len(d) <= Len(o) => Under(o, d)
    BY <1>1, <1>4, <1>5, Nested
  <2>3. o = d \/ ~Under(o, d)
    BY <1>5
  <2> QED BY <2>1, <2>2, <2>3
<1>8. ASSUME above # {} PROVE Cardinality(pages) = 1
  <2>1. PICK d \in above : \A o \in above : Len(o) <= Len(d)
    BY <1>1, <1>4, <1>8, LongestAbove
  <2>2. \A o \in above : o # d => ~Under(o, d)
    <3> TAKE o \in above
    <3>1. Len(d) \in Nat /\ Len(o) \in Nat /\ Len(o) <= Len(d)
      BY <1>1, <1>4, <2>1, Nested
    <3>2. Under(o, d) /\ o # d => Len(d) < Len(o)
      BY <1>4, BeneathIsLonger
    <3> QED BY <3>1, <3>2
  <2>3. d \in pages
    BY <1>6, <2>2
  <2>4. \A o \in pages : o = d
    <3> TAKE o \in pages
    <3>1. Len(o) = Len(d)
      <4>1. Len(o) <= Len(d) /\ Len(d) <= Len(o)
        BY <1>5, <1>7, <2>1
      <4>2. Len(o) \in Nat /\ Len(d) \in Nat
        BY <1>1, <1>4, <1>5, Nested
      <4> QED BY <4>1, <4>2
    <3> QED BY <1>1, <1>4, <1>5, <3>1, Nested
  <2>5. pages = {d}
    BY <2>3, <2>4
  <2> QED BY <2>5, FS_Singleton
<1> QED BY <1>3, <1>7, <1>8 DEF above, pages, from

(* So every chart a page shows adds up.                                    *)
LEMMA ChartsAddUp == ASSUME RangeAssumption, OverviewInv PROVE ChartAddsUp
<1> SUFFICES ASSUME page.stage = "shown"
             PROVE  IF Aligned(page.range)
                    THEN /\ SendsAddUp(Activity)
                         /\ \A type \in Reported : ReportsAddUp(Activity, type)
                    ELSE \A column \in Reported \cup {"sent"} : Total(Activity, column) = 0
  BY DEF ChartAddsUp
<1>1. CASE Aligned(page.range)
  BY <1>1, SendsCounted, ReportsCounted
<1>2. CASE ~Aligned(page.range)
  BY <1>2, NothingFound
<1> QED BY <1>1, <1>2

(* What is committed later takes nothing from what a page has seen.        *)
LEMMA RowsStay ==
    ASSUME OverviewInv, page' = page, now' \in Nat, now <= now', mails' \in Mails,
           Len(mails) <= Len(mails'), events \subseteq events'
    PROVE  InOrder'
<1> SUFFICES ASSUME page.stage # "none" PROVE InOrder'
  BY DEF InOrder
<1>1. /\ page \in Pages /\ page.numbersAt <= now /\ page.counted <= Len(mails)
      /\ page.heard \subseteq events
      /\ page.stage \in {"timed", "drawn", "shown"} =>
             page.numbersAt <= page.chartAt /\ page.chartAt <= now
      /\ page.stage \in {"drawn", "shown"} =>
             page.counted <= page.drawn /\ page.drawn <= Len(mails)
      /\ page.stage = "shown" => page.heard \subseteq page.plotted /\ page.plotted \subseteq events
  BY DEF OverviewInv, InOrder
<1>2. /\ page.numbersAt \in Nat /\ page.counted \in Nat /\ page.chartAt \in Nat /\ page.drawn \in Nat
      /\ Len(mails) \in Nat /\ Len(mails') \in Nat /\ now \in Nat
  BY <1>1 DEF Pages, OverviewInv, Mails
<1>3. /\ page.numbersAt <= now' /\ page.counted <= Len(mails') /\ page.heard \subseteq events'
      /\ page.stage \in {"timed", "drawn", "shown"} => page.chartAt <= now'
      /\ page.stage \in {"drawn", "shown"} => page.drawn <= Len(mails')
      /\ page.stage = "shown" => page.plotted \subseteq events'
  BY <1>1, <1>2
<1> QED BY <1>1, <1>3 DEF InOrder

(* Each step of a page sees no less than the one before.                   *)
LEMMA PageInOrder ==
    ASSUME OverviewInv, UNCHANGED <<now, mails, events>>,
           CountSent \/ CountEvents \/ StartChart \/ ChartSends \/ ChartEvents
    PROVE  InOrder'
<1>1. page.stage \in {"opened", "counted", "heard", "timed", "drawn"}
  BY DEF CountSent, CountEvents, StartChart, ChartSends, ChartEvents, PageStep
<1>2. /\ page \in Pages /\ page.numbersAt <= now /\ page.counted <= Len(mails)
      /\ page.heard \subseteq events
      /\ page.stage \in {"timed", "drawn"} =>
             page.numbersAt <= page.chartAt /\ page.chartAt <= now
      /\ page.stage = "drawn" => page.counted <= page.drawn /\ page.drawn <= Len(mails)
  BY <1>1 DEF OverviewInv, InOrder
<1>3. Len(mails) \in Nat /\ now \in Nat /\ events \in SUBSET Events
  BY DEF OverviewInv, Mails
<1>4. CASE CountSent
  <2>1. page' = [page EXCEPT !.stage = "counted", !.counted = Len(mails)]
    BY <1>4 DEF CountSent, PageStep
  <2>2. page' \in Pages
    BY <1>2, <1>3, <2>1 DEF Pages, PageStages
  <2>3. /\ page'.stage = "counted" /\ page'.counted = Len(mails)
        /\ page'.numbersAt = page.numbersAt /\ page'.heard = page.heard
    BY <1>2, <2>1 DEF Pages
  <2> QED BY <1>2, <1>3, <2>2, <2>3 DEF InOrder
<1>5. CASE CountEvents
  <2>1. page' = [page EXCEPT !.stage = "heard", !.heard = events]
    BY <1>5 DEF CountEvents, PageStep
  <2>2. page' \in Pages
    BY <1>2, <1>3, <2>1 DEF Pages, PageStages
  <2>3. /\ page'.stage = "heard" /\ page'.counted = page.counted
        /\ page'.numbersAt = page.numbersAt /\ page'.heard = events
    BY <1>2, <2>1 DEF Pages
  <2> QED BY <1>2, <1>3, <2>2, <2>3 DEF InOrder
<1>6. CASE StartChart
  <2>1. page' = [page EXCEPT !.stage = "timed", !.chartAt = now]
    BY <1>6 DEF StartChart, PageStep
  <2>2. page' \in Pages
    BY <1>2, <1>3, <2>1 DEF Pages, PageStages
  <2>3. /\ page'.stage = "timed" /\ page'.counted = page.counted /\ page'.chartAt = now
        /\ page'.numbersAt = page.numbersAt /\ page'.heard = page.heard
    BY <1>2, <2>1 DEF Pages
  <2> QED BY <1>2, <1>3, <2>2, <2>3 DEF InOrder
<1>7. CASE ChartSends
  <2>1. /\ page' = [page EXCEPT !.stage = "drawn", !.drawn = Len(mails)]
        /\ page.stage = "timed"
    BY <1>7 DEF ChartSends, PageStep
  <2>2. page' \in Pages
    BY <1>2, <1>3, <2>1 DEF Pages, PageStages
  <2>3. /\ page'.stage = "drawn" /\ page'.counted = page.counted /\ page'.chartAt = page.chartAt
        /\ page'.numbersAt = page.numbersAt /\ page'.heard = page.heard
        /\ page'.drawn = Len(mails)
    BY <1>2, <2>1 DEF Pages
  <2> QED BY <1>2, <1>3, <2>1, <2>2, <2>3 DEF InOrder
<1>8. CASE ChartEvents
  <2>1. /\ page' = [page EXCEPT !.stage = "shown", !.plotted = events]
        /\ page.stage = "drawn"
    BY <1>8 DEF ChartEvents, PageStep
  <2>2. page' \in Pages
    BY <1>2, <1>3, <2>1 DEF Pages, PageStages
  <2>3. /\ page'.stage = "shown" /\ page'.counted = page.counted /\ page'.chartAt = page.chartAt
        /\ page'.numbersAt = page.numbersAt /\ page'.heard = page.heard
        /\ page'.drawn = page.drawn /\ page'.plotted = events
    BY <1>2, <2>1 DEF Pages
  <2> QED BY <1>2, <1>3, <2>1, <2>2, <2>3 DEF InOrder
<1> QED BY <1>4, <1>5, <1>6, <1>7, <1>8

(* Whatever is recorded, added, removed or asked for.                      *)
LEMMA OverviewInductive ==
    ASSUME RangeAssumption, DomainAssumption, OverviewInv, [OverviewNext]_overviewVars
    PROVE  OverviewInv'
<1> DEFINE Rows == /\ now \in Nat /\ added \subseteq Domains /\ mails \in Mails
                   /\ events \subseteq Events /\ IsFiniteSet(events)
<1>0. Rows /\ Len(mails) \in Nat
  BY DEF OverviewInv, Mails
<1>1. CASE ClockMoves
  <2>1. now' = now + 1 /\ UNCHANGED <<added, mails, events, page>>
    BY <1>1 DEF ClockMoves
  <2>2. InOrder'
    BY <1>0, <2>1, RowsStay
  <2> QED BY <1>0, <2>1, <2>2 DEF OverviewInv
<1>2. ASSUME NEW from \in Senders, NEW time \in 0..now, RecordSent(from, time)
      PROVE  OverviewInv'
  <2> DEFINE R == [from : Senders, at : Nat]
             sentRow == [from |-> from, at |-> time]
  <2>1. time \in Nat
    BY <1>0
  <2>2. mails \in Seq(R) /\ sentRow \in R /\ mails' = Append(mails, sentRow)
    BY <1>0, <1>2, <2>1 DEF RecordSent, Mails
  <2> HIDE DEF R, sentRow
  <2>3. mails' \in Seq(R) /\ Len(mails) <= Len(mails')
    BY <1>0, <2>2
  <2>4. mails' \in Mails
    BY <2>3 DEF Mails, R
  <2>5. UNCHANGED <<now, added, events, page>>
    BY <1>2 DEF RecordSent
  <2>6. InOrder'
    BY <1>0, <2>3, <2>4, <2>5, RowsStay
  <2> QED BY <1>0, <2>4, <2>5, <2>6 DEF OverviewInv
<1>3. ASSUME NEW i \in DOMAIN mails, NEW type \in Reported, NEW time \in 0..now,
             RecordEvent(i, type, time)
      PROVE  OverviewInv'
  <2>1. i \in Nat /\ time \in Nat
    BY <1>0 DEF Mails
  <2>2. /\ events' = events \cup {[mail |-> i, type |-> type, at |-> time]}
        /\ UNCHANGED <<now, added, mails, page>>
    BY <1>3 DEF RecordEvent
  <2>3. events' \subseteq Events /\ events \subseteq events'
    BY <1>0, <2>1, <2>2 DEF Events
  <2>4. IsFiniteSet(events')
    BY <1>0, <2>2, FS_AddElement
  <2>5. InOrder'
    BY <1>0, <2>2, <2>3, RowsStay
  <2> QED BY <1>0, <2>2, <2>3, <2>4, <2>5 DEF OverviewInv
<1>4. ASSUME NEW domain \in Domains, AddIdentity(domain) \/ RemoveIdentity(domain)
      PROVE  OverviewInv'
  <2>1. added' \subseteq Domains /\ UNCHANGED <<now, mails, events, page>>
    BY <1>0, <1>4 DEF AddIdentity, RemoveIdentity
  <2>2. InOrder'
    BY <1>0, <2>1, RowsStay
  <2> QED BY <1>0, <2>1, <2>2 DEF OverviewInv
<1>5. ASSUME NEW range \in Ranges, NEW scope \in {WholeProject} \cup {ScopeOf(d) : d \in added},
             Open(scope, range)
      PROVE  OverviewInv'
  <2>1. scope \in Scopes
    <3>1. \A d \in added : d \in Seq(STRING)
      BY <1>0 DEF DomainAssumption
    <3>2. <<>> \in Seq(STRING)
      OBVIOUS
    <3>3. \A d \in added : ScopeOf(d) \in Scopes
      BY <1>0, <3>1 DEF ScopeOf, Scopes
    <3>4. WholeProject \in Scopes
      BY <3>2 DEF WholeProject, Scopes
    <3> QED BY <3>3, <3>4
  <2>2. /\ page' = [stage |-> "opened", scope |-> scope, range |-> range,
                    numbersAt |-> now, counted |-> 0, heard |-> {},
                    chartAt |-> now, drawn |-> 0, plotted |-> {}]
        /\ UNCHANGED <<now, added, mails, events>>
    BY <1>5 DEF Open
  <2>3. page' \in Pages
    BY <1>0, <2>1, <2>2 DEF Pages, PageStages
  <2>4. InOrder'
    BY <1>0, <2>2, <2>3 DEF InOrder
  <2> QED BY <1>0, <2>2, <2>4 DEF OverviewInv
<1>6. CASE CountSent \/ CountEvents \/ StartChart \/ ChartSends \/ ChartEvents
  <2>1. UNCHANGED <<now, added, mails, events>>
    BY <1>6 DEF CountSent, CountEvents, StartChart, ChartSends, ChartEvents, PageStep
  <2>2. InOrder'
    BY <1>6, <2>1, PageInOrder
  <2> QED BY <1>0, <2>1, <2>2 DEF OverviewInv
<1>7. CASE UNCHANGED overviewVars
  <2>1. UNCHANGED <<now, added, mails, events, page>>
    BY <1>7 DEF overviewVars
  <2> QED BY <1>0, <2>1 DEF OverviewInv, InOrder
<1> QED BY <1>1, <1>2, <1>3, <1>4, <1>5, <1>6, <1>7 DEF OverviewNext

(* The numbers of a project's pages agree: every mail of an added domain   *)
(* is on one domain's page, and a chart adds up to the numbers beside it,  *)
(* but for what came or left while the page was put together; or, in a     *)
(* zone that shifts the buckets, reads zero (analytics.py,                 *)
(* domain_scope.py).                                                       *)
THEOREM PagesAgree == OverviewSpec => []NumbersAgree
<1>1. OverviewInit => OverviewInv
  <2> SUFFICES ASSUME OverviewInit PROVE OverviewInv
    OBVIOUS
  <2>1. mails \in Mails
    BY DEF OverviewInit, Mails
  <2>2. IsFiniteSet(events)
    BY FS_EmptySet DEF OverviewInit
  <2> QED BY <2>1, <2>2 DEF OverviewInit, OverviewInv, InOrder
<1>2. OverviewInv => NumbersAgree
  BY RangeAssumption, DomainAssumption, PagesShare, ChartsAddUp DEF NumbersAgree
<1>3. OverviewInv /\ [OverviewNext]_overviewVars => OverviewInv'
  BY RangeAssumption, DomainAssumption, OverviewInductive
<1> QED BY <1>1, <1>2, <1>3, PTL DEF OverviewSpec
=============================================================================
