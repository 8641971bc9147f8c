--------------------------- MODULE ReceivingProofs ---------------------------
(***************************************************************************)
(* What the rows say of receiving, for any projects, domains and requests  *)
(* and any failures.                                                       *)
(*                                                                         *)
(* OneReceiver is not inductive: it says nothing of a claim that is        *)
(* flushed and not committed.  Claims does: nobody receives for a claimed  *)
(* domain, and nobody else has claimed it.  Placed says which requests are *)
(* setups, since only they make a row receive.  MailFlows and              *)
(* NothingStranded follow from a second invariant, Strong, that says of    *)
(* every place of a request what holds on the way.                         *)
(***************************************************************************)
EXTENDS Receiving, TLAPS

Open(r) == op[r] # NoOp
Claiming(r) == Open(r) /\ op[r].kind = "start"

(* A request has something in hand until it has ended, and what removes is *)
(* not a setup.                                                            *)
Placed ==
    \A r \in Request : /\ at[r] \in Ended <=> op[r] = NoOp
                       /\ at[r] \in Removing => op[r].kind # "start"

Claims ==
    \A r \in Request : Claiming(r) =>
        \A d \in op[r].wrote :
            /\ \A q \in Project \ {op[r].project} : <<q, d>> \notin on
            /\ \A g \in Request \ {r} : Claiming(g) => d \notin op[g].wrote

IInv == TypeOK /\ Placed /\ OneReceiver /\ Claims
-----------------------------------------------------------------------------
(* The calls of provision_inbound are about the shared resources.          *)
LEMMA Calls ==
    ASSUME NEW i \in 0..3
    PROVE  Build[i + 1] \in Resource /\ Drop[i + 1] \in Resource
<1>1. i = 0 \/ i = 1 \/ i = 2 \/ i = 3
  OBVIOUS
<1>2. QED  BY <1>1 DEF Build, Drop, Resource

(* A request that has not ended has an operation in hand.                  *)
LEMMA InHand ==
    ASSUME TypeOK, Placed, NEW r \in Request, at[r] \notin Ended
    PROVE  op[r] \in Op /\ op[r].step \in 0..3 /\ Open(r)
BY DEF TypeOK, Placed, Open, Op

(* A session that closes without a commit keeps the types and the places.  *)
LEMMA LeaveTyped ==
    ASSUME TypeOK, Placed, NEW r \in Request, NEW place \in Ended, Leave(r, place),
           failures' \in 0..MaxFailures, alone' \in [Request -> BOOLEAN],
           marks' \subseteq {"overlap", "torn", "forgot", "swallowed"}
    PROVE  TypeOK' /\ Placed'
<1>1. TypeOK'
  BY DEF TypeOK, Leave, Go, dbVars, awsVars, Places, Ended
<1>2. Placed'
  BY DEF TypeOK, Placed, Leave, Go, Ended, Removing
<1>3. QED  BY <1>1, <1>2

(* So does a step to another place, with the operation changed or not and  *)
(* the rest of the state left to its types.                                *)
LEMMA StepTyped ==
    ASSUME TypeOK, Placed, NEW r \in Request, at[r] \notin Ended,
           NEW place \in Places \ Ended, Go(r, place),
           NEW o \in Op, op' = [op EXCEPT ![r] = o],
           place \in Removing => o.kind # "start",
           UNCHANGED <<connected, names, on, mail, starts, alone>>,
           aws' \subseteq Resource, ruleSet' \in RuleSets, rules' \subseteq Domain,
           failures' \in 0..MaxFailures,
           marks' \subseteq {"overlap", "torn", "forgot", "swallowed"}
    PROVE  TypeOK' /\ Placed'
<1>1. TypeOK'
  BY DEF TypeOK, Go
<1>2. Placed'
  BY NoOpAssumption DEF TypeOK, Placed, Go
<1>3. QED  BY <1>1, <1>2

(* Steps that neither claim a domain nor make a row receive leave both     *)
(* facts as they are.                                                      *)
LEMMA KeepClaims ==
    ASSUME OneReceiver, Claims, on' \subseteq on,
           \A g \in Request : Claiming(g)' =>
              /\ Claiming(g)
              /\ op'[g].wrote \subseteq op[g].wrote
              /\ op'[g].project = op[g].project
    PROVE  OneReceiver' /\ Claims'
<1>1. OneReceiver'
  BY DEF OneReceiver
<1>2. Claims'
  BY DEF Claims
<1>3. QED  BY <1>1, <1>2

-----------------------------------------------------------------------------
(* No domain receives at first.                                            *)
LEMMA InitInv == Init => IInv
<1> SUFFICES ASSUME Init PROVE IInv
  OBVIOUS
<1>1. TypeOK
  <2>1. alone \in [Request -> BOOLEAN]
    <3>1. alone = [r \in Request |-> FALSE]
      BY DEF Init
    <3>2. QED  BY <3>1, Zenon
  <2>2. op \in [Request -> Op \cup {NoOp}] /\ at \in [Request -> Places]
    BY DEF Init, Places, Ended
  <2>3. names \in [Project -> SUBSET Resource]
    BY DEF Init
  <2>4. mail \in BOOLEAN
    BY Zenon DEF Init
  <2>5. starts \in 0..MaxStarts /\ failures \in 0..MaxFailures
    BY BoundAssumption DEF Init
  <2>6. /\ connected \subseteq Project /\ on \subseteq Project \X Domain
        /\ aws \subseteq Resource /\ rules \subseteq Domain /\ ruleSet \in RuleSets
        /\ marks \subseteq {"overlap", "torn", "forgot", "swallowed"}
    BY DEF Init, RuleSets
  <2>7. QED  BY <2>1, <2>2, <2>3, <2>4, <2>5, <2>6, Zenon DEF TypeOK
<1>2. Placed
  BY DEF Init, Placed, Ended, Removing
<1>3. OneReceiver /\ Claims
  BY DEF Init, OneReceiver, Claims, Claiming, Open
<1>4. QED  BY <1>1, <1>2, <1>3 DEF IInv

-----------------------------------------------------------------------------
(* The types and the places, action by action.                             *)

LEMMA BeginTyped ==
    ASSUME TypeOK, Placed, NEW r \in Request, Requests(r)
    PROVE  TypeOK' /\ Placed'
<1> PICK p \in Project, d \in Domain : Start(r, p, d) \/ Stop(r, p, d) \/ Disconnect(r, p, d)
  BY DEF Requests
<1>1. ASSUME NEW k \in {"start", "stop", "disconnect"}, NEW domains \in SUBSET Domain,
             NEW place \in Places \ Ended, Begin(r, k, p, d, domains), Go(r, place),
             place \in Removing => k # "start"
      PROVE  TypeOK' /\ Placed'
  <2> DEFINE o == [kind |-> k, project |-> p, domain |-> d, was |-> <<p, d>> \in on,
                   todo |-> domains, saw |-> names[p], held |-> names[p],
                   wrote |-> {}, step |-> 0, listed |-> FALSE]
  <2>1. names[p] \in SUBSET Resource
    BY DEF TypeOK
  <2>2. (<<p, d>> \in on) \in BOOLEAN
    OBVIOUS
  <2>3. o \in Op
    BY <2>1, <2>2 DEF Op
  <2>4. op' = [op EXCEPT ![r] = o] /\ at' = [at EXCEPT ![r] = place]
    BY <1>1 DEF Begin, Go
  <2> HIDE DEF o
  <2>5. starts' \in 0..MaxStarts
    BY <1>1, BoundAssumption DEF TypeOK, Begin
  <2>6. alone' \in [Request -> BOOLEAN]
    BY <1>1 DEF Begin
  <2>7. marks' \subseteq {"overlap", "torn", "forgot", "swallowed"}
    BY <1>1 DEF TypeOK, Begin
  <2>8. TypeOK'
    BY <1>1, <2>3, <2>4, <2>5, <2>6, <2>7 DEF TypeOK, Begin, dbVars, awsVars
  <2>9. o.kind = k
    BY DEF o
  <2>10. Placed'
    BY <1>1, <2>3, <2>4, <2>9, NoOpAssumption DEF TypeOK, Placed
  <2>11. QED  BY <2>8, <2>10
<1>2. CASE Start(r, p, d)
  BY <1>1, <1>2 DEF Start, Places, Ended, Removing, AtRule
<1>3. CASE Stop(r, p, d)
  BY <1>1, <1>3 DEF Stop, Places, Ended, Removing, AtRule
<1>4. CASE Disconnect(r, p, d)
  <2> DEFINE domains == {x \in Domain : <<p, x>> \in on}
             place == IF domains # {} THEN "unruling"
                      ELSE IF Enabled(names[p]) THEN "sharing" ELSE "committing"
  <2>1. Begin(r, "disconnect", p, d, domains) /\ Go(r, place)
    BY <1>4 DEF Disconnect
  <2>2. place \in Places \ Ended /\ domains \in SUBSET Domain
    BY DEF Places, Ended, Removing, AtRule
  <2>3. QED  BY <1>1, <2>1, <2>2
<1>5. QED  BY <1>2, <1>3, <1>4

(* One that ends has nothing in hand.                                      *)
LEMMA EndTyped ==
    ASSUME TypeOK, Placed, NEW r \in Request, Ends(r)
    PROVE  TypeOK' /\ Placed'
<1>1. CASE Commit(r)
  <2>1. at[r] \notin Ended
    BY <1>1 DEF Commit, Ended
  <2>2. /\ op[r] \in Op /\ op[r].project \in Project /\ op[r].wrote \subseteq Domain
        /\ op[r].saw \subseteq Resource /\ op[r].held \subseteq Resource
    BY <2>1, InHand DEF Op
  <2>3. Saved(r) \subseteq Resource
    BY <2>2 DEF Saved, TypeOK
  <2>4. Wrote(r) \subseteq Project \X Domain
    BY <2>2, NoOpAssumption DEF Wrote
  <2>5. TypeOK'
    BY <1>1, <2>2, <2>3, <2>4 DEF Commit, TypeOK, Go, awsVars, Places, Ended
  <2>6. Placed'
    BY <1>1 DEF TypeOK, Placed, Commit, Go, Ended, Removing
  <2>7. QED  BY <2>5, <2>6
<1>2. CASE RowGone(r) \/ DeadlockBroken(r)
  BY <1>2, LeaveTyped DEF RowGone, DeadlockBroken, TypeOK, Ended
<1>3. CASE AwsRefuses(r) \/ Dies(r)
  <2>1. failures' \in 0..MaxFailures
    BY <1>3, BoundAssumption DEF AwsRefuses, Dies, TypeOK
  <2>2. alone' \in [Request -> BOOLEAN]
    BY <1>3 DEF AwsRefuses, Dies, TypeOK
  <2>3. marks' \subseteq {"overlap", "torn", "forgot", "swallowed"}
    BY <1>3 DEF AwsRefuses, Dies, TypeOK
  <2>4. QED  BY <1>3, <2>1, <2>2, <2>3, LeaveTyped DEF AwsRefuses, Dies, Ended
<1>4. QED  BY <1>1, <1>2, <1>3 DEF Ends

(* A setup goes from one call to the next.                                 *)
LEMMA SetupTyped ==
    ASSUME TypeOK, Placed, NEW r \in Request, Setup(r)
    PROVE  TypeOK' /\ Placed'
<1> USE DEF Places, Ended, AtRule, Removing
<1>1. at[r] \notin Ended
  BY DEF Setup, CheckTaken, Claim, Provision, Describe, CreateSet, PutRule, Activate
<1>2. op[r] \in Op /\ op[r].step \in 0..3 /\ op[r].domain \in Domain
  BY <1>1, InHand DEF Op
<1>3. ASSUME NEW place \in Places \ Ended, place \notin Removing, Go(r, place), UNCHANGED op
      PROVE  op' = [op EXCEPT ![r] = op[r]]
  BY <1>3 DEF TypeOK
<1>4. /\ aws \subseteq Resource /\ ruleSet \in RuleSets /\ rules \subseteq Domain
      /\ failures \in 0..MaxFailures /\ alone \in [Request -> BOOLEAN]
      /\ marks \subseteq {"overlap", "torn", "forgot", "swallowed"}
  BY DEF TypeOK
<1>5. ASSUME Leave(r, "idle") \/ Leave(r, "refused"), UNCHANGED <<failures, alone, marks>>
      PROVE  TypeOK' /\ Placed'
  BY <1>4, <1>5, LeaveTyped
<1>6. CASE CheckTaken(r)
  BY <1>1, <1>2, <1>3, <1>4, <1>5, <1>6, StepTyped
     DEF CheckTaken, Taken, Go, dbVars, awsVars
<1>7. CASE Claim(r)
  <2>1. CASE Taken(r)
    BY <1>5, <2>1 DEF Taken
  <2>2. CASE ~Taken(r)
    <3> DEFINE o == [op[r] EXCEPT !.wrote = IF op[r].was THEN {} ELSE {op[r].domain}]
    <3>1. o \in Op
      BY <1>2 DEF Op
    <3>2. op' = [op EXCEPT ![r] = o] /\ Go(r, "building")
          /\ UNCHANGED <<dbVars, awsVars, starts, failures, alone, marks>>
      BY <1>7, <2>2 DEF Claim
    <3> DEFINE place == "building"
    <3>3. place \in Places \ Ended /\ place \notin Removing /\ Go(r, place)
      BY <3>2
    <3>4. UNCHANGED <<connected, names, on, aws, mail, ruleSet, rules, starts, failures,
                      alone, marks>>
      BY <3>2 DEF dbVars, awsVars
    <3> HIDE DEF o, place
    <3>5. QED  BY <1>1, <1>4, <3>1, <3>2, <3>3, <3>4, StepTyped
  <2>3. QED  BY <2>1, <2>2
<1>8. CASE Provision(r)
  <2>1. CASE Leave(r, "refused")
    BY <1>5, <1>8, <2>1 DEF Provision
  <2>2. CASE ~Leave(r, "refused")
    <3> DEFINE made == Build[op[r].step + 1]
               done == op[r].step = 3
               o == [op[r] EXCEPT !.step = Ahead(op[r]),
                                  !.held = IF done THEN Resource ELSE @]
               place == IF done THEN "describing" ELSE "building"
    <3>1. Ahead(op[r]) \in 0..3
      BY <1>2 DEF Ahead
    <3>2. o \in Op
      BY <1>2, <3>1 DEF Op
    <3>3. /\ op' = [op EXCEPT ![r] = o] /\ Go(r, place) /\ aws' = aws \cup {made}
          /\ UNCHANGED <<dbVars, mail, ruleSet, rules, starts, failures, alone, marks>>
      BY <1>8, <2>2 DEF Provision
    <3>4. made \in Resource
      BY <1>2, Calls
    <3>5. place \in Places \ Ended /\ place \notin Removing
      OBVIOUS
    <3> HIDE DEF o, place, made
    <3>6. QED  BY <1>1, <1>4, <3>2, <3>3, <3>4, <3>5, StepTyped DEF dbVars
  <2>3. QED  BY <2>1, <2>2
<1>9. CASE Describe(r)
  <2> DEFINE active == ruleSet \in {"ours", "theirs"}
             o == [op[r] EXCEPT !.listed = active /\ op[r].domain \in rules]
             place == IF active THEN "putting" ELSE "creating"
  <2>1. (active /\ op[r].domain \in rules) \in BOOLEAN
    OBVIOUS
  <2>2. o \in Op
    BY <1>2, <2>1 DEF Op
  <2>3. /\ op' = [op EXCEPT ![r] = o] /\ Go(r, place)
        /\ UNCHANGED <<dbVars, awsVars, starts, failures, alone, marks>>
    BY <1>9 DEF Describe
  <2>4. place \in Places \ Ended /\ place \notin Removing
    OBVIOUS
  <2> HIDE DEF o, place
  <2>5. QED  BY <1>1, <1>4, <2>2, <2>3, <2>4, StepTyped DEF dbVars, awsVars
<1>10. CASE CreateSet(r)
  BY <1>1, <1>2, <1>3, <1>4, <1>10, StepTyped DEF CreateSet, RuleSets, dbVars
<1>11. CASE PutRule(r)
  <2>1. CASE Leave(r, "refused")
    BY <1>5, <1>11, <2>1 DEF PutRule
  <2>2. CASE ~Leave(r, "refused")
    BY <1>1, <1>2, <1>3, <1>4, <1>11, <2>2, StepTyped DEF PutRule, dbVars
  <2>3. QED  BY <2>1, <2>2
<1>12. CASE Activate(r)
  <2>1. CASE Leave(r, "refused")
    BY <1>5, <1>12, <2>1 DEF Activate
  <2>2. CASE ~Leave(r, "refused")
    BY <1>1, <1>2, <1>3, <1>4, <1>12, <2>2, StepTyped DEF Activate, RuleSets, dbVars
  <2>3. QED  BY <2>1, <2>2
<1>13. QED  BY <1>6, <1>7, <1>8, <1>9, <1>10, <1>11, <1>12 DEF Setup

(* So does a teardown.                                                     *)
LEMMA TeardownTyped ==
    ASSUME TypeOK, Placed, NEW r \in Request, Teardown(r)
    PROVE  TypeOK' /\ Placed'
<1> USE DEF Places, Ended, AtRule, Removing
<1>1. at[r] \notin Ended
  BY DEF Teardown, AskActive, ClearRow, CountHere, CountOthers, DeleteRule, Inspect,
         Deactivate, DeleteSet, Remove
<1>2. op[r] \in Op /\ op[r].step \in 0..3 /\ op[r].domain \in Domain
      /\ op[r].todo \subseteq Domain /\ op[r].held \subseteq Resource
      /\ op[r].wrote \subseteq Domain
  BY <1>1, InHand DEF Op
<1>3. op[r].kind # "start"
  BY DEF Placed, Teardown, AskActive, ClearRow, CountHere, CountOthers, DeleteRule, Inspect,
         Deactivate, DeleteSet, Remove
<1>4. ASSUME UNCHANGED op
      PROVE  op' = [op EXCEPT ![r] = op[r]]
  BY <1>4 DEF TypeOK
<1>5. /\ aws \subseteq Resource /\ ruleSet \in RuleSets /\ rules \subseteq Domain
      /\ failures \in 0..MaxFailures
      /\ marks \subseteq {"overlap", "torn", "forgot", "swallowed"}
  BY DEF TypeOK
<1>6. ASSUME NEW works \in BOOLEAN, Tolerates(works)
      PROVE  /\ failures' \in 0..MaxFailures
             /\ marks' \subseteq {"overlap", "torn", "forgot", "swallowed"}
  <2>1. CASE UNCHANGED <<failures, marks>>
    BY <1>5, <2>1
  <2>2. CASE /\ failures < MaxFailures
             /\ failures' = failures + 1
             /\ marks' = marks \cup {"swallowed"}
    BY <1>5, <2>2, BoundAssumption
  <2>3. QED  BY <1>6, <2>1, <2>2, Zenon DEF Tolerates
<1>7. ASSUME NEW o \in Op
      PROVE  Onwards(o) \in Places \ Ended
  BY DEF Onwards
<1>8. CASE AskActive(r)
  <2> DEFINE place == IF ruleSet = "ours" THEN "deactivating" ELSE "deleting"
  <2>1. place \in Places \ Ended
    OBVIOUS
  <2> HIDE DEF place
  <2>2. QED  BY <1>1, <1>2, <1>3, <1>4, <1>5, <1>8, <2>1, StepTyped
             DEF AskActive, place, dbVars, awsVars
<1>9. CASE ClearRow(r)
  <2> DEFINE o == [op[r] EXCEPT !.wrote = @ \cup {op[r].domain},
                                !.todo = @ \ {op[r].domain}]
  <2>1. o \in Op /\ o.kind = op[r].kind
    BY <1>2 DEF Op
  <2>2. op' = [op EXCEPT ![r] = o] /\ Go(r, "counting")
        /\ UNCHANGED <<dbVars, awsVars, starts, failures, alone, marks>>
    BY <1>9 DEF ClearRow
  <2> HIDE DEF o
  <2>3. QED  BY <1>1, <1>3, <1>5, <2>1, <2>2, StepTyped DEF dbVars, awsVars
<1>10. CASE CountHere(r)
  <2> DEFINE place == IF ReceivingHere(r) = {} /\ op[r].held # {} THEN "sharing"
                      ELSE Onwards(op[r])
  <2>1. place \in Places \ Ended /\ Go(r, place)
    BY <1>2, <1>7, <1>10 DEF CountHere
  <2> HIDE DEF place
  <2>2. QED  BY <1>1, <1>2, <1>3, <1>4, <1>5, <1>10, <2>1, StepTyped
             DEF CountHere, dbVars, awsVars
<1>11. CASE CountOthers(r)
  <2> DEFINE shared == OtherReceivers(r) # {}
             o == IF shared THEN [op[r] EXCEPT !.held = {}] ELSE [op[r] EXCEPT !.step = 0]
             place == IF shared THEN Onwards(o) ELSE "dropping"
  <2>1. o \in Op /\ o.kind = op[r].kind
    BY <1>2 DEF Op
  <2>2. op' = [op EXCEPT ![r] = o] /\ Go(r, place)
        /\ UNCHANGED <<dbVars, awsVars, starts, failures, alone, marks>>
    BY <1>11 DEF CountOthers
  <2>3. place \in Places \ Ended
    BY <1>7, <2>1
  <2> HIDE DEF o, place
  <2>4. QED  BY <1>1, <1>3, <1>5, <2>1, <2>2, <2>3, StepTyped DEF dbVars, awsVars
<1>12. ASSUME NEW works \in BOOLEAN, NEW d \in Domain, DeleteRule(r, d, works)
       PROVE  TypeOK' /\ Placed'
  <2> DEFINE o == [op[r] EXCEPT !.domain = d]
             place == IF ruleSet = "theirs" THEN "clearing" ELSE "inspecting"
  <2>1. o \in Op /\ o.kind = op[r].kind
    BY <1>2 DEF Op
  <2>2. /\ op' = [op EXCEPT ![r] = o] /\ Go(r, place) /\ Tolerates(works)
        /\ rules' \subseteq rules /\ UNCHANGED <<dbVars, aws, mail, ruleSet, starts, alone>>
    BY <1>12 DEF DeleteRule
  <2>3. place \in Places \ Ended
    OBVIOUS
  <2> HIDE DEF o, place
  <2>4. QED  BY <1>1, <1>3, <1>5, <1>6, <2>1, <2>2, <2>3, StepTyped DEF dbVars
<1>13. ASSUME NEW works \in BOOLEAN, Inspect(r, works)
       PROVE  TypeOK' /\ Placed'
  <2> DEFINE place == IF works /\ rules = {} /\ ruleSet # "none" THEN "retiring"
                      ELSE "clearing"
  <2>1. place \in Places \ Ended /\ Go(r, place)
    BY <1>13 DEF Inspect
  <2> HIDE DEF place
  <2>2. QED  BY <1>1, <1>2, <1>3, <1>4, <1>5, <1>6, <1>13, <2>1, StepTyped
             DEF Inspect, dbVars, awsVars
<1>14. ASSUME NEW works \in BOOLEAN, Deactivate(r, works)
       PROVE  TypeOK' /\ Placed'
  <2> DEFINE place == "deleting"
  <2>1. place \in Places \ Ended /\ Go(r, place)
    BY <1>14 DEF Deactivate
  <2>2. /\ ruleSet' \in RuleSets /\ rules' \subseteq Domain /\ Tolerates(works)
        /\ UNCHANGED <<dbVars, aws, mail, op, starts, alone>>
    BY <1>5, <1>14 DEF Deactivate, RuleSets
  <2> HIDE DEF place
  <2>3. QED  BY <1>1, <1>2, <1>3, <1>4, <1>5, <1>6, <2>1, <2>2, StepTyped DEF dbVars
<1>15. ASSUME NEW works \in BOOLEAN, DeleteSet(r, works)
       PROVE  TypeOK' /\ Placed'
  <2> DEFINE place == "clearing"
  <2>1. place \in Places \ Ended /\ Go(r, place)
    BY <1>15 DEF DeleteSet
  <2>2. /\ ruleSet' \in RuleSets /\ rules' \subseteq Domain /\ Tolerates(works)
        /\ UNCHANGED <<dbVars, aws, mail, op, starts, alone>>
    BY <1>5, <1>15 DEF DeleteSet, RuleSets
  <2> HIDE DEF place
  <2>3. QED  BY <1>1, <1>2, <1>3, <1>4, <1>5, <1>6, <2>1, <2>2, StepTyped DEF dbVars
<1>16. ASSUME NEW works \in BOOLEAN, Remove(r, works)
       PROVE  TypeOK' /\ Placed'
  <2> DEFINE what == Drop[op[r].step + 1]
             goes == works /\ what \in op[r].held /\ ~(what = "bucket" /\ mail)
             o == [op[r] EXCEPT !.step = Ahead(op[r]),
                      !.held = IF what # "bucket" THEN @
                               ELSE IF goes THEN {} ELSE @ \cap {"bucket"}]
             place == IF what = "bucket" THEN Onwards(o) ELSE "dropping"
  <2>1. Ahead(op[r]) \in 0..3
    BY <1>2 DEF Ahead
  <2>2. o \in Op /\ o.kind = op[r].kind
    BY <1>2, <2>1 DEF Op
  <2>3. /\ op' = [op EXCEPT ![r] = o] /\ Go(r, place) /\ Tolerates(works)
        /\ aws' \subseteq aws /\ UNCHANGED <<dbVars, mail, ruleSet, rules, starts, alone>>
    BY <1>16 DEF Remove
  <2>4. place \in Places \ Ended
    BY <1>7, <2>2
  <2> HIDE DEF o, place
  <2>5. QED  BY <1>1, <1>3, <1>5, <1>6, <2>2, <2>3, <2>4, StepTyped DEF dbVars
<1>17. QED  BY <1>8, <1>9, <1>10, <1>11, <1>12, <1>13, <1>14, <1>15, <1>16 DEF Teardown

(* Every step keeps the types.                                             *)
LEMMA NextTyped == TypeOK /\ Placed /\ [Next]_vars => TypeOK' /\ Placed'
<1> SUFFICES ASSUME TypeOK, Placed, [Next]_vars PROVE TypeOK' /\ Placed'
  OBVIOUS
<1>1. CASE UNCHANGED vars
  BY <1>1 DEF TypeOK, Placed, vars
<1>2. CASE MailArrives \/ MailExpires
  BY <1>2 DEF MailArrives, MailExpires, TypeOK, Placed, dbVars
<1>3. QED  BY <1>1, <1>2, BeginTyped, EndTyped, SetupTyped, TeardownTyped DEF Next

-----------------------------------------------------------------------------
(* The claims, action by action.                                           *)

(* A session that closes without a commit takes its claim with it.         *)
LEMMA LeaveClaims ==
    ASSUME IInv, NEW r \in Request, NEW place, Leave(r, place)
    PROVE  OneReceiver' /\ Claims'
<1>1. \A g \in Request : g # r => op'[g] = op[g]
  BY DEF IInv, TypeOK, Leave
<1>2. op'[r] = NoOp
  BY DEF IInv, TypeOK, Leave
<1>3. on' = on
  BY DEF Leave, dbVars
<1>4. QED  BY <1>1, <1>2, <1>3, KeepClaims DEF IInv, Claiming, Open

(* A step of a setup that writes no row, or any step of what removes.      *)
LEMMA StepClaims ==
    ASSUME IInv, NEW r \in Request, at[r] \notin Ended, on' = on,
           NEW o \in Op, op' = [op EXCEPT ![r] = o],
           o.kind = op[r].kind, o.project = op[r].project,
           o.kind = "start" => o.wrote = op[r].wrote
    PROVE  OneReceiver' /\ Claims'
<1>1. \A g \in Request : g # r => op'[g] = op[g]
  BY DEF IInv, TypeOK
<1>2. op'[r] = o /\ Open(r)
  BY InHand DEF IInv, TypeOK
<1>3. QED  BY <1>1, <1>2, KeepClaims DEF IInv, Claiming, Open

(* A request begins without a claim.                                       *)
LEMMA BeginClaims ==
    ASSUME IInv, NEW r \in Request, Requests(r)
    PROVE  OneReceiver' /\ Claims'
<1>1. on' = on /\ \A g \in Request \ {r} : op'[g] = op[g]
  BY DEF IInv, TypeOK, Requests, Start, Stop, Disconnect, Begin, dbVars
<1>2. op'[r].wrote = {}
  BY DEF IInv, TypeOK, Requests, Start, Stop, Disconnect, Begin
<1>3. OneReceiver'
  BY <1>1 DEF IInv, OneReceiver
<1>4. Claims'
  BY <1>1, <1>2 DEF IInv, Claims, Claiming, Open
<1>5. QED  BY <1>3, <1>4

(* One that ends gives its claim up or commits it.                         *)
LEMMA EndClaims ==
    ASSUME IInv, NEW r \in Request, Ends(r)
    PROVE  OneReceiver' /\ Claims'
<1>1. CASE Commit(r)
  <2>1. at[r] \notin Ended
    BY <1>1 DEF Commit, Ended
  <2>2. Open(r) /\ op[r] \in Op
    BY <2>1, InHand DEF IInv
  <2>3. op'[r] = NoOp /\ \A g \in Request \ {r} : op'[g] = op[g]
    BY <1>1 DEF IInv, TypeOK, Commit
  <2>4. CASE op[r].kind # "start"
    <3>1. on' \subseteq on
      BY <1>1, <2>4 DEF Commit
    <3>2. QED  BY <2>3, <3>1, KeepClaims DEF IInv, Claiming, Open
  <2>5. CASE op[r].kind = "start"
    <3> DEFINE p == op[r].project
    <3>1. on' = on \cup {<<p, d>> : d \in op[r].wrote} /\ on \subseteq Project \X Domain
      BY <1>1, <2>2, <2>5 DEF Commit, Wrote, Open, IInv, TypeOK
    <3>2. p \in Project /\ op[r].wrote \subseteq Domain
      BY <2>2 DEF Op
    <3>3. \A d \in op[r].wrote : \A id \in on : id[2] = d => id = <<p, d>>
      BY <2>2, <2>5, <3>1, <3>2 DEF IInv, Claims, Claiming
    <3>4. OneReceiver'
      BY <3>1, <3>2, <3>3 DEF IInv, OneReceiver
    <3>5. ASSUME NEW g \in Request, Claiming(g)', NEW d \in op'[g].wrote
          PROVE  /\ \A q \in Project \ {op'[g].project} : <<q, d>> \notin on'
                 /\ \A h \in Request \ {g} : Claiming(h)' => d \notin op'[h].wrote
      <4>1. g # r /\ op'[g] = op[g] /\ Claiming(g)
        BY <2>3, <3>5 DEF Claiming, Open
      <4>2. d \notin op[r].wrote
        BY <2>2, <2>5, <3>5, <4>1 DEF IInv, Claims, Claiming
      <4>3. \A q \in Project \ {op[g].project} : <<q, d>> \notin on'
        BY <3>1, <3>5, <4>1, <4>2 DEF IInv, Claims
      <4>4. \A h \in Request \ {g} : Claiming(h)' => h # r /\ Claiming(h) /\ op'[h] = op[h]
        BY <2>3 DEF Claiming, Open
      <4>5. QED  BY <3>5, <4>1, <4>3, <4>4 DEF IInv, Claims
    <3>6. QED  BY <3>4, <3>5 DEF Claims
  <2>6. QED  BY <2>4, <2>5
<1>2. CASE RowGone(r) \/ AwsRefuses(r) \/ Dies(r) \/ DeadlockBroken(r)
  BY <1>2, LeaveClaims DEF RowGone, AwsRefuses, Dies, DeadlockBroken
<1>3. QED  BY <1>1, <1>2 DEF Ends

(* The unique index at work: nobody else has written a row of the domain,  *)
(* and nobody else receives for it.                                        *)
LEMMA ClaimClaims ==
    ASSUME IInv, NEW r \in Request, Claim(r)
    PROVE  OneReceiver' /\ Claims'
<1> DEFINE d == op[r].domain
<1>1. CASE Taken(r)
  BY <1>1, LeaveClaims DEF Taken
<1>2. CASE ~Taken(r)
  <2>1. at[r] \notin Ended /\ op[r] \in Op /\ Open(r) /\ op[r].project \in Project
    BY InHand DEF Claim, Ended, IInv, Op
  <2>2. /\ on' = on
        /\ op' = [op EXCEPT ![r].wrote = IF op[r].was THEN {} ELSE {d}]
    BY <1>2 DEF Claim, dbVars
  <2>3. \A g \in Request : g # r => op'[g] = op[g]
    BY <2>2 DEF IInv, TypeOK
  <2>4. /\ op'[r].wrote = IF op[r].was THEN {} ELSE {d}
        /\ op'[r].project = op[r].project
    BY <2>1, <2>2 DEF IInv, TypeOK, Op
  <2>5. OneReceiver'
    BY <2>2 DEF IInv, OneReceiver
  <2>6. CASE op[r].was
    <3>1. op'[r].wrote = {}
      BY <2>4, <2>6
    <3>2. QED  BY <2>2, <2>3, <2>5, <3>1 DEF IInv, Claims, Claiming, Open
  <2>7. CASE ~op[r].was
    <3>1. op'[r].wrote = {d}
      BY <2>4, <2>7
    <3>2. \A q \in Project \ {op[r].project} : <<q, d>> \notin on
      BY <1>2, <2>7 DEF Claim, OthersReceive
    <3>3. ASSUME NEW g \in Request \ {r}, Claiming(g), d \in op[g].wrote
          PROVE  FALSE
      <4>1. <<op[g].project, d>> \in Wrote(g)
        BY <3>3 DEF Wrote, Claiming, Open
      <4>2. <<op[g].project, d>> \in Elsewhere(r)
        BY <4>1 DEF Elsewhere
      <4>3. <<op[g].project, d>>[2] # d
        BY <2>7, <4>2 DEF Claim
      <4>4. QED  BY <4>3
    <3>4. Claims'
      BY <2>2, <2>3, <2>4, <3>1, <3>2, <3>3 DEF IInv, Claims, Claiming, Open
    <3>5. QED  BY <2>5, <3>4
  <2>8. QED  BY <2>6, <2>7
<1>3. QED  BY <1>1, <1>2

(* The other steps of a setup claim nothing more.                          *)
LEMMA SetupClaims ==
    ASSUME IInv, NEW r \in Request, Setup(r), ~Claim(r)
    PROVE  OneReceiver' /\ Claims'
<1>1. at[r] \notin Ended
  BY DEF Ended, Setup, CheckTaken, Provision, Describe, CreateSet, PutRule, Activate
<1>2. op[r] \in Op /\ op[r].step \in 0..3
  BY <1>1, InHand DEF IInv
<1>3. CASE Leave(r, "idle") \/ Leave(r, "refused")
  BY <1>3, LeaveClaims
<1>4. CASE on' = on /\ op' = op
  BY <1>4 DEF IInv, OneReceiver, Claims, Claiming, Open
<1>5. CASE Provision(r) /\ ~Leave(r, "refused")
  <2> DEFINE done == op[r].step = 3
             o == [op[r] EXCEPT !.step = Ahead(op[r]),
                                !.held = IF done THEN Resource ELSE @]
  <2>1. on' = on /\ op' = [op EXCEPT ![r] = o]
    BY <1>5 DEF Provision, dbVars
  <2>2. Ahead(op[r]) \in 0..3
    BY <1>2 DEF Ahead
  <2>3. o \in Op /\ o.kind = op[r].kind /\ o.project = op[r].project /\ o.wrote = op[r].wrote
    BY <1>2, <2>2 DEF Op
  <2> HIDE DEF o
  <2>4. QED  BY <1>1, <2>1, <2>3, StepClaims
<1>6. CASE Describe(r)
  <2> DEFINE read == ruleSet \in {"ours", "theirs"} /\ op[r].domain \in rules
             o == [op[r] EXCEPT !.listed = read]
  <2>1. on' = on /\ op' = [op EXCEPT ![r] = o]
    BY <1>6 DEF Describe, dbVars
  <2>2. read \in BOOLEAN
    OBVIOUS
  <2>3. o \in Op /\ o.kind = op[r].kind /\ o.project = op[r].project /\ o.wrote = op[r].wrote
    BY <1>2, <2>2 DEF Op
  <2> HIDE DEF o
  <2>4. QED  BY <1>1, <2>1, <2>3, StepClaims
<1>7. CASE CheckTaken(r) \/ CreateSet(r) \/ PutRule(r) \/ Activate(r)
  BY <1>3, <1>4, <1>7 DEF CheckTaken, Taken, CreateSet, PutRule, Activate, dbVars
<1>8. QED  BY <1>3, <1>5, <1>6, <1>7 DEF Setup

(* A teardown claims nothing.                                              *)
LEMMA TeardownClaims ==
    ASSUME IInv, NEW r \in Request, Teardown(r)
    PROVE  OneReceiver' /\ Claims'
<1>1. op[r].kind # "start"
  BY DEF IInv, Placed, Removing, Teardown, AskActive, ClearRow, CountHere, CountOthers,
         DeleteRule, Inspect, Deactivate, DeleteSet, Remove
<1>2. at[r] \notin Ended
  BY DEF Ended, Teardown, AskActive, ClearRow, CountHere, CountOthers, DeleteRule, Inspect,
         Deactivate, DeleteSet, Remove
<1>3. op[r] \in Op
  BY <1>2, InHand DEF IInv
<1>4. on' = on /\ \A g \in Request : g # r => op'[g] = op[g]
  BY DEF IInv, TypeOK, dbVars, Teardown, AskActive, ClearRow, CountHere, CountOthers,
         DeleteRule, Inspect, Deactivate, DeleteSet, Remove
<1>5. op'[r].kind = op[r].kind
  <2> USE <1>3 DEF IInv, TypeOK, Op
  <2>1. CASE op' = op
    BY <2>1
  <2>2. CASE ClearRow(r)
    BY <2>2 DEF ClearRow
  <2>3. CASE CountOthers(r)
    BY <2>3 DEF CountOthers
  <2>4. CASE \E works \in BOOLEAN, d \in Domain : DeleteRule(r, d, works)
    BY <2>4 DEF DeleteRule
  <2>5. CASE \E works \in BOOLEAN : Remove(r, works)
    <3> PICK works \in BOOLEAN : Remove(r, works)
      BY <2>5
    <3> DEFINE what == Drop[op[r].step + 1]
               goes == works /\ what \in op[r].held /\ ~(what = "bucket" /\ mail)
               rest == IF what # "bucket" THEN op[r].held
                       ELSE IF goes THEN {} ELSE op[r].held \cap {"bucket"}
               next == Ahead(op[r])
    <3>1. op' = [op EXCEPT ![r] = [op[r] EXCEPT !.step = next, !.held = rest]]
      BY DEF Remove
    <3> HIDE DEF rest, next
    <3>2. QED  BY <3>1
  <2>6. QED  BY <2>1, <2>2, <2>3, <2>4, <2>5
             DEF Teardown, AskActive, CountHere, Inspect, Deactivate, DeleteSet
<1>6. QED  BY <1>1, <1>4, <1>5, KeepClaims DEF IInv, Claiming, Open

-----------------------------------------------------------------------------
(* Every step keeps the invariant.                                         *)
LEMMA NextInv == IInv /\ [Next]_vars => IInv'
<1> SUFFICES ASSUME IInv, [Next]_vars PROVE IInv'
  OBVIOUS
<1>1. TypeOK' /\ Placed'
  BY NextTyped DEF IInv
<1>2. CASE UNCHANGED vars \/ MailArrives \/ MailExpires
  <2>1. on' = on /\ op' = op
    BY <1>2 DEF vars, MailArrives, MailExpires, dbVars
  <2>2. OneReceiver' /\ Claims'
    BY <2>1 DEF IInv, OneReceiver, Claims, Claiming, Open
  <2>3. QED  BY <1>1, <2>2 DEF IInv
<1>3. ASSUME NEW r \in Request, Requests(r) \/ Setup(r) \/ Teardown(r) \/ Ends(r)
      PROVE  OneReceiver' /\ Claims'
  BY <1>3, BeginClaims, ClaimClaims, SetupClaims, TeardownClaims, EndClaims
<1>4. QED  BY <1>1, <1>2, <1>3 DEF IInv, Next

(* IInv holds throughout every behaviour.                                  *)
LEMMA Invariance == Spec => []IInv
BY InitInv, NextInv, PTL DEF Spec

(* The state keeps its types.                                              *)
THEOREM Types == Spec => []TypeOK
<1>1. IInv => TypeOK
  BY DEF IInv
<1>2. QED  BY <1>1, Invariance, PTL

(* A domain receives for one project at most: setup_receiving's claim and  *)
(* the unique index, whatever requests, failures and orders there are.     *)
THEOREM DomainReceivesOnce == Spec => []OneReceiver
<1>1. IInv => OneReceiver
  BY DEF IInv
<1>2. QED  BY <1>1, Invariance, PTL

-----------------------------------------------------------------------------
(* Requests made one at a time.                                            *)
(*                                                                         *)
(* MailFlows and NothingStranded speak of the database and AWS while       *)
(* nothing is in hand.  What carries them through a request is, for each   *)
(* place it can be at, what it has in hand (Hand), what still receives     *)
(* (FlowsAt) and what is still known (KnownAt).                            *)

Mine(o) == {d \in Domain : <<o.project, d>> \in on}
Ruling == {"inspecting", "retiring", "deactivating", "deleting", "clearing"}
Claimless == {"checking", "claiming"}
Remnants == {{}, {"bucket"}, Resource}

(* The connection of a project that receives names everything.             *)
Named == \A id \in on : id[1] \in connected /\ names[id[1]] = Resource
Remembered == \A p \in Project : names[p] \in Remnants

SetupHand(o, place) ==
    /\ o.todo = {} /\ (o.was <=> o.domain \in Mine(o))
    /\ o.wrote = IF place \in Claimless \/ o.was THEN {} ELSE {o.domain}
    /\ IF place \in Claimless \cup {"building"} THEN \A i \in 1..o.step : Build[i] \in aws
       ELSE o.held = Resource /\ aws = Resource

RemovalHand(o, place) ==
    /\ o.todo \cup o.wrote \subseteq Mine(o) /\ o.todo \cap o.wrote = {}
    /\ o.kind = "disconnect" => Mine(o) \subseteq o.todo \cup o.wrote
    /\ place \in Ruling => o.domain \in o.todo
    /\ place \in {"unruling", "counting"} \cup Ruling => o.held = o.saw /\ o.saw = Resource
    /\ place \in {"sharing", "dropping"} => Mine(o) \subseteq o.wrote /\ o.held = Resource
    /\ place = "dropping" => \A id \in on : id[1] = o.project
    /\ place = "committing" => /\ o.todo = {} /\ o.held \in Remnants
                               /\ o.held = o.saw \/ Mine(o) \subseteq o.wrote

Hand(o, place) ==
    /\ o.project \in connected /\ o.saw = names[o.project]
    /\ IF o.kind = "start" THEN place \notin Removing /\ SetupHand(o, place)
       ELSE place \in Removing \cup {"committing"} /\ RemovalHand(o, place)

OneAtATime ==
    "overlap" \notin marks =>
        /\ Named /\ Remembered
        /\ \A r \in Request : at[r] \notin Ended => Busy = {r} /\ Hand(op[r], at[r])

(* What still receives.                                                    *)
Flows(id) == id[2] \in rules /\ ruleSet \in {"ours", "theirs"} /\ aws = Resource
Doomed(o, id) == o.kind # "start" /\ id[1] = o.project /\ id[2] \in o.todo \cup o.wrote

FlowsAt(o, place) ==
    /\ \A id \in on : Doomed(o, id) \/ Flows(id)
    /\ place \in {"retiring", "deactivating", "deleting"} => rules = {}
    /\ place = "putting" => ruleSet \in {"ours", "theirs"}
    /\ place = "activating" => o.domain \in rules
    /\ place = "committing" /\ o.kind = "start" =>
           o.domain \in rules /\ ruleSet \in {"ours", "theirs"}

StillFlows ==
    marks \cap {"overlap", "torn"} = {} =>
        /\ Busy = {} => \A id \in on : Flows(id)
        /\ \A r \in Request : at[r] \notin Ended => FlowsAt(op[r], at[r])

(* What is still known.                                                    *)
Columns(projects) == UNION {names[p] : p \in projects}
Unruled == ruleSet \in {"none", "made"} => rules = {}
Known ==
    /\ aws \ {"bucket"} \subseteq Columns(connected)
    /\ \A d \in rules : \E p \in Project : <<p, d>> \in on
    /\ ruleSet \in {"made", "ours"} => on # {}
    /\ Unruled

SetupKnown(o, place) ==
    /\ place \in Claimless => Known
    /\ \A d \in rules \ {o.domain} : \E p \in Project : <<p, d>> \in on
    /\ place \in {"building", "describing"} => Unruled
    /\ place \in {"creating", "puttingFirst"} => rules = {} /\ ~o.listed
    /\ place = "creating" => ruleSet \in {"none", "made"}
    /\ place \in {"puttingFirst", "activating"} => ruleSet = "made"
    /\ place \in {"putting", "committing"} => ruleSet \in {"ours", "theirs"}
    /\ place = "putting" => (o.listed <=> o.domain \in rules)

(* Rules are kept for what is not being switched off, and SESKit's set for *)
(* what is not about to be.                                                *)
Spared(o, gone, id) == ~(id[1] = o.project /\ id[2] \in gone)
RemovalKnown(o, place) ==
    LET erased == IF place \in Ruling THEN o.wrote \cup {o.domain} ELSE o.wrote
        lost == IF place = "clearing" THEN o.wrote \cup {o.domain} ELSE o.wrote
    IN  /\ Known
        /\ \A d \in rules : \E id \in on : id[2] = d /\ Spared(o, erased, id)
        /\ ruleSet \in {"made", "ours"} => \E id \in on : Spared(o, lost, id)
        /\ place \in {"retiring", "deactivating", "deleting"} => rules = {}
        /\ place = "inspecting" => ruleSet # "theirs"
        /\ place = "retiring" => ruleSet \in {"made", "ours"}
        /\ place = "deactivating" => ruleSet = "ours"
        /\ place = "deleting" => ruleSet = "made"
        /\ place = "dropping" => \A i \in 1..o.step : Drop[i] \notin aws
        /\ place = "committing" =>
              aws \ {"bucket"} \subseteq
                  Columns(connected \ {o.project}) \cup IF o.kind = "disconnect" THEN {} ELSE o.held

KnownAt(o, place) ==
    IF o.kind = "start" THEN SetupKnown(o, place) ELSE RemovalKnown(o, place)

StillKnown ==
    marks \cap {"overlap", "forgot", "swallowed"} = {} =>
        /\ Busy = {} => Known
        /\ \A r \in Request : at[r] \notin Ended => KnownAt(op[r], at[r])

Strong == OneAtATime /\ StillFlows /\ StillKnown

(* The request that a step belongs to is the only one.                     *)
LEMMA InCharge ==
    ASSUME Strong, NEW r \in Request, at[r] \notin Ended
    PROVE  /\ "overlap" \notin marks =>
                 Busy = {r} /\ Named /\ Remembered /\ Hand(op[r], at[r])
           /\ marks \cap {"overlap", "torn"} = {} => FlowsAt(op[r], at[r])
           /\ marks \cap {"overlap", "forgot", "swallowed"} = {} => KnownAt(op[r], at[r])
BY DEF Strong, OneAtATime, StillFlows, StillKnown

(* A step that is not its last.                                            *)
LEMMA StepStrong ==
    ASSUME TypeOK, Strong, NEW r \in Request, at[r] \notin Ended,
           NEW o, NEW place, place \notin Ended,
           Go(r, place), op' = [op EXCEPT ![r] = o],
           UNCHANGED dbVars, marks \subseteq marks',
           "overlap" \notin marks' => Hand(o, place)',
           marks' \cap {"overlap", "torn"} = {} => FlowsAt(o, place)',
           marks' \cap {"overlap", "forgot", "swallowed"} = {} => KnownAt(o, place)'
    PROVE  Strong'
<1>1. /\ op'[r] = o /\ at'[r] = place
      /\ \A g \in Request \ {r} : op'[g] = op[g] /\ at'[g] = at[g]
  BY DEF TypeOK, Go
<1>2. Busy' = Busy /\ r \in Busy
  BY <1>1 DEF Busy
<1>3. "overlap" \notin marks => Busy = {r}
  BY InCharge
<1>4. Named' <=> Named
  BY DEF Named, dbVars
<1>5. Remembered' <=> Remembered
  BY DEF Remembered, dbVars
<1>6. "overlap" \notin marks' => \A g \in Request : at'[g] \notin Ended => g = r
  BY <1>2, <1>3 DEF Busy
<1>7. OneAtATime'
  BY <1>1, <1>2, <1>3, <1>4, <1>5, <1>6, InCharge DEF OneAtATime
<1>8. StillFlows'
  BY <1>1, <1>2, <1>6 DEF StillFlows
<1>9. StillKnown'
  BY <1>1, <1>2, <1>6 DEF StillKnown
<1>10. QED  BY <1>7, <1>8, <1>9 DEF Strong

(* Its last.                                                               *)
LEMMA LastStrong ==
    ASSUME TypeOK, Strong, NEW r \in Request, at[r] \notin Ended,
           NEW place \in Ended, Go(r, place), marks \subseteq marks',
           "overlap" \notin marks' => Named' /\ Remembered',
           marks' \cap {"overlap", "torn"} = {} => (\A id \in on : Flows(id))',
           marks' \cap {"overlap", "forgot", "swallowed"} = {} => Known'
    PROVE  Strong'
<1>1. at'[r] = place /\ \A g \in Request \ {r} : at'[g] = at[g]
  BY DEF TypeOK, Go
<1>2. "overlap" \notin marks' => \A g \in Request : at'[g] \in Ended
  BY <1>1, InCharge DEF Busy
<1>3. OneAtATime'
  BY <1>2 DEF OneAtATime
<1>4. StillFlows'
  BY <1>2 DEF StillFlows
<1>5. StillKnown'
  BY <1>2 DEF StillKnown
<1>6. QED  BY <1>3, <1>4, <1>5 DEF Strong

(* A session that closes without a commit leaves the rows to say what they *)
(* did: a setup has taken nothing away, a removal has said nothing yet.    *)
LEMMA LeaveStrong ==
    ASSUME TypeOK, Strong, NEW r \in Request, at[r] \notin Ended,
           NEW place \in Ended, Leave(r, place), marks \subseteq marks',
           op[r].kind # "start" => marks' \cap {"overlap", "torn"} # {},
           op[r].kind = "start" =>
               at[r] \in Claimless \/ marks' \cap {"overlap", "forgot", "swallowed"} # {}
    PROVE  Strong'
<1>1. UNCHANGED <<connected, names, on, aws, ruleSet, rules>> /\ Go(r, place)
  BY DEF Leave, dbVars, awsVars
<1>2. "overlap" \notin marks' => Named' /\ Remembered'
  BY <1>1, InCharge DEF Named, Remembered
<1>3. ASSUME marks' \cap {"overlap", "torn"} = {} PROVE (\A id \in on : Flows(id))'
  <2>1. FlowsAt(op[r], at[r]) /\ op[r].kind = "start"
    BY <1>3, InCharge
  <2>2. \A id \in on : Flows(id)
    BY <2>1 DEF FlowsAt, Doomed
  <2>3. QED  BY <1>1, <2>2 DEF Flows
<1>4. ASSUME marks' \cap {"overlap", "forgot", "swallowed"} = {} PROVE Known'
  <2>1. Known
    BY <1>4, InCharge DEF KnownAt, SetupKnown, RemovalKnown
  <2>2. QED  BY <1>1, <2>1 DEF Known, Columns, Unruled
<1>5. QED  BY <1>1, <1>2, <1>3, <1>4, LastStrong

(* A request begins with nothing done, on what the rows say.               *)
LEMMA InitStrong == Init => Strong
<1> SUFFICES ASSUME Init PROVE Strong
  OBVIOUS
<1>1. \A r \in Request : at[r] \in Ended
  BY DEF Init, Ended
<1>2. Named /\ Remembered /\ Known /\ \A id \in on : Flows(id)
  BY DEF Init, Named, Remembered, Remnants, Known, Unruled
<1>3. QED  BY <1>1, <1>2 DEF Strong, OneAtATime, StillFlows, StillKnown

(* A request that begins is alone, or disturbs what goes on.               *)
LEMMA BeginStrong ==
    ASSUME IInv, Strong, NEW r \in Request, Requests(r)
    PROVE  Strong'
<1> PICK p \in Project, d \in Domain : Start(r, p, d) \/ Stop(r, p, d) \/ Disconnect(r, p, d)
  BY DEF Requests
<1> DEFINE domains == {x \in Domain : <<p, x>> \in on}
<1>1. PICK k \in {"start", "stop", "disconnect"}, todo \in SUBSET Domain, place \in Places :
         /\ Begin(r, k, p, d, todo) /\ Go(r, place)
         /\ k = "start" => place = "checking" /\ todo = {}
         /\ k = "stop" => place = "unruling" /\ todo = {d} /\ <<p, d>> \in on
         /\ k = "disconnect" =>
               /\ todo = domains
               /\ place = IF domains # {} THEN "unruling"
                          ELSE IF Enabled(names[p]) THEN "sharing" ELSE "committing"
  <2>1. CASE Start(r, p, d)
    BY <2>1 DEF Start, Places
  <2>2. CASE Stop(r, p, d)
    BY <2>2 DEF Stop, Places, Removing
  <2>3. CASE Disconnect(r, p, d)
    BY <2>3 DEF Disconnect, Places, Removing
  <2>4. QED  BY <2>1, <2>2, <2>3
<1>2. PICK o : o = [kind |-> k, project |-> p, domain |-> d, was |-> <<p, d>> \in on,
                    todo |-> todo, saw |-> names[p], held |-> names[p],
                    wrote |-> {}, step |-> 0, listed |-> FALSE]
  OBVIOUS
<1>3. /\ o.kind = k /\ o.project = p /\ o.domain = d /\ (o.was <=> <<p, d>> \in on)
      /\ o.todo = todo /\ o.saw = names[p] /\ o.held = names[p]
      /\ o.wrote = {} /\ o.step = 0
  BY <1>2
<1>4. /\ at[r] \in Ended /\ p \in connected
      /\ op' = [op EXCEPT ![r] = o] /\ at' = [at EXCEPT ![r] = place]
      /\ UNCHANGED <<connected, names, on, aws, ruleSet, rules>>
      /\ marks \subseteq marks'
      /\ Busy # {} => "overlap" \in marks'
  BY <1>1, <1>2 DEF Begin, Go, dbVars, awsVars
<1>5. /\ op'[r] = o /\ at'[r] = place
      /\ \A g \in Request \ {r} : at'[g] = at[g]
  BY <1>4 DEF IInv, TypeOK
<1>6. place \notin Ended /\ place \notin Ruling /\ place \notin {"counting", "dropping"}
  BY <1>1 DEF Ended, Ruling
<1>7. "overlap" \notin marks' => Busy = {} /\ Busy' = {r}
  BY <1>4, <1>5, <1>6 DEF Busy
<1>8. ASSUME "overlap" \notin marks' PROVE Named' /\ Remembered' /\ Hand(o, place)'
  <2>1. Named /\ Remembered
    BY <1>4, <1>8 DEF Strong, OneAtATime
  <2>2. Named' /\ Remembered'
    BY <1>4, <2>1 DEF Named, Remembered
  <2>3. Mine(o)' = domains
    BY <1>3, <1>4 DEF Mine
  <2>4. o.project \in connected' /\ o.saw = names'[o.project]
    BY <1>3, <1>4
  <2>5. k = "start" => place \notin Removing /\ SetupHand(o, place)'
    BY <1>1, <1>3, <2>3 DEF SetupHand, Removing, Claimless
  <2>6. ASSUME k # "start" PROVE place \in Removing \cup {"committing"} /\ RemovalHand(o, place)'
    <3>1. todo \subseteq domains /\ (k = "disconnect" => domains \subseteq todo)
      BY <1>1, <2>6
    <3>2. place = "unruling" => o.saw = Resource
      BY <1>1, <1>3, <2>1, <2>6 DEF Named
    <3>3. names[p] \in Remnants
      BY <2>1 DEF Remembered
    <3>4. place = "sharing" => names[p] = Resource /\ domains = {}
      BY <1>1, <2>6, <3>3 DEF Enabled, Remnants
    <3>5. place = "committing" => todo = {}
      BY <1>1, <2>6
    <3>6. place \in {"unruling", "sharing", "committing"}
      BY <1>1, <2>6
    <3>7. QED  BY <1>3, <1>6, <2>3, <3>1, <3>2, <3>3, <3>4, <3>5, <3>6
               DEF RemovalHand, Removing
  <2>7. QED  BY <1>3, <2>2, <2>4, <2>5, <2>6 DEF Hand
<1>9. ASSUME marks' \cap {"overlap", "torn"} = {} PROVE FlowsAt(o, place)'
  <2>1. \A id \in on : Flows(id)
    BY <1>4, <1>7, <1>9 DEF Strong, StillFlows
  <2>2. place \in {"checking", "unruling", "sharing", "committing"}
        /\ (place = "committing" => k # "start")
    BY <1>1
  <2>3. QED  BY <1>3, <1>4, <2>1, <2>2 DEF FlowsAt, Flows
<1>10. ASSUME marks' \cap {"overlap", "forgot", "swallowed"} = {} PROVE KnownAt(o, place)'
  <2>1. Known /\ Remembered
    BY <1>4, <1>7, <1>10 DEF Strong, StillKnown, OneAtATime
  <2>2. Known'
    BY <1>4, <2>1 DEF Known, Columns, Unruled
  <2>3. k = "start" => SetupKnown(o, place)'
    BY <1>1, <2>2 DEF SetupKnown, Claimless, Known
  <2>4. ASSUME k # "start" PROVE RemovalKnown(o, place)'
    <3>1. place \in {"unruling", "sharing", "committing"}
      BY <1>1, <2>4
    <3>2. \A gone : \A id : gone = {} => Spared(o, gone, id)'
      BY DEF Spared
    <3>3. /\ \A d1 \in rules' : \E id \in on' : id[2] = d1
          /\ ruleSet' \in {"made", "ours"} => \E id \in on' : TRUE
      <4>1. \A d1 \in rules' : \E q \in Project : <<q, d1>> \in on'
        BY <2>2 DEF Known
      <4>2. \A q, d1 : <<q, d1>>[2] = d1
        OBVIOUS
      <4>3. QED  BY <2>2, <4>1, <4>2 DEF Known
    <3>4. place = "committing" =>
             aws' \ {"bucket"} \subseteq (Columns(connected \ {p}))'
      <4>1. place = "committing" => names[p] \in {{}, {"bucket"}}
        BY <1>1, <2>1, <2>4 DEF Enabled, Remembered, Remnants, Resource
      <4>2. QED  BY <1>4, <2>1, <4>1 DEF Known, Columns
    <3>5. QED  BY <1>3, <2>2, <3>1, <3>2, <3>3, <3>4 DEF RemovalKnown, Ruling
  <2>5. QED  BY <1>3, <2>3, <2>4 DEF KnownAt
<1>11. OneAtATime'
  BY <1>5, <1>7, <1>8 DEF OneAtATime, Busy
<1>12. StillFlows'
  BY <1>5, <1>7, <1>9 DEF StillFlows, Busy
<1>13. StillKnown'
  BY <1>5, <1>7, <1>10 DEF StillKnown, Busy
<1>14. QED  BY <1>11, <1>12, <1>13 DEF Strong

(* What a request that was alone leaves behind works and is known.         *)
LEMMA EndStrong ==
    ASSUME IInv, Strong, NEW r \in Request, Ends(r)
    PROVE  Strong'
<1>1. CASE AwsRefuses(r) \/ Dies(r)
  <2>1. /\ at[r] \notin Ended
        /\ marks' = marks \cup {IF op[r].kind = "start" THEN "forgot" ELSE "torn"}
        /\ Leave(r, "refused") \/ Leave(r, "idle")
    BY <1>1 DEF AwsRefuses, Dies, Ended, AtRule
  <2>2. QED  BY <2>1, LeaveStrong DEF IInv, Ended
<1>2. CASE DeadlockBroken(r)
  <2>1. PICK g \in Request \ {r} : at[r] = "clearing" /\ at[g] = "clearing"
    BY <1>2 DEF DeadlockBroken
  <2>2. r \in Busy /\ g \in Busy
    BY <2>1 DEF Busy, Ended
  <2>3. "overlap" \in marks
    BY <2>1, <2>2, InCharge DEF Ended
  <2>4. QED  BY <1>2, <2>1, <2>3, LeaveStrong DEF DeadlockBroken, IInv, Ended
<1>3. CASE RowGone(r)
  <2>1. at[r] = "committing" /\ op[r].project \notin connected
    BY <1>3 DEF RowGone
  <2>2. "overlap" \in marks
    BY <2>1, InCharge DEF Ended, Hand
  <2>3. QED  BY <1>3, <2>1, <2>2, LeaveStrong DEF RowGone, IInv, Ended
<1>4. CASE Commit(r)
  <2>1. PICK o, p : o = op[r] /\ p = o.project
    OBVIOUS
  <2>2. /\ at[r] = "committing" /\ at[r] \notin Ended /\ Go(r, "idle")
        /\ UNCHANGED <<aws, ruleSet, rules, marks>>
    BY <1>4 DEF Commit, awsVars, Ended
  <2>3. /\ o \in Op /\ p \in Project /\ o.wrote \subseteq Domain
        /\ o.saw \subseteq Resource /\ o.held \subseteq Resource
    BY <2>1, <2>2, InHand DEF IInv, Op
  <2>4. Wrote(r) = {<<p, d>> : d \in o.wrote}
    BY <2>1, <2>3, NoOpAssumption DEF Wrote
  <2>5. /\ on' = IF o.kind = "start" THEN on \cup Wrote(r) ELSE on \ Wrote(r)
        /\ names' = [names EXCEPT ![p] = IF o.kind = "disconnect" THEN {} ELSE Saved(r)]
        /\ connected' = IF o.kind = "disconnect" THEN connected \ {p} ELSE connected
    BY <1>4, <2>1 DEF Commit
  <2>6. /\ names \in [Project -> SUBSET Resource] /\ connected \subseteq Project
        /\ on \subseteq Project \X Domain
    BY DEF IInv, TypeOK
  <2>7. /\ \A q \in Project \ {p} : names'[q] = names[q]
        /\ o.saw = names[p] => names'[p] = IF o.kind = "disconnect" THEN {} ELSE o.held
    <3>1. o.saw = names[p] => Saved(r) = o.held
      BY <2>1, <2>3 DEF Saved
    <3>2. QED  BY <2>3, <2>5, <2>6, <3>1
  <2>8. "overlap" \notin marks => Named /\ Remembered /\ Hand(o, "committing")
    BY <2>1, <2>2, InCharge
  <2>9. CASE o.kind = "start"
    <3>1. ASSUME "overlap" \notin marks
          PROVE  /\ p \in connected /\ o.held = Resource /\ aws = Resource
                 /\ names'[p] = Resource /\ connected' = connected
                 /\ on' = on \cup {<<p, d>> : d \in o.wrote}
                 /\ <<p, o.domain>> \in on' /\ o.wrote \subseteq {o.domain}
      <4>1. Hand(o, "committing")
        BY <2>8, <3>1
      <4>2. /\ p \in connected /\ o.saw = names[p] /\ o.held = Resource /\ aws = Resource
            /\ o.was <=> o.domain \in Mine(o)
            /\ o.wrote = IF o.was THEN {} ELSE {o.domain}
        BY <2>1, <2>9, <4>1 DEF Hand, SetupHand, Claimless
      <4>3. o.was => <<p, o.domain>> \in on
        BY <2>1, <4>2 DEF Mine
      <4>4. QED  BY <2>4, <2>5, <2>7, <2>9, <4>2, <4>3
    <3>2. ASSUME "overlap" \notin marks PROVE Named' /\ Remembered'
      BY <2>3, <2>6, <2>7, <2>8, <3>1, <3>2 DEF Named, Remembered, Remnants
    <3>3. ASSUME marks \cap {"overlap", "torn"} = {} PROVE (\A id \in on : Flows(id))'
      <4>1. FlowsAt(o, "committing")
        BY <2>1, <2>2, <3>3, InCharge
      <4>2. /\ \A id \in on : Flows(id)
            /\ o.domain \in rules /\ ruleSet \in {"ours", "theirs"}
        BY <2>9, <4>1 DEF FlowsAt, Doomed
      <4>3. QED  BY <2>2, <3>1, <3>3, <4>2 DEF Flows
    <3>4. ASSUME marks \cap {"overlap", "forgot", "swallowed"} = {} PROVE Known'
      <4>1. SetupKnown(o, "committing")
        BY <2>1, <2>2, <2>9, <3>4, InCharge DEF KnownAt
      <4>2. aws' \ {"bucket"} \subseteq (Columns(connected))'
        BY <2>2, <3>1, <3>4 DEF Columns
      <4>3. \A d \in rules' : \E q \in Project : <<q, d>> \in on'
        BY <2>2, <2>3, <3>1, <3>4, <4>1 DEF SetupKnown
      <4>4. on' # {} /\ ruleSet' \in {"ours", "theirs"}
        BY <2>2, <3>1, <3>4, <4>1 DEF SetupKnown
      <4>5. QED  BY <4>2, <4>3, <4>4 DEF Known, Unruled
    <3>5. QED  BY <2>2, <3>2, <3>3, <3>4, LastStrong DEF IInv, Ended
  <2>10. CASE o.kind # "start"
    <3>1. ASSUME "overlap" \notin marks
          PROVE  /\ o.todo = {} /\ o.held \in Remnants /\ o.saw = names[p]
                 /\ o.held = o.saw \/ Mine(o) \subseteq o.wrote
                 /\ o.kind = "disconnect" => Mine(o) \subseteq o.wrote
      BY <2>1, <2>8, <2>10, <3>1 DEF Hand, RemovalHand
    <3>2. \A id \in on' : id \in on /\ ~ (id[1] = p /\ id[2] \in o.wrote)
      BY <2>4, <2>5, <2>6, <2>10
    <3>3. \A id \in on : id[1] = p => id[2] \in Mine(o)
      BY <2>1, <2>6 DEF Mine
    <3>4. ASSUME "overlap" \notin marks PROVE Named' /\ Remembered'
      <4>1. \A id \in on' : id[1] = p => o.kind # "disconnect" /\ o.held = o.saw
        BY <3>1, <3>2, <3>3, <3>4
      <4>2. Named'
        <5>1. ASSUME NEW id \in on' PROVE id[1] \in connected' /\ names'[id[1]] = Resource
          <6>1. id[1] \in Project /\ id[1] \in connected /\ names[id[1]] = Resource
            BY <2>6, <2>8, <3>2, <3>4 DEF Named
          <6>2. QED  BY <2>5, <2>7, <3>1, <3>4, <4>1, <6>1
        <5>2. QED  BY <5>1 DEF Named
      <4>3. Remembered'
        BY <2>7, <2>8, <3>1, <3>4 DEF Remembered, Remnants
      <4>4. QED  BY <4>2, <4>3
    <3>5. ASSUME marks \cap {"overlap", "torn"} = {} PROVE (\A id \in on : Flows(id))'
      <4>1. FlowsAt(o, "committing")
        BY <2>1, <2>2, <3>5, InCharge
      <4>2. \A id \in on' : Flows(id)
        BY <2>1, <3>1, <3>2, <3>5, <4>1 DEF FlowsAt, Doomed
      <4>3. QED  BY <2>2, <4>2 DEF Flows
    <3>6. ASSUME marks \cap {"overlap", "forgot", "swallowed"} = {} PROVE Known'
      <4>1. RemovalKnown(o, "committing")
        BY <2>1, <2>2, <2>10, <3>6, InCharge DEF KnownAt
      <4>2. \A id \in on : Spared(o, o.wrote, id) => id \in on'
        BY <2>1, <2>4, <2>5, <2>10 DEF Spared
      <4>3. \A d \in rules : \E q \in Project : <<q, d>> \in on'
        <5>1. ASSUME NEW d \in rules PROVE \E q \in Project : <<q, d>> \in on'
          <6>1. PICK id \in on : id[2] = d /\ Spared(o, o.wrote, id)
            BY <4>1 DEF RemovalKnown, Ruling
          <6>2. id = <<id[1], d>> /\ id[1] \in Project
            BY <2>6, <6>1
          <6>3. QED  BY <4>2, <6>1, <6>2
        <5>2. QED  BY <5>1
      <4>4. ruleSet \in {"made", "ours"} => on' # {}
        BY <4>1, <4>2 DEF RemovalKnown
      <4>5. aws \ {"bucket"} \subseteq (Columns(connected))'
        <5>1. aws \ {"bucket"} \subseteq
                 Columns(connected \ {p}) \cup IF o.kind = "disconnect" THEN {} ELSE o.held
          BY <2>1, <4>1 DEF RemovalKnown
        <5>2. Columns(connected \ {p}) \subseteq (Columns(connected))'
          BY <2>5, <2>6, <2>7 DEF Columns
        <5>3. p \in connected
          BY <2>1, <2>8, <3>6 DEF Hand
        <5>4. o.kind # "disconnect" => o.held \subseteq (Columns(connected))'
          BY <2>5, <2>7, <3>1, <3>6, <5>3 DEF Columns
        <5>5. QED  BY <5>1, <5>2, <5>4
      <4>6. Unruled'
        BY <2>2, <4>1 DEF RemovalKnown, Known, Unruled
      <4>7. QED  BY <2>2, <4>3, <4>4, <4>5, <4>6 DEF Known
    <3>7. QED  BY <2>2, <3>4, <3>5, <3>6, LastStrong DEF IInv, Ended
  <2>11. QED  BY <2>9, <2>10
<1>5. QED  BY <1>1, <1>2, <1>3, <1>4 DEF Ends

(* What a setup makes is there and stays, until its rule stands.           *)
LEMMA SetupStrong ==
    ASSUME IInv, Strong, NEW r \in Request, Setup(r)
    PROVE  Strong'
<1> USE DEF Ended, Removing, Claimless, AtRule
<1>1. PICK o, d, place : o = op[r] /\ d = o.domain /\ place = at[r]
  OBVIOUS
<1>2. place \in {"checking", "claiming", "building"} \cup AtRule /\ place \notin Ended
  BY <1>1 DEF Setup, CheckTaken, Claim, Provision, Describe, CreateSet, PutRule, Activate
<1>3. /\ o \in Op /\ o.step \in 0..3 /\ d \in Domain /\ o.project \in Project
      /\ op' = op => op' = [op EXCEPT ![r] = o]
  BY <1>1, <1>2, InHand DEF IInv, Op, TypeOK
<1>4. ASSUME "overlap" \notin marks
      PROVE  /\ Named /\ Remembered /\ Hand(o, place) /\ o.kind = "start"
             /\ o.project \in connected /\ o.saw = names[o.project]
             /\ SetupHand(o, place)
  BY <1>1, <1>2, <1>4, InCharge DEF Hand
<1>5. ASSUME marks \cap {"overlap", "torn"} = {}
      PROVE  FlowsAt(o, place) /\ \A id \in on : Flows(id)
  BY <1>1, <1>2, <1>4, <1>5, InCharge DEF FlowsAt, Doomed
<1>6. ASSUME marks \cap {"overlap", "forgot", "swallowed"} = {}
      PROVE  SetupKnown(o, place)
  BY <1>1, <1>2, <1>4, <1>6, InCharge DEF KnownAt
<1>7. CASE Taken(r) /\ place \in {"checking", "claiming"}
  BY <1>1, <1>2, <1>4, <1>7, InCharge, LeaveStrong DEF Taken, IInv, Hand
<1>8. CASE CheckTaken(r) /\ ~ Taken(r)
  <2>1. /\ place = "checking" /\ Go(r, "claiming")
        /\ op' = [op EXCEPT ![r] = o]
        /\ UNCHANGED <<connected, names, on, aws, ruleSet, rules, marks>>
    BY <1>1, <1>3, <1>8 DEF CheckTaken, dbVars, awsVars
  <2>2. "overlap" \notin marks => Hand(o, "claiming")'
    BY <1>4, <2>1 DEF Hand, SetupHand, Mine
  <2>3. marks \cap {"overlap", "torn"} = {} => FlowsAt(o, "claiming")'
    BY <1>5, <2>1 DEF FlowsAt, Flows
  <2>4. marks \cap {"overlap", "forgot", "swallowed"} = {} => KnownAt(o, "claiming")'
    BY <1>4, <1>6, <2>1 DEF KnownAt, SetupKnown, Known, Columns, Unruled
  <2>5. QED  BY <1>1, <1>2, <2>1, <2>2, <2>3, <2>4, StepStrong DEF IInv, dbVars
<1>9. CASE Claim(r) /\ ~ Taken(r)
  <2>1. PICK n : n = [o EXCEPT !.wrote = IF o.was THEN {} ELSE {d}]
    OBVIOUS
  <2>2. /\ n.kind = o.kind /\ n.project = o.project /\ n.domain = d /\ n.was = o.was
        /\ n.todo = o.todo /\ n.saw = o.saw /\ n.held = o.held /\ n.step = o.step
        /\ n.wrote = IF o.was THEN {} ELSE {d}
    BY <1>1, <1>3, <2>1 DEF Op
  <2>3. /\ place = "claiming" /\ Go(r, "building")
        /\ op' = [op EXCEPT ![r] = n]
        /\ UNCHANGED <<connected, names, on, aws, ruleSet, rules, marks>>
    BY <1>1, <1>9, <2>1 DEF Claim, dbVars, awsVars
  <2>4. "overlap" \notin marks => Hand(n, "building")'
    BY <1>1, <1>4, <2>2, <2>3 DEF Hand, SetupHand, Mine
  <2>5. marks \cap {"overlap", "torn"} = {} => FlowsAt(n, "building")'
    BY <1>5, <2>3 DEF FlowsAt, Flows
  <2>6. marks \cap {"overlap", "forgot", "swallowed"} = {} => KnownAt(n, "building")'
    BY <1>1, <1>4, <1>6, <2>2, <2>3 DEF KnownAt, SetupKnown, Known, Unruled
  <2>7. QED  BY <1>1, <1>2, <2>3, <2>4, <2>5, <2>6, StepStrong DEF IInv, dbVars
<1>10. CASE Provision(r)
  <2>1. place = "building" /\ UNCHANGED <<connected, names, on, ruleSet, rules, marks>>
    BY <1>1, <1>10 DEF Provision, Leave, dbVars, awsVars
  <2>2. o.step = 3 => Build[1] = "bucket" /\ Build[2] = "topic" /\ Build[3] = "queue"
                      /\ Build[o.step + 1] = "subscription"
    BY DEF Build
  <2>3. Build[o.step + 1] = "subscription" => o.step = 3
    <3>1. o.step = 0 \/ o.step = 1 \/ o.step = 2 \/ o.step = 3
      BY <1>3
    <3>2. QED  BY <3>1 DEF Build
  <2>4. CASE Leave(r, "refused")
    <3>1. "overlap" \in marks
      <4>1. Build[o.step + 1] = "subscription" /\ ~ {"topic", "queue"} \subseteq aws
        BY <1>1, <1>2, <1>10, <2>1, <2>4 DEF Provision, Leave, Go, IInv, TypeOK
      <4>2. QED  BY <1>4, <2>1, <2>2, <2>3, <4>1 DEF SetupHand
    <3>2. QED  BY <1>1, <1>2, <2>1, <2>4, <3>1, LeaveStrong DEF IInv
  <2>5. CASE ~ Leave(r, "refused")
    <3>1. PICK done \in BOOLEAN, step \in 0..3, next \in {"describing", "building"} :
             /\ done <=> o.step = 3
             /\ step = Ahead(o)
             /\ next = IF done THEN "describing" ELSE "building"
      <4>1. Ahead(o) \in 0..3
        BY <1>3 DEF Ahead
      <4>2. QED  BY <4>1
    <3>2. PICK n : n = [o EXCEPT !.step = step, !.held = IF done THEN Resource ELSE @]
      OBVIOUS
    <3>3. /\ n.kind = o.kind /\ n.project = o.project /\ n.domain = d /\ n.was = o.was
          /\ n.todo = o.todo /\ n.saw = o.saw /\ n.wrote = o.wrote
          /\ n.step = step /\ n.held = IF done THEN Resource ELSE o.held
      BY <1>1, <1>3, <3>2 DEF Op
    <3>4. /\ op' = [op EXCEPT ![r] = n] /\ Go(r, next)
          /\ aws' = aws \cup {Build[o.step + 1]}
      BY <1>1, <1>10, <2>5, <3>1, <3>2 DEF Provision
    <3>5. "overlap" \notin marks => Hand(n, next)'
      <4>1. ASSUME "overlap" \notin marks PROVE SetupHand(n, next)'
        <5>1. Mine(n)' = Mine(o)
          BY <2>1, <3>3 DEF Mine
        <5>2. \A i \in 1 .. o.step + 1 : Build[i] \in aws'
          <6>1. \A i \in 1 .. o.step + 1 : i \in 1..o.step \/ i = o.step + 1
            BY <1>3
          <6>2. QED  BY <1>4, <2>1, <3>4, <4>1, <6>1 DEF SetupHand
        <5>3. ~ done => \A i \in 1..step : Build[i] \in aws'
          BY <1>3, <3>1, <5>2 DEF Ahead
        <5>4. done => aws' = Resource
          <6>1. done => \A i \in 1..4 : Build[i] \in aws'
            BY <3>1, <5>2
          <6>2. done => Resource \subseteq aws'
            BY <6>1 DEF Build, Resource
          <6>3. aws' \subseteq Resource
            BY <1>3, <3>4, Calls DEF IInv, TypeOK
          <6>4. QED  BY <6>2, <6>3
        <5>5. QED  BY <1>1, <1>4, <2>1, <3>1, <3>3, <4>1, <5>1, <5>3, <5>4 DEF SetupHand
      <4>2. QED  BY <1>4, <2>1, <3>1, <3>3, <4>1 DEF Hand
    <3>6. marks \cap {"overlap", "torn"} = {} => FlowsAt(n, next)'
      <4>1. aws = Resource => aws' = Resource
        BY <1>3, <3>4, Calls
      <4>2. QED  BY <1>5, <2>1, <3>1, <4>1 DEF FlowsAt, Flows
    <3>7. marks \cap {"overlap", "forgot", "swallowed"} = {} => KnownAt(n, next)'
      BY <1>1, <1>4, <1>6, <2>1, <3>1, <3>3 DEF KnownAt, SetupKnown, Unruled
    <3>8. next \notin Ended
      BY <3>1
    <3>9. QED  BY <1>1, <1>2, <2>1, <3>4, <3>5, <3>6, <3>7, <3>8, StepStrong DEF IInv, dbVars
  <2>6. QED  BY <2>4, <2>5
<1>11. CASE Describe(r)
  <2>1. PICK active \in BOOLEAN, listed \in BOOLEAN, next \in {"putting", "creating"} :
           /\ active <=> ruleSet \in {"ours", "theirs"}
           /\ listed <=> active /\ d \in rules
           /\ next = IF active THEN "putting" ELSE "creating"
    OBVIOUS
  <2>2. PICK n : n = [o EXCEPT !.listed = listed]
    OBVIOUS
  <2>3. /\ n.kind = o.kind /\ n.project = o.project /\ n.domain = d /\ n.was = o.was
        /\ n.todo = o.todo /\ n.saw = o.saw /\ n.wrote = o.wrote
        /\ n.step = o.step /\ n.held = o.held /\ n.listed = listed
    BY <1>1, <1>3, <2>2 DEF Op
  <2>4. /\ place = "describing" /\ Go(r, next)
        /\ UNCHANGED <<connected, names, on, aws, ruleSet, rules, marks>>
    BY <1>1, <1>11, <2>1 DEF Describe, dbVars, awsVars
  <2>5. op' = [op EXCEPT ![r] = n]
    <3>1. (ruleSet \in {"ours", "theirs"} /\ d \in rules) = listed
      BY <2>1
    <3>2. op' = [op EXCEPT ![r].listed = ruleSet \in {"ours", "theirs"} /\ d \in rules]
      BY <1>1, <1>11 DEF Describe
    <3>3. QED  BY <1>1, <2>2, <3>1, <3>2
  <2>6. "overlap" \notin marks => Hand(n, next)'
    BY <1>1, <1>4, <2>1, <2>3, <2>4 DEF Hand, SetupHand, Mine
  <2>7. marks \cap {"overlap", "torn"} = {} => FlowsAt(n, next)'
    BY <1>5, <2>1, <2>4 DEF FlowsAt, Flows
  <2>8. marks \cap {"overlap", "forgot", "swallowed"} = {} => KnownAt(n, next)'
    BY <1>1, <1>4, <1>6, <2>1, <2>3, <2>4 DEF KnownAt, SetupKnown, Unruled, IInv, TypeOK, RuleSets
  <2>9. QED  BY <1>1, <1>2, <2>1, <2>4, <2>5, <2>6, <2>7, <2>8, StepStrong DEF IInv, dbVars
<1>12. CASE CreateSet(r)
  <2>1. /\ place = "creating" /\ Go(r, "puttingFirst")
        /\ op' = [op EXCEPT ![r] = o]
        /\ ruleSet' = IF ruleSet = "none" THEN "made" ELSE ruleSet
        /\ UNCHANGED <<connected, names, on, aws, rules, marks>>
    BY <1>1, <1>3, <1>12 DEF CreateSet, dbVars
  <2>2. "overlap" \notin marks => Hand(o, "puttingFirst")'
    BY <1>4, <2>1 DEF Hand, SetupHand, Mine
  <2>3. marks \cap {"overlap", "torn"} = {} => FlowsAt(o, "puttingFirst")'
    BY <1>5, <2>1 DEF FlowsAt, Flows
  <2>4. marks \cap {"overlap", "forgot", "swallowed"} = {} => KnownAt(o, "puttingFirst")'
    BY <1>4, <1>6, <2>1 DEF KnownAt, SetupKnown
  <2>5. QED  BY <1>1, <1>2, <2>1, <2>2, <2>3, <2>4, StepStrong DEF IInv, dbVars
<1>13. CASE PutRule(r)
  <2>1. place \in {"putting", "puttingFirst"}
    BY <1>1, <1>13 DEF PutRule
  <2>2. CASE Leave(r, "refused")
    <3>1. marks' = marks
      BY <1>13 DEF PutRule
    <3>2. marks \cap {"overlap", "forgot", "swallowed"} # {}
      <4>1. ~ (/\ ruleSet # "none"
               /\ o.listed <=> d \in rules
               /\ {"bucket", "topic"} \subseteq aws)
        BY <1>1, <1>2, <1>13, <2>1, <2>2 DEF PutRule, Leave, Go, IInv, TypeOK
      <4>2. ASSUME marks \cap {"overlap", "forgot", "swallowed"} = {} PROVE FALSE
        <5>1. aws = Resource
          BY <1>4, <2>1, <4>2 DEF SetupHand
        <5>2. ruleSet # "none" /\ (o.listed <=> d \in rules)
          BY <1>1, <1>6, <2>1, <4>2 DEF SetupKnown
        <5>3. QED  BY <4>1, <5>1, <5>2 DEF Resource
      <4>3. QED  BY <4>2
    <3>3. "torn" \notin marks /\ "overlap" \notin marks => op[r].kind = "start"
      BY <1>1, <1>4
    <3>4. QED  BY <1>1, <1>2, <2>2, <3>1, <3>2, <3>3, LeaveStrong DEF IInv
  <2>3. CASE ~ Leave(r, "refused")
    <3>1. PICK next : next = IF place = "putting" THEN "committing" ELSE "activating"
      OBVIOUS
    <3>2. /\ Go(r, next) /\ op' = [op EXCEPT ![r] = o]
          /\ rules' = rules \cup {d}
          /\ UNCHANGED <<connected, names, on, aws, ruleSet, marks>>
      BY <1>1, <1>3, <1>13, <2>3, <3>1 DEF PutRule, dbVars
    <3>3. "overlap" \notin marks => Hand(o, next)'
      BY <1>4, <2>1, <3>1, <3>2 DEF Hand, SetupHand, Mine
    <3>4. marks \cap {"overlap", "torn"} = {} => FlowsAt(o, next)'
      BY <1>1, <1>5, <2>1, <3>1, <3>2 DEF FlowsAt, Flows
    <3>5. marks \cap {"overlap", "forgot", "swallowed"} = {} => KnownAt(o, next)'
      BY <1>1, <1>4, <1>6, <2>1, <3>1, <3>2 DEF KnownAt, SetupKnown
    <3>6. QED  BY <1>1, <1>2, <3>1, <3>2, <3>3, <3>4, <3>5, StepStrong DEF IInv, dbVars
  <2>4. QED  BY <2>2, <2>3
<1>14. CASE Activate(r)
  <2>1. place = "activating" /\ marks' = marks
    BY <1>1, <1>14 DEF Activate
  <2>2. CASE Leave(r, "refused")
    <3>1. ruleSet = "none"
      BY <1>1, <1>2, <1>14, <2>1, <2>2 DEF Activate, Leave, Go, IInv, TypeOK
    <3>2. marks \cap {"overlap", "forgot", "swallowed"} # {}
      BY <1>6, <2>1, <3>1 DEF SetupKnown
    <3>3. "torn" \notin marks /\ "overlap" \notin marks => op[r].kind = "start"
      BY <1>1, <1>4
    <3>4. QED  BY <1>1, <1>2, <2>1, <2>2, <3>2, <3>3, LeaveStrong DEF IInv
  <2>3. CASE ~ Leave(r, "refused")
    <3>1. /\ Go(r, "committing") /\ op' = [op EXCEPT ![r] = o] /\ ruleSet' = "ours"
          /\ UNCHANGED <<connected, names, on, aws, rules>>
      BY <1>1, <1>3, <1>14, <2>3 DEF Activate, dbVars
    <3>2. "overlap" \notin marks => Hand(o, "committing")'
      BY <1>4, <2>1, <3>1 DEF Hand, SetupHand, Mine
    <3>3. marks \cap {"overlap", "torn"} = {} => FlowsAt(o, "committing")'
      BY <1>5, <2>1, <3>1 DEF FlowsAt, Flows
    <3>4. marks \cap {"overlap", "forgot", "swallowed"} = {} => KnownAt(o, "committing")'
      BY <1>4, <1>6, <2>1, <3>1 DEF KnownAt, SetupKnown
    <3>5. QED  BY <1>1, <1>2, <2>1, <3>1, <3>2, <3>3, <3>4, StepStrong DEF IInv, dbVars
  <2>4. QED  BY <2>2, <2>3
<1>15. CheckTaken(r) \/ Claim(r) => place \in {"checking", "claiming"}
  BY <1>1 DEF CheckTaken, Claim
<1>16. QED  BY <1>7, <1>8, <1>9, <1>10, <1>11, <1>12, <1>13, <1>14, <1>15 DEF Setup

(* A removal takes from AWS before it tells the rows, and only what nobody *)
(* else uses.                                                              *)
LEMMA TeardownStrong ==
    ASSUME IInv, Strong, NEW r \in Request, Teardown(r)
    PROVE  Strong'
<1> USE DEF Ended, Ruling
<1>1. PICK o, d, p, place : o = op[r] /\ d = o.domain /\ p = o.project /\ place = at[r]
  OBVIOUS
<1>2. place \in Removing /\ place \notin Ended
  BY <1>1 DEF Removing, Teardown, AskActive, ClearRow, CountHere, CountOthers, DeleteRule,
              Inspect, Deactivate, DeleteSet, Remove
<1>3. /\ o \in Op /\ o.step \in 0..3 /\ d \in Domain /\ p \in Project /\ o.kind # "start"
      /\ o.kind \in {"stop", "disconnect"}
      /\ o.todo \subseteq Domain /\ o.wrote \subseteq Domain
      /\ o.saw \subseteq Resource /\ o.held \subseteq Resource
      /\ op' = op => op' = [op EXCEPT ![r] = o]
      /\ on \subseteq Project \X Domain /\ aws \subseteq Resource
  BY <1>1, <1>2, InHand DEF IInv, Placed, Op, TypeOK
<1>4. ASSUME "overlap" \notin marks
      PROVE  /\ Named /\ Remembered /\ Hand(o, place)
             /\ p \in connected /\ o.saw = names[p]
             /\ RemovalHand(o, place)
  BY <1>1, <1>2, <1>3, <1>4, InCharge DEF Hand
<1>5. ASSUME marks \cap {"overlap", "torn"} = {}
      PROVE  /\ FlowsAt(o, place)
             /\ \A id \in on : (id[1] = p /\ id[2] \in o.todo \cup o.wrote) \/ Flows(id)
  BY <1>1, <1>2, <1>3, <1>5, InCharge DEF FlowsAt, Doomed
<1>6. ASSUME marks \cap {"overlap", "forgot", "swallowed"} = {}
      PROVE  RemovalKnown(o, place) /\ Known
  BY <1>1, <1>2, <1>3, <1>6, InCharge DEF KnownAt, RemovalKnown
<1>7. ASSUME NEW works \in BOOLEAN, Tolerates(works)
      PROVE  marks \subseteq marks' /\ (works \/ "swallowed" \in marks')
  BY <1>7 DEF Tolerates
<1>8. Wrote(r) = {<<p, x>> : x \in o.wrote}
  BY <1>1, <1>3, NoOpAssumption DEF Wrote

<1>9. CASE AskActive(r)
  <2>1. PICK next \in {"deactivating", "deleting"} :
           next = IF ruleSet = "ours" THEN "deactivating" ELSE "deleting"
    OBVIOUS
  <2>2. /\ place = "retiring" /\ Go(r, next) /\ op' = [op EXCEPT ![r] = o]
        /\ UNCHANGED <<connected, names, on, aws, ruleSet, rules, marks>>
    BY <1>1, <1>3, <1>9, <2>1 DEF AskActive, dbVars, awsVars
  <2>3. "overlap" \notin marks => Hand(o, next)'
    BY <1>3, <1>4, <2>1, <2>2 DEF Hand, RemovalHand, Mine, Removing
  <2>4. marks \cap {"overlap", "torn"} = {} => FlowsAt(o, next)'
    BY <1>3, <1>5, <2>1, <2>2 DEF FlowsAt, Flows, Doomed
  <2>5. marks \cap {"overlap", "forgot", "swallowed"} = {} => KnownAt(o, next)'
    BY <1>3, <1>6, <2>1, <2>2 DEF KnownAt, RemovalKnown, Known, Columns, Unruled, Spared
  <2>6. QED  BY <1>1, <1>2, <2>1, <2>2, <2>3, <2>4, <2>5, StepStrong DEF IInv, dbVars
<1>10. CASE ClearRow(r)
  <2>1. PICK n : n = [o EXCEPT !.wrote = @ \cup {d}, !.todo = @ \ {d}]
    OBVIOUS
  <2>2. /\ n.kind = o.kind /\ n.project = p /\ n.domain = d
        /\ n.saw = o.saw /\ n.held = o.held /\ n.step = o.step
        /\ n.wrote = o.wrote \cup {d} /\ n.todo = o.todo \ {d}
    BY <1>1, <1>3, <2>1 DEF Op
  <2>3. /\ place = "clearing" /\ Go(r, "counting") /\ op' = [op EXCEPT ![r] = n]
        /\ UNCHANGED <<connected, names, on, aws, ruleSet, rules, marks>>
    BY <1>1, <1>10, <2>1 DEF ClearRow, dbVars, awsVars
  <2>4. "overlap" \notin marks => d \in o.todo /\ n.todo \cup n.wrote = o.todo \cup o.wrote
    BY <1>1, <1>4, <2>2, <2>3 DEF RemovalHand
  <2>5. "overlap" \notin marks => Hand(n, "counting")'
    <3>1. Mine(n)' = Mine(o)
      BY <1>1, <2>2, <2>3 DEF Mine
    <3>2. QED  BY <1>1, <1>3, <1>4, <2>2, <2>3, <2>4, <3>1 DEF Hand, RemovalHand, Removing
  <2>6. marks \cap {"overlap", "torn"} = {} => FlowsAt(n, "counting")'
    BY <1>3, <1>5, <2>2, <2>3, <2>4 DEF FlowsAt, Flows, Doomed
  <2>7. marks \cap {"overlap", "forgot", "swallowed"} = {} => KnownAt(n, "counting")'
    BY <1>1, <1>3, <1>6, <2>2, <2>3 DEF KnownAt, RemovalKnown, Known, Columns, Unruled, Spared
  <2>8. QED  BY <1>1, <1>2, <2>3, <2>5, <2>6, <2>7, StepStrong DEF IInv, dbVars
<1>11. CASE CountHere(r)
  <2>1. PICK next : next = IF ReceivingHere(r) = {} /\ o.held # {} THEN "sharing"
                           ELSE Onwards(o)
    OBVIOUS
  <2>2. /\ place = "counting" /\ Go(r, next) /\ op' = [op EXCEPT ![r] = o]
        /\ UNCHANGED <<connected, names, on, aws, ruleSet, rules, marks>>
    BY <1>1, <1>3, <1>11, <2>1 DEF CountHere, dbVars, awsVars
  <2>3. ReceivingHere(r) = Mine(o) \ o.wrote
    BY <1>1, <1>8 DEF ReceivingHere, Mine
  <2>4. next \in {"sharing", "unruling", "committing"}
    BY <2>1 DEF Onwards
  <2>5. ASSUME "overlap" \notin marks
        PROVE  /\ o.held = Resource /\ o.saw = Resource /\ names[p] = Resource
               /\ next = "sharing" => Mine(o) \subseteq o.wrote
               /\ next = "committing" => o.todo = {} /\ o.kind # "disconnect"
    <3>1. o.held = Resource /\ o.saw = Resource /\ names[p] = Resource /\ o.held # {}
          /\ (o.kind = "disconnect" => Mine(o) \subseteq o.todo \cup o.wrote)
      BY <1>4, <2>2, <2>5 DEF RemovalHand, Resource
    <3>2. CASE ReceivingHere(r) = {}
      BY <2>1, <2>3, <3>1, <3>2
    <3>3. CASE ReceivingHere(r) # {}
      BY <2>1, <2>3, <3>1, <3>3 DEF Onwards
    <3>4. QED  BY <3>1, <3>2, <3>3
  <2>6. "overlap" \notin marks => Hand(o, next)'
    BY <1>1, <1>3, <1>4, <2>2, <2>4, <2>5 DEF Hand, RemovalHand, Mine, Removing, Remnants
  <2>7. marks \cap {"overlap", "torn"} = {} => FlowsAt(o, next)'
    BY <1>3, <1>5, <2>2, <2>4 DEF FlowsAt, Flows, Doomed
  <2>8. ASSUME marks \cap {"overlap", "forgot", "swallowed"} = {} PROVE KnownAt(o, next)'
    <3>1. next = "committing" =>
             aws \ {"bucket"} \subseteq Columns(connected \ {p}) \cup o.held
      BY <1>6, <2>5, <2>8 DEF Known, Columns
    <3>2. next = "committing" => o.kind # "disconnect"
      BY <2>5, <2>8
    <3>3. Known'
      BY <1>6, <2>2, <2>8 DEF Known, Columns, Unruled
    <3>4. (Columns(connected \ {p}))' = Columns(connected \ {p})
      BY <2>2 DEF Columns
    <3>5. RemovalKnown(o, next)'
      BY <1>1, <1>6, <2>2, <2>4, <2>8, <3>1, <3>2, <3>3, <3>4 DEF RemovalKnown, Spared
    <3>6. QED  BY <1>3, <3>5 DEF KnownAt
  <2>9. QED  BY <1>1, <1>2, <2>2, <2>4, <2>6, <2>7, <2>8, StepStrong DEF IInv, dbVars
<1>12. CASE CountOthers(r)
  <2>1. PICK shared \in BOOLEAN : shared <=> OtherReceivers(r) # {}
    OBVIOUS
  <2>2. PICK n : n = IF shared THEN [o EXCEPT !.held = {}] ELSE [o EXCEPT !.step = 0]
    OBVIOUS
  <2>3. /\ n.kind = o.kind /\ n.project = p /\ n.domain = d /\ n.saw = o.saw
        /\ n.wrote = o.wrote /\ n.todo = o.todo
        /\ n.held = IF shared THEN {} ELSE o.held
        /\ n.step = IF shared THEN o.step ELSE 0
    BY <1>1, <1>3, <2>2 DEF Op
  <2>4. PICK next : next = IF shared THEN Onwards(n) ELSE "dropping"
    OBVIOUS
  <2>5. /\ place = "sharing" /\ Go(r, next) /\ op' = [op EXCEPT ![r] = n]
        /\ UNCHANGED <<connected, names, on, aws, ruleSet, rules, marks>>
    BY <1>1, <1>12, <2>1, <2>2, <2>4 DEF CountOthers, dbVars, awsVars
  <2>6. next \in {"unruling", "sharing", "committing", "dropping"}
    BY <2>4 DEF Onwards
  <2>7. ASSUME "overlap" \notin marks
        PROVE  /\ o.todo = {} /\ Mine(o) \subseteq o.wrote /\ o.held = Resource
               /\ next = IF shared THEN "committing" ELSE "dropping"
    <3>1. /\ o.todo \subseteq Mine(o) /\ Mine(o) \subseteq o.wrote
          /\ o.todo \cap o.wrote = {} /\ o.held = Resource
      BY <1>4, <2>5, <2>7 DEF RemovalHand
    <3>2. o.todo = {}
      BY <3>1
    <3>3. shared => ~ Enabled(n.held)
      BY <2>3 DEF Enabled
    <3>4. QED  BY <2>3, <2>4, <3>1, <3>2, <3>3 DEF Onwards
  <2>8. ASSUME "overlap" \notin marks PROVE Hand(n, next)'
    <3>1. Mine(n)' = Mine(o)
      BY <1>1, <2>3, <2>5 DEF Mine
    <3>2. ~ shared => \A id \in on : id[1] = p
      BY <1>1, <1>4, <2>1, <2>8 DEF OtherReceivers, Named
    <3>3. QED  BY <1>1, <1>3, <1>4, <2>3, <2>5, <2>7, <2>8, <3>1, <3>2
               DEF Hand, RemovalHand, Removing, Remnants
  <2>9. marks \cap {"overlap", "torn"} = {} => FlowsAt(n, next)'
    BY <1>3, <1>5, <2>3, <2>5, <2>6 DEF FlowsAt, Flows, Doomed
  <2>10. ASSUME marks \cap {"overlap", "forgot", "swallowed"} = {} PROVE KnownAt(n, next)'
    <3>1. Known'
      BY <1>6, <2>5, <2>10 DEF Known, Columns, Unruled
    <3>2. shared => aws' \ {"bucket"} \subseteq (Columns(connected \ {p}))'
      <4>1. ASSUME shared PROVE \E q \in connected \ {p} : names[q] = Resource
        <5>1. PICK id \in on : id[1] # p /\ id[1] \in connected
          BY <1>1, <2>1, <4>1 DEF OtherReceivers
        <5>2. QED  BY <1>4, <2>10, <5>1 DEF Named
      <4>2. QED  BY <1>3, <2>5, <4>1 DEF Columns
    <3>3. /\ \A y \in rules : \E id \in on : id[2] = y /\ Spared(o, o.wrote, id)
          /\ ruleSet \in {"made", "ours"} => \E id \in on : Spared(o, o.wrote, id)
      BY <1>6, <2>5, <2>10 DEF RemovalKnown
    <3>4. /\ \A y \in rules' : \E id \in on' : id[2] = y /\ Spared(n, o.wrote, id)
          /\ ruleSet' \in {"made", "ours"} => \E id \in on' : Spared(n, o.wrote, id)
      BY <1>1, <2>3, <2>5, <3>3 DEF Spared
    <3>5. next = IF shared THEN "committing" ELSE "dropping"
      BY <2>7, <2>10
    <3>6. next = "dropping" => \A i \in 1..n.step : Drop[i] \notin aws'
      BY <2>3, <3>5
    <3>7. CASE shared
      BY <1>3, <2>3, <2>5, <3>1, <3>2, <3>4, <3>5, <3>7 DEF KnownAt, RemovalKnown
    <3>8. CASE ~ shared
      BY <1>3, <2>3, <2>5, <3>1, <3>4, <3>5, <3>6, <3>8 DEF KnownAt, RemovalKnown
    <3>9. QED  BY <3>7, <3>8
  <2>11. QED  BY <1>1, <1>2, <2>5, <2>6, <2>8, <2>9, <2>10, StepStrong DEF IInv, dbVars
<1>13. ASSUME NEW works \in BOOLEAN, NEW x \in Domain, DeleteRule(r, x, works)
       PROVE  Strong'
  <2>1. PICK n : n = [o EXCEPT !.domain = x]
    OBVIOUS
  <2>2. /\ n.kind = o.kind /\ n.project = p /\ n.domain = x /\ n.saw = o.saw
        /\ n.wrote = o.wrote /\ n.todo = o.todo /\ n.held = o.held /\ n.step = o.step
    BY <1>1, <1>3, <2>1 DEF Op
  <2>3. PICK next \in {"clearing", "inspecting"} :
           next = IF ruleSet = "theirs" THEN "clearing" ELSE "inspecting"
    OBVIOUS
  <2>4. /\ place = "unruling" /\ x \in o.todo /\ Tolerates(works)
        /\ Go(r, next) /\ op' = [op EXCEPT ![r] = n]
        /\ rules' = IF works THEN rules \ {x} ELSE rules
        /\ UNCHANGED <<connected, names, on, aws, ruleSet>>
    BY <1>1, <1>13, <2>1, <2>3 DEF DeleteRule, dbVars
  <2>5. marks \subseteq marks' /\ (works \/ "swallowed" \in marks')
    BY <1>7, <2>4
  <2>6. ASSUME "overlap" \notin marks PROVE Hand(n, next)'
    <3>1. Mine(n)' = Mine(o)
      BY <1>1, <2>2, <2>4 DEF Mine
    <3>2. QED  BY <1>1, <1>3, <1>4, <2>2, <2>3, <2>4, <2>6, <3>1
               DEF Hand, RemovalHand, Removing
  <2>7. ASSUME marks' \cap {"overlap", "torn"} = {} PROVE FlowsAt(n, next)'
    <3>1. <<p, x>> \in on
      BY <1>1, <1>4, <2>4, <2>5, <2>7 DEF RemovalHand, Mine
    <3>2. ASSUME NEW id \in on PROVE (id[1] = p /\ id[2] \in o.todo \cup o.wrote) \/ Flows(id)'
      <4>1. CASE id[2] = x
        <5>1. id = <<p, x>>
          BY <3>1, <4>1 DEF IInv, OneReceiver
        <5>2. QED  BY <2>4, <5>1
      <4>2. CASE id[2] # x
        BY <1>5, <2>4, <2>5, <2>7, <4>2 DEF Flows
      <4>3. QED  BY <4>1, <4>2
    <3>3. QED  BY <1>3, <2>2, <2>3, <2>4, <3>2 DEF FlowsAt, Doomed
  <2>8. ASSUME marks' \cap {"overlap", "forgot", "swallowed"} = {} PROVE KnownAt(n, next)'
    <3>1. /\ marks \cap {"overlap", "forgot", "swallowed"} = {}
          /\ rules' = rules \ {x}
      BY <2>4, <2>5, <2>8
    <3>2. Known'
      BY <1>6, <2>4, <3>1 DEF Known, Columns, Unruled
    <3>3. \A y \in rules' : \E id \in on' : id[2] = y /\ Spared(n, o.wrote \cup {x}, id)
      BY <1>1, <1>6, <2>2, <2>4, <3>1 DEF RemovalKnown, Spared
    <3>4. ruleSet' \in {"made", "ours"} => \E id \in on' : Spared(n, o.wrote, id)
      BY <1>1, <1>6, <2>2, <2>4, <3>1 DEF RemovalKnown, Spared
    <3>5. RemovalKnown(n, next)'
      BY <2>2, <2>3, <2>4, <3>2, <3>3, <3>4 DEF RemovalKnown, Spared
    <3>6. QED  BY <1>3, <2>2, <3>5 DEF KnownAt
  <2>9. QED  BY <1>1, <1>2, <2>3, <2>4, <2>5, <2>6, <2>7, <2>8, StepStrong DEF IInv, dbVars
<1>14. ASSUME NEW works \in BOOLEAN, Inspect(r, works)
       PROVE  Strong'
  <2>1. PICK next \in {"retiring", "clearing"} :
           next = IF works /\ rules = {} /\ ruleSet # "none" THEN "retiring" ELSE "clearing"
    OBVIOUS
  <2>2. /\ place = "inspecting" /\ Tolerates(works)
        /\ Go(r, next) /\ op' = [op EXCEPT ![r] = o]
        /\ UNCHANGED <<connected, names, on, aws, ruleSet, rules>>
    BY <1>1, <1>3, <1>14, <2>1 DEF Inspect, dbVars, awsVars
  <2>3. marks \subseteq marks' /\ (works \/ "swallowed" \in marks')
    BY <1>7, <2>2
  <2>4. "overlap" \notin marks => Hand(o, next)'
    BY <1>1, <1>3, <1>4, <2>1, <2>2 DEF Hand, RemovalHand, Mine, Removing
  <2>5. marks \cap {"overlap", "torn"} = {} => FlowsAt(o, next)'
    BY <1>3, <1>5, <2>1, <2>2 DEF FlowsAt, Flows, Doomed
  <2>6. ASSUME marks' \cap {"overlap", "forgot", "swallowed"} = {} PROVE KnownAt(o, next)'
    <3>1. marks \cap {"overlap", "forgot", "swallowed"} = {} /\ works
      BY <2>3, <2>6
    <3>2. Known'
      BY <1>6, <2>2, <3>1 DEF Known, Columns, Unruled
    <3>3. /\ \A y \in rules' : \E id \in on' : id[2] = y /\ Spared(o, o.wrote \cup {d}, id)
          /\ ruleSet # "theirs"
      BY <1>1, <1>6, <2>2, <3>1 DEF RemovalKnown, Spared
    <3>4. CASE next = "retiring"
      <4>1. rules = {} /\ ruleSet \in {"made", "ours"}
        BY <2>1, <3>3, <3>4 DEF IInv, TypeOK, RuleSets
      <4>2. \E id \in on' : Spared(o, o.wrote, id)
        BY <1>1, <1>6, <2>2, <3>1, <4>1 DEF RemovalKnown, Spared
      <4>3. RemovalKnown(o, next)'
        BY <1>1, <2>2, <3>2, <3>3, <3>4, <4>1, <4>2 DEF RemovalKnown, Spared
      <4>4. QED  BY <1>3, <4>3 DEF KnownAt
    <3>5. CASE next = "clearing"
      <4>1. ruleSet \in {"made", "ours"} => rules # {}
        BY <2>1, <3>1, <3>5
      <4>2. ruleSet' \in {"made", "ours"} =>
               \E id \in on' : Spared(o, o.wrote \cup {d}, id)
        BY <2>2, <3>3, <4>1
      <4>3. RemovalKnown(o, next)'
        BY <1>1, <2>2, <3>2, <3>3, <3>5, <4>2 DEF RemovalKnown, Spared
      <4>4. QED  BY <1>3, <4>3 DEF KnownAt
    <3>6. QED  BY <3>4, <3>5
  <2>7. QED  BY <1>1, <1>2, <2>1, <2>2, <2>3, <2>4, <2>5, <2>6, StepStrong DEF IInv, dbVars
<1>15. ASSUME NEW works \in BOOLEAN, Deactivate(r, works) \/ DeleteSet(r, works)
       PROVE  Strong'
  <2>1. PICK next \in {"deleting", "clearing"} :
           /\ next = "deleting" => /\ place = "deactivating"
                                   /\ ruleSet' = IF works /\ ruleSet = "ours" THEN "made" ELSE ruleSet
                                   /\ rules' = rules
           /\ next = "clearing" => /\ place = "deleting"
                                   /\ works /\ ruleSet = "made" => ruleSet' = "none" /\ rules' = {}
                                   /\ ~ (works /\ ruleSet = "made") => UNCHANGED <<ruleSet, rules>>
           /\ Go(r, next)
    <3>1. CASE Deactivate(r, works)
      BY <1>1, <3>1 DEF Deactivate
    <3>2. CASE DeleteSet(r, works)
      BY <1>1, <3>2 DEF DeleteSet
    <3>3. QED  BY <1>15, <3>1, <3>2
  <2>2. /\ Tolerates(works) /\ op' = [op EXCEPT ![r] = o]
        /\ UNCHANGED <<connected, names, on, aws>>
    BY <1>3, <1>15 DEF Deactivate, DeleteSet, dbVars
  <2>3. marks \subseteq marks' /\ (works \/ "swallowed" \in marks')
    BY <1>7, <2>2
  <2>4. "overlap" \notin marks => Hand(o, next)'
    BY <1>1, <1>3, <1>4, <2>1, <2>2 DEF Hand, RemovalHand, Mine, Removing
  <2>5. ASSUME marks \cap {"overlap", "torn"} = {} PROVE FlowsAt(o, next)'
    <3>1. rules = {} /\ rules' = {}
      BY <1>5, <2>1, <2>5 DEF FlowsAt
    <3>2. \A id \in on : id[1] = p /\ id[2] \in o.todo \cup o.wrote
      BY <1>5, <2>5, <3>1 DEF Flows
    <3>3. QED  BY <1>1, <1>3, <2>1, <2>2, <3>1, <3>2 DEF FlowsAt, Doomed
  <2>6. ASSUME marks' \cap {"overlap", "forgot", "swallowed"} = {} PROVE KnownAt(o, next)'
    <3>1. marks \cap {"overlap", "forgot", "swallowed"} = {} /\ works
      BY <2>3, <2>6
    <3>2. /\ rules = {} /\ rules' = {} /\ Known
          /\ ruleSet \in {"made", "ours"}
          /\ next = "deleting" => ruleSet' = "made"
          /\ next = "clearing" => ruleSet' = "none"
      BY <1>6, <2>1, <3>1 DEF RemovalKnown
    <3>3. Known'
      BY <2>1, <2>2, <3>2 DEF Known, Columns, Unruled
    <3>4. \E id \in on' : Spared(o, o.wrote, id)
      BY <1>1, <1>6, <2>1, <2>2, <3>1, <3>2 DEF RemovalKnown, Spared
    <3>5. RemovalKnown(o, next)'
      BY <2>1, <3>2, <3>3, <3>4 DEF RemovalKnown, Spared
    <3>6. QED  BY <1>3, <3>5 DEF KnownAt
  <2>7. QED  BY <1>1, <1>2, <2>1, <2>2, <2>3, <2>4, <2>5, <2>6, StepStrong DEF IInv, dbVars
<1>16. ASSUME NEW works \in BOOLEAN, Remove(r, works)
       PROVE  Strong'
  <2>1. PICK what : what = Drop[o.step + 1]
    OBVIOUS
  <2>2. PICK goes \in BOOLEAN :
           goes <=> works /\ what \in o.held /\ ~ (what = "bucket" /\ mail)
    OBVIOUS
  <2>3. PICK n : n = [o EXCEPT !.step = Ahead(o),
                         !.held = IF what # "bucket" THEN @
                                  ELSE IF goes THEN {} ELSE @ \cap {"bucket"}]
    OBVIOUS
  <2>4. PICK next : next = IF what = "bucket" THEN Onwards(n) ELSE "dropping"
    OBVIOUS
  <2>5. /\ n.kind = o.kind /\ n.project = p /\ n.domain = d /\ n.saw = o.saw
        /\ n.wrote = o.wrote /\ n.todo = o.todo /\ n.step = Ahead(o)
        /\ n.held = IF what # "bucket" THEN o.held
                    ELSE IF goes THEN {} ELSE o.held \cap {"bucket"}
    BY <1>1, <1>3, <2>3 DEF Op
  <2>6. /\ place = "dropping" /\ Tolerates(works)
        /\ Go(r, next) /\ op' = [op EXCEPT ![r] = n]
        /\ aws' = IF ~ goes THEN aws
                  ELSE IF what = "topic" THEN aws \ {"topic", "subscription"}
                  ELSE aws \ {what}
        /\ UNCHANGED <<connected, names, on, ruleSet, rules>>
    BY <1>1, <1>16, <2>1, <2>2, <2>3, <2>4 DEF Remove, dbVars
  <2>7. marks \subseteq marks' /\ (works \/ "swallowed" \in marks')
    BY <1>7, <2>6
  <2>8. next \in {"unruling", "sharing", "committing", "dropping"}
    BY <2>4 DEF Onwards
  <2>9. /\ what = "bucket" <=> o.step = 3
        /\ what = "subscription" <=> o.step = 0
        /\ what = "topic" <=> o.step = 1
        /\ what = "queue" <=> o.step = 2
    BY <1>3, <2>1 DEF Drop
  <2>10. ASSUME "overlap" \notin marks
         PROVE  /\ o.todo = {} /\ Mine(o) \subseteq o.wrote /\ o.held = Resource
                /\ \A id \in on : id[1] = p /\ id[2] \in o.wrote
                /\ n.held = IF what # "bucket" THEN Resource
                            ELSE IF goes THEN {} ELSE {"bucket"}
                /\ next = IF what = "bucket" THEN "committing" ELSE "dropping"
    <3>1. /\ o.todo \subseteq Mine(o) /\ Mine(o) \subseteq o.wrote
          /\ o.todo \cap o.wrote = {} /\ o.held = Resource
          /\ \A id \in on : id[1] = p
      BY <1>1, <1>4, <2>6, <2>10 DEF RemovalHand
    <3>2. o.todo = {}
      BY <3>1
    <3>3. \A id \in on : id[2] \in o.wrote
      BY <1>1, <1>3, <3>1 DEF Mine
    <3>4. n.held = IF what # "bucket" THEN Resource ELSE IF goes THEN {} ELSE {"bucket"}
      BY <2>5, <3>1 DEF Resource
    <3>5. what = "bucket" => ~ Enabled(n.held)
      BY <3>4 DEF Enabled
    <3>6. QED  BY <2>4, <2>5, <3>1, <3>2, <3>3, <3>4, <3>5 DEF Onwards
  <2>11. ASSUME "overlap" \notin marks PROVE Hand(n, next)'
    <3>1. Mine(n)' = Mine(o)
      BY <1>1, <2>5, <2>6 DEF Mine
    <3>2. n.held \in Remnants
      BY <2>10, <2>11 DEF Remnants
    <3>3. \A id \in on : id[1] = p
      BY <2>10, <2>11
    <3>4. next \in {"committing", "dropping"} /\ (next = "dropping" => n.held = Resource)
      BY <2>10, <2>11
    <3>5. RemovalHand(n, next)'
      BY <1>4, <2>5, <2>6, <2>10, <2>11, <3>1, <3>2, <3>3, <3>4 DEF RemovalHand
    <3>6. QED
      BY <1>3, <1>4, <2>5, <2>6, <2>11, <3>4, <3>5 DEF Hand, Removing
  <2>12. ASSUME marks' \cap {"overlap", "torn"} = {} PROVE FlowsAt(n, next)'
    <3>1. \A id \in on' : Doomed(n, id)
      BY <1>3, <2>5, <2>6, <2>7, <2>10, <2>12 DEF Doomed
    <3>2. next \in {"committing", "dropping"}
      BY <2>7, <2>10, <2>12
    <3>3. QED  BY <1>3, <2>5, <3>1, <3>2 DEF FlowsAt, Doomed
  <2>13. ASSUME marks' \cap {"overlap", "forgot", "swallowed"} = {} PROVE KnownAt(n, next)'
    <3>1. marks \cap {"overlap", "forgot", "swallowed"} = {} /\ works
      BY <2>7, <2>13
    <3>2. aws' \subseteq aws
      BY <2>6
    <3>3. Known'
      BY <1>6, <2>6, <3>1, <3>2 DEF Known, Columns, Unruled
    <3>4. /\ \A y \in rules : \E id \in on : id[2] = y /\ Spared(o, o.wrote, id)
          /\ ruleSet \in {"made", "ours"} => \E id \in on : Spared(o, o.wrote, id)
      BY <1>6, <2>6, <3>1 DEF RemovalKnown
    <3>5. /\ \A y \in rules' : \E id \in on' : id[2] = y /\ Spared(n, o.wrote, id)
          /\ ruleSet' \in {"made", "ours"} => \E id \in on' : Spared(n, o.wrote, id)
      BY <1>1, <2>5, <2>6, <3>4 DEF Spared
    <3>6. \A i \in 1..o.step : Drop[i] \notin aws
      BY <1>6, <2>6, <3>1 DEF RemovalKnown
    <3>7. next = IF what = "bucket" THEN "committing" ELSE "dropping"
      BY <2>10, <3>1
    <3>8. what # "bucket" => goes
      BY <2>2, <2>10, <3>1, <2>9, <1>3 DEF Resource
    <3>9. what # "bucket" => what \notin aws'
      BY <2>6, <3>8
    <3>10. ASSUME next = "dropping" PROVE \A i \in 1..n.step : Drop[i] \notin aws'
      <4>1. n.step = o.step + 1 /\ what \notin aws'
        BY <1>3, <2>5, <2>9, <3>7, <3>9, <3>10 DEF Ahead
      <4>2. QED  BY <1>3, <2>1, <3>2, <3>6, <4>1
    <3>11. ASSUME next = "committing" PROVE aws' \subseteq {"bucket"}
      <4>1. o.step = 3
        BY <2>9, <3>7, <3>11
      <4>2. Drop[1] \notin aws /\ Drop[2] \notin aws /\ Drop[3] \notin aws
        BY <3>6, <4>1
      <4>3. QED  BY <1>3, <3>2, <4>2 DEF Drop, Resource
    <3>12. RemovalKnown(n, next)'
      BY <2>5, <3>3, <3>5, <3>7, <3>10, <3>11 DEF RemovalKnown
    <3>13. QED  BY <1>3, <2>5, <3>12 DEF KnownAt
  <2>14. QED  BY <1>1, <1>2, <2>6, <2>7, <2>8, <2>11, <2>12, <2>13, StepStrong DEF IInv, dbVars
<1>17. QED  BY <1>9, <1>10, <1>11, <1>12, <1>13, <1>14, <1>15, <1>16 DEF Teardown

(* Mail that comes or expires changes nothing these read.                  *)
LEMMA NextStrong == IInv /\ Strong /\ [Next]_vars => Strong'
<1> SUFFICES ASSUME IInv, Strong, [Next]_vars PROVE Strong'
  OBVIOUS
<1>1. CASE UNCHANGED vars \/ MailArrives \/ MailExpires
  <2>1. UNCHANGED <<connected, names, on, aws, ruleSet, rules, at, op, marks>>
    BY <1>1 DEF vars, dbVars, awsVars, MailArrives, MailExpires
  <2>2. Busy' = Busy
    BY <2>1 DEF Busy
  <2>3. (\A id \in on : Flows(id))' <=> \A id \in on : Flows(id)
    BY <2>1 DEF Flows
  <2>4. Named' = Named /\ Remembered' = Remembered /\ Known' = Known
    BY <2>1 DEF Named, Remembered, Known, Columns, Unruled
  <2>5. ASSUME NEW r \in Request
        PROVE  /\ Hand(op[r], at[r]) => Hand(op[r], at[r])'
               /\ FlowsAt(op[r], at[r]) => FlowsAt(op[r], at[r])'
               /\ KnownAt(op[r], at[r]) => KnownAt(op[r], at[r])'
    <3>1. op'[r] = op[r] /\ at'[r] = at[r]
      BY <2>1
    <3>2. Hand(op[r], at[r]) => Hand(op[r], at[r])'
      BY <2>1, <3>1 DEF Hand, SetupHand, RemovalHand, Mine
    <3>3. FlowsAt(op[r], at[r]) => FlowsAt(op[r], at[r])'
      BY <2>1, <3>1 DEF FlowsAt, Flows, Doomed
    <3>4. KnownAt(op[r], at[r]) => KnownAt(op[r], at[r])'
      BY <2>1, <3>1 DEF KnownAt, SetupKnown, RemovalKnown, Known, Columns, Unruled, Spared
    <3>5. QED  BY <3>2, <3>3, <3>4
  <2>6. OneAtATime'
    BY <2>1, <2>2, <2>4, <2>5 DEF Strong, OneAtATime
  <2>7. StillFlows'
    BY <2>1, <2>2, <2>3, <2>5 DEF Strong, StillFlows
  <2>8. StillKnown'
    BY <2>1, <2>2, <2>4, <2>5 DEF Strong, StillKnown
  <2>9. QED  BY <2>6, <2>7, <2>8 DEF Strong
<1>2. ASSUME NEW r \in Request, Requests(r) \/ Setup(r) \/ Teardown(r) \/ Ends(r)
      PROVE  Strong'
  BY <1>2, BeginStrong, SetupStrong, TeardownStrong, EndStrong
<1>3. QED  BY <1>1, <1>2 DEF Next

(* Strong holds throughout every behaviour.                                *)
LEMMA StrongInvariance == Spec => []Strong
BY Invariance, InitStrong, NextStrong, PTL DEF Spec

(* A domain that the page says receives does, as long as requests are made *)
(* one at a time and no removal is cut short: setup_receiving commits last *)
(* of all, and teardown_receiving keeps what any other domain or project   *)
(* of the account still uses.                                              *)
THEOREM WhatReceivesWorks == Spec => []MailFlows
<1>1. Strong => MailFlows
  <2> SUFFICES ASSUME Strong, Busy = {}, marks \cap {"overlap", "torn"} = {},
                      NEW id \in on
               PROVE  /\ id[2] \in rules /\ ruleSet \in {"ours", "theirs"}
                      /\ aws = Resource
                      /\ id[1] \in connected /\ names[id[1]] = Resource
    BY DEF MailFlows
  <2>1. Flows(id)
    BY DEF Strong, StillFlows
  <2>2. Named
    BY DEF Strong, OneAtATime
  <2>3. QED  BY <2>1, <2>2 DEF Flows, Named
<1>2. QED  BY <1>1, StrongInvariance, PTL

(* Nothing SESKit made is left in the account unknown to every row, as     *)
(* long as requests are made one at a time, no setup fails and no failure  *)
(* of a removal is passed over: teardown_receiving takes from AWS first    *)
(* and tells the row second, so one cut short can be run again.            *)
THEOREM NothingIsLeftBehind == Spec => []NothingStranded
<1>1. Strong => NothingStranded
  BY DEF Strong, StillKnown, Known, Columns, NothingStranded
<1>2. QED  BY <1>1, StrongInvariance, PTL
=============================================================================
