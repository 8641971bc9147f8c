------------------------------ MODULE Receiving ------------------------------
(***************************************************************************)
(* Switching the receiving of mail on and off.                             *)
(*                                                                         *)
(* The projects of one AWS account and region share a bucket, a topic, a   *)
(* queue and its subscription, and the account's receipt rules.  A request *)
(* is one database transaction (READ COMMITTED) around a dozen AWS calls;  *)
(* nothing makes the two agree but the order of the steps.  Each action is *)
(* one statement or one call, with the code up to the next.                *)
(*                                                                         *)
(* AWS and the database are not under src/: they are modelled from how     *)
(* src/ uses them.                                                         *)
(***************************************************************************)
EXTENDS Naturals, Sequences

CONSTANTS
    Project,     \* projects connected to the account and region
    Domain,      \* domains
    Owns,        \* the verified domains of each project
    Request,     \* requests that can be open at once
    NoOp,        \* nothing in hand
    MaxStarts,   \* bound: requests made
    MaxFailures  \* bound: AWS calls that fail, requests that die

ASSUME OwnsAssumption == Owns \in [Project -> SUBSET Domain]
ASSUME BoundAssumption == MaxStarts \in Nat /\ MaxFailures \in Nat

VARIABLES
    connected, \* projects with a connection row
    names,     \* the resources each project's connection row names
    on,        \* identities, <<project, domain>>, with an inbound_rule_name
    aws,       \* the shared resources that exist
    mail,      \* the bucket holds mail
    ruleSet,   \* the account's rule sets: see RuleSets
    rules,     \* domains with a rule in the set that SESKit uses
    at,        \* where each request is
    op,        \* what it has in hand
    starts,
    failures,
    alone,     \* requests that nothing has disturbed
    marks      \* what has ever gone wrong, or been done at once

dbVars  == <<connected, names, on>>
awsVars == <<aws, mail, ruleSet, rules>>
vars == <<connected, names, on, aws, mail, ruleSet, rules, at, op, starts, failures,
          alone, marks>>

(* provision_inbound makes them in this order, remove_inbound removes them *)
(* in the other.                                                           *)
Build == <<"bucket", "topic", "queue", "subscription">>
Drop  == <<"subscription", "topic", "queue", "bucket">>
Resource == {"bucket", "topic", "queue", "subscription"}

(* No set is active and ours does not exist; ours exists but is not active *)
(* ("made"); ours is active; the user's own is active, and stays so.       *)
RuleSets == {"none", "made", "ours", "theirs"}

Op == [kind : {"start", "stop", "disconnect"}, project : Project, domain : Domain,
       was : BOOLEAN,             \* the domain received when it was loaded
       todo : SUBSET Domain,      \* domains still to switch off
       saw : SUBSET Resource,     \* the connection's columns as they were loaded
       held : SUBSET Resource,    \* and as the session has them now
       wrote : SUBSET Domain,     \* identity rows updated and not committed
       step : 0..3,               \* calls made of those below
       listed : BOOLEAN]          \* the rule was in the set when it was read

ASSUME NoOpAssumption == NoOp \notin Op

Ended == {"idle", "refused"}
AtRule == {"describing", "creating", "putting", "puttingFirst", "activating"}
Removing == {"unruling", "inspecting", "retiring", "deactivating", "deleting",
             "clearing", "counting", "sharing", "dropping"}
Places == Ended \cup AtRule \cup Removing
          \cup {"checking", "claiming", "building", "committing"}

(* Identity rows a request has updated: no other can until it ends.        *)
Wrote(g) == IF op[g] = NoOp THEN {} ELSE {<<op[g].project, d>> : d \in op[g].wrote}
Elsewhere(r) == UNION {Wrote(g) : g \in Request \ {r}}

-----------------------------------------------------------------------------
Init ==
    /\ connected = Project
    /\ names = [p \in Project |-> {}]
    /\ on = {}
    /\ aws = {}
    /\ mail = FALSE
    /\ ruleSet \in {"none", "theirs"}
    /\ rules = {}
    /\ at = [r \in Request |-> "idle"]
    /\ op = [r \in Request |-> NoOp]
    /\ starts = 0
    /\ failures = 0
    /\ alone = [r \in Request |-> FALSE]
    /\ marks = {}

-----------------------------------------------------------------------------
(* The beginning and the end of a request.                                 *)

Busy == {r \in Request : at[r] \notin Ended}

Go(r, place) == at' = [at EXCEPT ![r] = place]

(* The session closes without a commit: nothing it flushed remains.        *)
Leave(r, place) ==
    /\ Go(r, place)
    /\ op' = [op EXCEPT ![r] = NoOp]
    /\ UNCHANGED <<dbVars, awsVars, starts>>

(* The connection and the identity are loaded once.                        *)
Begin(r, k, p, d, domains) ==
    /\ at[r] \in Ended
    /\ starts < MaxStarts
    /\ p \in connected
    /\ starts' = starts + 1
    /\ op' = [op EXCEPT ![r] =
                [kind |-> k, project |-> p, domain |-> d, was |-> <<p, d>> \in on,
                 todo |-> domains, saw |-> names[p], held |-> names[p],
                 wrote |-> {}, step |-> 0, listed |-> FALSE]]
    /\ alone' = [g \in Request |-> g = r /\ Busy = {}]
    /\ marks' = IF Busy = {} THEN marks ELSE marks \cup {"overlap"}
    /\ UNCHANGED <<dbVars, awsVars, failures>>

Start(r, p, d) ==
    /\ d \in Owns[p]
    /\ Begin(r, "start", p, d, {})
    /\ Go(r, "checking")

(* A domain that does not receive is left alone.                           *)
Stop(r, p, d) ==
    /\ <<p, d>> \in on
    /\ Begin(r, "stop", p, d, {d})
    /\ Go(r, "unruling")

(* inbound_enabled: the topic and the queue are named.                     *)
Enabled(columns) == {"topic", "queue"} \subseteq columns

(* disconnect_aws: every domain of the project, then what is left without  *)
(* any, then the connection row.                                           *)
Disconnect(r, p, d) ==
    LET domains == {x \in Domain : <<p, x>> \in on} IN
    /\ d \in IF domains = {} THEN Domain ELSE domains
    /\ Begin(r, "disconnect", p, d, domains)
    /\ Go(r, IF domains # {} THEN "unruling"
             ELSE IF Enabled(names[p]) THEN "sharing" ELSE "committing")

(* An AWS call raises.  setup_receiving puts the identity back, the page   *)
(* is shown with the reason, and the session closes as it is.              *)
AwsRefuses(r) ==
    /\ at[r] \in AtRule \cup {"building", "retiring"}
    /\ failures < MaxFailures
    /\ failures' = failures + 1
    /\ alone' = [alone EXCEPT ![r] = FALSE]
    /\ marks' = marks \cup {IF op[r].kind = "start" THEN "forgot" ELSE "torn"}
    /\ Leave(r, "refused")

(* The process dies, or the database does not answer.                      *)
Dies(r) ==
    /\ at[r] \notin Ended
    /\ failures < MaxFailures
    /\ failures' = failures + 1
    /\ alone' = [alone EXCEPT ![r] = FALSE]
    /\ marks' = marks \cup {IF op[r].kind = "start" THEN "forgot" ELSE "torn"}
    /\ Leave(r, "idle")

(* Two requests wait for each other's identity row: the database ends one. *)
Wants(r) == {<<op[r].project, op[r].domain>>}
DeadlockBroken(r) ==
    /\ at[r] = "clearing"
    /\ \E g \in Request \ {r} : /\ at[g] = "clearing"
                                /\ Wants(r) \subseteq Wrote(g)
                                /\ Wants(g) \subseteq Wrote(r)
    /\ Leave(r, "idle")
    /\ UNCHANGED <<failures, alone, marks>>

(* Mutant: what was built is not written to the connection.                *)
SavedNothing(r) == names[op[r].project]

(* A flush writes the columns that differ from what was loaded.            *)
Saved(r) == (names[op[r].project] \ (op[r].saw \ op[r].held))
                \cup (op[r].held \ op[r].saw)

(* The last flush and the commit.                                          *)
Commit(r) ==
    LET p == op[r].project
        rows == Wrote(r)
    IN  /\ at[r] = "committing"
        /\ op[r].held = op[r].saw \/ p \in connected
        /\ on' = IF op[r].kind = "start" THEN on \cup rows ELSE on \ rows
        /\ names' = [names EXCEPT ![p] = IF op[r].kind = "disconnect" THEN {} ELSE Saved(r)]
        /\ connected' = IF op[r].kind = "disconnect" THEN connected \ {p} ELSE connected
        /\ Go(r, "idle")
        /\ op' = [op EXCEPT ![r] = NoOp]
        /\ UNCHANGED <<awsVars, starts, failures, alone, marks>>

(* The connection row is gone: the flush updates nothing and raises.       *)
RowGone(r) ==
    /\ at[r] = "committing"
    /\ op[r].held # op[r].saw
    /\ op[r].project \notin connected
    /\ Leave(r, "idle")
    /\ UNCHANGED <<failures, alone, marks>>

-----------------------------------------------------------------------------
(* setup_receiving.                                                        *)

OthersReceive(p, d) == \E q \in Project \ {p} : <<q, d>> \in on

Taken(r) ==
    /\ Leave(r, "idle")
    /\ UNCHANGED <<failures, alone, marks>>

(* The count that comes before the claim.                                  *)
CheckTaken(r) ==
    /\ at[r] = "checking"
    /\ IF OthersReceive(op[r].project, op[r].domain)
       THEN Taken(r)
       ELSE /\ Go(r, "claiming")
            /\ UNCHANGED <<dbVars, awsVars, op, starts, failures, alone, marks>>

(* Mutant: there is no unique index on the domains that receive.           *)
ClaimAnyway(r) ==
    /\ at[r] = "claiming"
    /\ op[r].was \/ <<op[r].project, op[r].domain>> \notin Elsewhere(r)
    /\ Go(r, "building")
    /\ op' = [op EXCEPT ![r].wrote = IF op[r].was THEN {} ELSE {op[r].domain}]
    /\ UNCHANGED <<dbVars, awsVars, starts, failures, alone, marks>>

(* _claim_domain.  A name that does not change is not written.  Otherwise  *)
(* the update waits for any transaction that has written a row of this     *)
(* domain, and the unique index then refuses a second receiver.            *)
Claim(r) ==
    LET d == op[r].domain IN
    /\ at[r] = "claiming"
    /\ op[r].was \/ \A id \in Elsewhere(r) : id[2] # d
    /\ IF ~op[r].was /\ OthersReceive(op[r].project, d)
       THEN Taken(r)
       ELSE /\ Go(r, "building")
            /\ op' = [op EXCEPT ![r].wrote = IF op[r].was THEN {} ELSE {d}]
            /\ UNCHANGED <<dbVars, awsVars, starts, failures, alone, marks>>

(* The call after this one; after the last, the count starts over.         *)
Ahead(o) == IF o.step = 3 THEN 0 ELSE o.step + 1

(* provision_inbound, one call at a time; each finds what is there or      *)
(* makes it.  The row is told at the end, in memory.                       *)
Provision(r) ==
    LET made == Build[op[r].step + 1]
        done == op[r].step = 3
    IN  /\ at[r] = "building"
        /\ IF made = "subscription" /\ ~{"topic", "queue"} \subseteq aws
           THEN Leave(r, "refused")
           ELSE /\ aws' = aws \cup {made}
                /\ op' = [op EXCEPT ![r].step = Ahead(op[r]),
                                    ![r].held = IF done THEN Resource ELSE @]
                /\ Go(r, IF done THEN "describing" ELSE "building")
                /\ UNCHANGED <<dbVars, mail, ruleSet, rules, starts>>
        /\ UNCHANGED <<failures, alone, marks>>

(* The active rule set, and whether the rule is in it.                     *)
Describe(r) ==
    LET active == ruleSet \in {"ours", "theirs"} IN
    /\ at[r] = "describing"
    /\ Go(r, IF active THEN "putting" ELSE "creating")
    /\ op' = [op EXCEPT ![r].listed = active /\ op[r].domain \in rules]
    /\ UNCHANGED <<dbVars, awsVars, starts, failures, alone, marks>>

(* Already there will do.                                                  *)
CreateSet(r) ==
    /\ at[r] = "creating"
    /\ ruleSet' = IF ruleSet = "none" THEN "made" ELSE ruleSet
    /\ Go(r, "puttingFirst")
    /\ UNCHANGED <<dbVars, aws, mail, rules, op, starts, failures, alone, marks>>

(* Created, or updated if it was listed.  SES refuses to create a rule     *)
(* that exists, to update one that does not, and either without the set,   *)
(* the bucket or the topic.                                                *)
PutRule(r) ==
    LET d == op[r].domain IN
    /\ at[r] \in {"putting", "puttingFirst"}
    /\ IF /\ ruleSet # "none"
          /\ op[r].listed <=> d \in rules
          /\ {"bucket", "topic"} \subseteq aws
       THEN /\ rules' = rules \cup {d}
            /\ Go(r, IF at[r] = "putting" THEN "committing" ELSE "activating")
            /\ UNCHANGED <<dbVars, aws, mail, ruleSet, op, starts>>
       ELSE Leave(r, "refused")
    /\ UNCHANGED <<failures, alone, marks>>

Activate(r) ==
    /\ at[r] = "activating"
    /\ IF ruleSet = "none"
       THEN Leave(r, "refused")
       ELSE /\ ruleSet' = "ours"
            /\ Go(r, "committing")
            /\ UNCHANGED <<dbVars, aws, mail, rules, op, starts>>
    /\ UNCHANGED <<failures, alone, marks>>

-----------------------------------------------------------------------------
(* teardown_receiving, for one domain after another.                       *)

(* A removal's failures are logged and passed over.                        *)
Tolerates(works) ==
    IF works THEN UNCHANGED <<failures, marks>>
    ELSE /\ failures < MaxFailures
         /\ failures' = failures + 1
         /\ marks' = marks \cup {"swallowed"}

(* The set is looked at only if SESKit made it.                            *)
DeleteRule(r, d, works) ==
    /\ at[r] = "unruling"
    /\ d \in op[r].todo
    /\ Tolerates(works)
    /\ rules' = IF works THEN rules \ {d} ELSE rules
    /\ op' = [op EXCEPT ![r].domain = d]
    /\ Go(r, IF ruleSet = "theirs" THEN "clearing" ELSE "inspecting")
    /\ UNCHANGED <<dbVars, aws, mail, ruleSet, starts, alone>>

Inspect(r, works) ==
    /\ at[r] = "inspecting"
    /\ Tolerates(works)
    /\ Go(r, IF works /\ rules = {} /\ ruleSet # "none" THEN "retiring" ELSE "clearing")
    /\ UNCHANGED <<dbVars, awsVars, op, starts, alone>>

AskActive(r) ==
    /\ at[r] = "retiring"
    /\ Go(r, IF ruleSet = "ours" THEN "deactivating" ELSE "deleting")
    /\ UNCHANGED <<dbVars, awsVars, op, starts, failures, alone, marks>>

Deactivate(r, works) ==
    /\ at[r] = "deactivating"
    /\ Tolerates(works)
    /\ ruleSet' = IF works /\ ruleSet = "ours" THEN "made" ELSE ruleSet
    /\ Go(r, "deleting")
    /\ UNCHANGED <<dbVars, aws, mail, rules, op, starts, alone>>

(* SES does not delete the active set, and deletes any other with whatever *)
(* is in it.                                                               *)
DeleteSet(r, works) ==
    /\ at[r] = "deleting"
    /\ Tolerates(works)
    /\ IF works /\ ruleSet = "made"
       THEN ruleSet' = "none" /\ rules' = {}
       ELSE UNCHANGED <<ruleSet, rules>>
    /\ Go(r, "clearing")
    /\ UNCHANGED <<dbVars, aws, mail, op, starts, alone>>

(* The row second.                                                         *)
ClearRow(r) ==
    LET d == op[r].domain IN
    /\ at[r] = "clearing"
    /\ <<op[r].project, d>> \notin Elsewhere(r)
    /\ op' = [op EXCEPT ![r].wrote = @ \cup {d}, ![r].todo = @ \ {d}]
    /\ Go(r, "counting")
    /\ UNCHANGED <<dbVars, awsVars, starts, failures, alone, marks>>

(* To the next domain, or out.                                             *)
Onwards(o) ==
    IF o.todo # {} THEN "unruling"
    ELSE IF o.kind = "disconnect" /\ Enabled(o.held) THEN "sharing" ELSE "committing"

(* The project's identities that receive, with the session's own writes.   *)
ReceivingHere(r) == {d \in Domain : <<op[r].project, d>> \in on \ Wrote(r)}

CountHere(r) ==
    /\ at[r] = "counting"
    /\ Go(r, IF ReceivingHere(r) = {} /\ op[r].held # {} THEN "sharing" ELSE Onwards(op[r]))
    /\ UNCHANGED <<dbVars, awsVars, op, starts, failures, alone, marks>>

(* Mutant: the other projects of the account are not counted.              *)
NoneElsewhere(r) == {}

(* count_other_receivers: identities of other connected projects.          *)
OtherReceivers(r) == {id \in on : id[1] # op[r].project /\ id[1] \in connected}

CountOthers(r) ==
    LET kept == [op[r] EXCEPT !.held = {}] IN
    /\ at[r] = "sharing"
    /\ IF OtherReceivers(r) # {}
       THEN op' = [op EXCEPT ![r] = kept] /\ Go(r, Onwards(kept))
       ELSE op' = [op EXCEPT ![r].step = 0] /\ Go(r, "dropping")
    /\ UNCHANGED <<dbVars, awsVars, starts, failures, alone, marks>>

(* remove_inbound, one call at a time, for what the row names.  A topic    *)
(* takes its subscription with it; a bucket with mail stays, and stays     *)
(* named, as it does if its removal fails.                                 *)
Remove(r, works) ==
    LET what == Drop[op[r].step + 1]
        goes == works /\ what \in op[r].held /\ ~(what = "bucket" /\ mail)
        left == [op[r] EXCEPT !.step = Ahead(op[r]),
                    !.held = IF what # "bucket" THEN @
                             ELSE IF goes THEN {} ELSE @ \cap {"bucket"}]
    IN  /\ at[r] = "dropping"
        /\ Tolerates(works)
        /\ aws' = IF ~goes THEN aws
                  ELSE IF what = "topic" THEN aws \ {"topic", "subscription"}
                  ELSE aws \ {what}
        /\ op' = [op EXCEPT ![r] = left]
        /\ Go(r, IF what = "bucket" THEN Onwards(left) ELSE "dropping")
        /\ UNCHANGED <<dbVars, mail, ruleSet, rules, starts, alone>>

-----------------------------------------------------------------------------
(* SES stores mail for a domain with a rule; the bucket's expiry empties   *)
(* it.                                                                     *)
MailArrives ==
    /\ ~mail
    /\ rules # {} /\ ruleSet \in {"ours", "theirs"} /\ "bucket" \in aws
    /\ mail' = TRUE
    /\ UNCHANGED <<dbVars, aws, ruleSet, rules, at, op, starts, failures, alone, marks>>

MailExpires ==
    /\ mail
    /\ mail' = FALSE
    /\ UNCHANGED <<dbVars, aws, ruleSet, rules, at, op, starts, failures, alone, marks>>

-----------------------------------------------------------------------------
Requests(r) == \E p \in Project, d \in Domain :
    Start(r, p, d) \/ Stop(r, p, d) \/ Disconnect(r, p, d)

Setup(r) ==
    \/ CheckTaken(r) \/ Claim(r) \/ Provision(r)
    \/ Describe(r) \/ CreateSet(r) \/ PutRule(r) \/ Activate(r)

Teardown(r) ==
    \/ AskActive(r) \/ ClearRow(r) \/ CountHere(r) \/ CountOthers(r)
    \/ \E works \in BOOLEAN :
          \/ \E d \in Domain : DeleteRule(r, d, works)
          \/ Inspect(r, works) \/ Deactivate(r, works) \/ DeleteSet(r, works)
          \/ Remove(r, works)

Ends(r) == Commit(r) \/ RowGone(r) \/ AwsRefuses(r) \/ Dies(r) \/ DeadlockBroken(r)

Next == \/ \E r \in Request : Requests(r) \/ Setup(r) \/ Teardown(r) \/ Ends(r)
        \/ MailArrives \/ MailExpires

Spec == Init /\ [][Next]_vars

-----------------------------------------------------------------------------
(* Types of the state.                                                     *)
TypeOK ==
    /\ connected \subseteq Project
    /\ names \in [Project -> SUBSET Resource]
    /\ on \subseteq Project \X Domain
    /\ aws \subseteq Resource
    /\ mail \in BOOLEAN
    /\ ruleSet \in RuleSets
    /\ rules \subseteq Domain
    /\ at \in [Request -> Places]
    /\ op \in [Request -> Op \cup {NoOp}]
    /\ starts \in 0..MaxStarts
    /\ failures \in 0..MaxFailures
    /\ alone \in [Request -> BOOLEAN]
    /\ marks \subseteq {"overlap", "torn", "forgot", "swallowed"}

(* A domain receives for one project at most, whatever requests and        *)
(* failures come together: its MX record can only point at one place, and  *)
(* locate would otherwise give one project's mail to another.              *)
OneReceiver ==
    \A a, b \in on : a[2] = b[2] => a = b

(* A domain that the page says receives does: its rule is in the active    *)
(* set, the rule's bucket, topic, queue and subscription exist, and the    *)
(* connection row tells the worker which queue to poll.  True of requests  *)
(* made one at a time of which no removal was cut short; other failures    *)
(* may have come before.                                                   *)
MailFlows ==
    Busy = {} /\ marks \cap {"overlap", "torn"} = {} =>
        \A id \in on : /\ id[2] \in rules /\ ruleSet \in {"ours", "theirs"}
                       /\ aws = Resource
                       /\ id[1] \in connected /\ names[id[1]] = Resource

(* What SESKit made in the account and is still there is known to some     *)
(* row, so that it can be removed later: resources by a connection (but a  *)
(* bucket may outlive it with mail), rules by an identity, and its own     *)
(* rule set goes with the last rule.  True of requests made one at a time, *)
(* when no setup failed and no removal's failure was passed over; a        *)
(* removal may have been cut short, because AWS comes first and the row    *)
(* second.                                                                 *)
NothingStranded ==
    Busy = {} /\ marks \cap {"overlap", "forgot", "swallowed"} = {} =>
        /\ aws \ {"bucket"} \subseteq UNION {names[p] : p \in connected}
        /\ \A d \in rules : \E p \in Project : <<p, d>> \in on
        /\ ruleSet \in {"made", "ours"} => on # {}

(* "Recorded as soon as it exists, and kept if the rule below then fails"  *)
(* (core/services/inbound.py): a setup whose rule AWS refuses leaves a     *)
(* connection row that names what was built.  The code does not keep it:   *)
(* the page that shows the refusal does not commit.                        *)
KeptIfRuleFails ==
    [][\A r \in Request :
          at[r] \in AtRule /\ at'[r] = "refused" => names'[op[r].project] = Resource]_vars

(* "Running it again is how a user repairs a rule", and put_rule leaves    *)
(* "the rule in the state it asked for": a setup that runs alone, of which *)
(* no AWS call fails for a reason of its own, is not refused.  A setup cut *)
(* short between the first rule and the activation makes it fail for good. *)
RunAgainRepairs ==
    \A r \in Request : at[r] = "refused" => ~alone[r]
=============================================================================
