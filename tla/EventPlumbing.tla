---------------------------- MODULE EventPlumbing ----------------------------
(***************************************************************************)
(* The AWS resources that report delivery events.                          *)
(*                                                                         *)
(* The projects of one AWS account and region, a zone here, share a topic, *)
(* a queue, its subscription, a configuration set and its event            *)
(* destination.  Each project's connection row names what it uses.  A      *)
(* request loads the row once, makes its AWS calls and commits; nothing    *)
(* keeps two requests apart.  Each action is one call or one statement.    *)
(*                                                                         *)
(* AWS and the database are not under src/: they are modelled from how     *)
(* src/ uses them.                                                         *)
(***************************************************************************)
EXTENDS Naturals, Sequences

CONSTANTS
    Project,     \* projects
    Zone,        \* AWS accounts and regions
    Nowhere,     \* no zone
    Request,     \* requests that can be open at once
    NoOp,        \* nothing in hand
    MaxStarts,   \* bound: requests made
    MaxFailures  \* bound: AWS calls that fail, requests that die, deletions by hand

ASSUME ZoneAssumption == Nowhere \notin Zone
ASSUME StartsAssumption == MaxStarts \in Nat /\ MaxFailures \in Nat

VARIABLES
    row,       \* each project's connection
    exists,    \* the resources in each zone
    tracked,   \* the zone's destination reports opens and clicks
    setBy,     \* the project whose request last wrote it
    stage,     \* where each request is
    op,        \* what it has in hand
    starts,
    failures,
    alone,     \* requests that no other has overlapped
    disturbed, \* projects for which something was cut short or undone, not set up since
    strays     \* why a resource may be there that no row names

awsVars == <<exists, tracked, setBy>>
plumbingVars == <<row, awsVars, stage, op, starts, failures, alone, disturbed, strays>>

Resource == {"topic", "queue", "subscription", "set", "destination"}

(* A connection: its zone, the zone its event columns name resources of,   *)
(* and its wish to report opens and clicks.  Without one, zone is Nowhere. *)
Connection == [zone : Zone \cup {Nowhere}, built : Zone \cup {Nowhere}, track : BOOLEAN]
Blank == [zone |-> Nowhere, built |-> Nowhere, track |-> FALSE]

Op == [kind : {"setup", "remove", "track", "disconnect", "connect"}, project : Project,
       saw : Connection,             \* the row as it was loaded
       held : Connection,            \* and as the session has it now
       step : 0..5]                  \* calls made

(* provision_events and remove_events make and remove them in these orders. *)
Build == <<"topic", "queue", "subscription", "set", "destination">>
(* Mutant: the queue is forgotten.                                         *)
DropAllButQueue == <<"destination", "set", "subscription", "topic">>
Drop == <<"destination", "set", "subscription", "topic", "queue">>

Ended == {"idle", "refused"}
Stages == Ended \cup {"building", "counting", "dropping", "updating", "verifying", "committing"}

Enabled(c) == c.built # Nowhere

PlumbingInit ==
    /\ row = [p \in Project |-> Blank]
    /\ exists = [z \in Zone |-> {}]
    /\ tracked = [z \in Zone |-> FALSE]
    /\ setBy = [z \in Zone |-> {}]
    /\ stage = [r \in Request |-> "idle"]
    /\ op = [r \in Request |-> NoOp]
    /\ starts = 0 /\ failures = 0
    /\ alone = {}
    /\ disturbed = {}
    /\ strays = {}

-----------------------------------------------------------------------------
Busy == {r \in Request : stage[r] \notin Ended}

Go(r, place) == stage' = [stage EXCEPT ![r] = place]

(* What other requests did while this one was open is not its doing: from  *)
(* the first overlap until the next set-up nothing is promised.            *)
Begin(r, k, p, held) ==
    /\ stage[r] \in Ended
    /\ starts < MaxStarts
    /\ starts' = starts + 1
    /\ op' = [op EXCEPT ![r] = [kind |-> k, project |-> p, saw |-> row[p],
                                held |-> held, step |-> 0]]
    /\ alone' = IF Busy = {} THEN {r} ELSE {}
    /\ disturbed' = IF Busy = {} THEN disturbed ELSE Project
    /\ strays' = IF Busy = {} THEN strays ELSE strays \cup {"overlap"}
    /\ UNCHANGED <<row, awsVars, failures>>

Setup(r, p) ==
    /\ row[p].zone # Nowhere
    /\ Begin(r, "setup", p, row[p])
    /\ Go(r, "building")

RemoveEvents(r, p) ==
    /\ Enabled(row[p])
    /\ Begin(r, "remove", p, row[p])
    /\ Go(r, "counting")

(* Without events the wish is stored and no call made.                     *)
ChangeTracking(r, p, b) ==
    /\ row[p].zone # Nowhere
    /\ Begin(r, "track", p, [row[p] EXCEPT !.track = b])
    /\ Go(r, IF Enabled(row[p]) THEN "updating" ELSE "committing")

Disconnect(r, p) ==
    /\ row[p].zone # Nowhere
    /\ Begin(r, "disconnect", p, row[p])
    /\ Go(r, IF Enabled(row[p]) THEN "counting" ELSE "committing")

(* connect_aws stores a verified key and the zone it is for, and leaves    *)
(* the columns that name event resources as they are.                      *)
Connect(r, p, z) ==
    /\ Begin(r, "connect", p, [row[p] EXCEPT !.zone = z])
    /\ Go(r, "verifying")

Leave(r, place) ==
    /\ Go(r, place)
    /\ op' = [op EXCEPT ![r] = NoOp]
    /\ alone' = alone \ {r}
    /\ UNCHANGED <<row, starts>>

(* Nothing is committed.                                                   *)
Abandon(r) ==
    /\ Leave(r, "refused")
    /\ UNCHANGED awsVars

(* A call raises, or finds what it needs missing: the page shows the       *)
(* reason.  What a set-up had made by then stays.                          *)
Raises(r) ==
    /\ Abandon(r)
    /\ strays' = strays \cup IF stage[r] = "building" THEN {"refused"} ELSE {}
    /\ UNCHANGED disturbed

AwsRefuses(r) ==
    /\ stage[r] \in {"building", "updating", "verifying"}
    /\ failures < MaxFailures
    /\ failures' = failures + 1
    /\ Raises(r)

(* A process ends between two calls, or between the last and the commit.   *)
Dies(r) ==
    /\ r \in Busy
    /\ failures < MaxFailures
    /\ failures' = failures + 1
    /\ Abandon(r)
    /\ disturbed' = disturbed \cup {op[r].project}
    /\ strays' = strays \cup {"died"}

-----------------------------------------------------------------------------
(* The calls.                                                              *)

Here(r) == op[r].saw.zone

(* What each call needs to be there.                                       *)
Needs(x) == CASE x = "subscription" -> {"topic", "queue"}
              [] x = "destination"  -> {"topic", "set"}
              [] OTHER              -> {}

(* What goes with each.                                                    *)
GoesWith(x) == CASE x = "topic" -> {"topic", "subscription"}
                 [] x = "set"   -> {"set", "destination"}
                 [] OTHER       -> {x}

Without(z, x) ==
    LET gone == GoesWith(x) IN
    /\ exists' = [exists EXCEPT ![z] = @ \ gone]
    /\ tracked' = [tracked EXCEPT ![z] = @ /\ "destination" \notin gone]
    /\ setBy' = [setBy EXCEPT ![z] = IF "destination" \in gone THEN {} ELSE @]

(* The destination is created, or updated if it is there.                  *)
PutDestination(r, wish) ==
    /\ tracked' = [tracked EXCEPT ![Here(r)] = wish]
    /\ setBy' = [setBy EXCEPT ![Here(r)] = {op[r].project}]

(* Mutant: the destination is made with the tracking switched off.         *)
ProvisionUntracked(r) ==
    LET x == Build[op[r].step + 1] IN
    /\ stage[r] = "building" /\ op[r].step < Len(Build)
    /\ IF Needs(x) \subseteq exists[Here(r)]
         THEN /\ exists' = [exists EXCEPT ![Here(r)] = @ \cup {x}]
              /\ IF x = "destination" THEN PutDestination(r, FALSE)
                                      ELSE UNCHANGED <<tracked, setBy>>
              /\ op' = [op EXCEPT ![r].step = @ + 1]
              /\ UNCHANGED <<row, stage, starts, alone, disturbed, strays>>
         ELSE Raises(r)
    /\ UNCHANGED failures

MoreToBuild(r) == op[r].step < Len(Build)

(* provision_events, one call at a time.                                   *)
Provision(r) ==
    LET x == Build[op[r].step + 1] IN
    /\ stage[r] = "building" /\ MoreToBuild(r)
    /\ IF Needs(x) \subseteq exists[Here(r)]
         THEN /\ exists' = [exists EXCEPT ![Here(r)] = @ \cup {x}]
              /\ IF x = "destination" THEN PutDestination(r, op[r].saw.track)
                                      ELSE UNCHANGED <<tracked, setBy>>
              /\ op' = [op EXCEPT ![r].step = @ + 1]
              /\ UNCHANGED <<row, stage, starts, alone, disturbed, strays>>
         ELSE Raises(r)
    /\ UNCHANGED failures

(* record_event_infrastructure names what was built, in the zone of then.  *)
RecordBuilt(r) ==
    /\ stage[r] = "building" /\ ~ MoreToBuild(r)
    /\ op' = [op EXCEPT ![r].held.built = Here(r)]
    /\ Go(r, "committing")
    /\ UNCHANGED <<row, awsVars, starts, failures, alone, disturbed, strays>>

(* set_open_click_tracking updates the destination that is there.          *)
UpdateDestination(r) ==
    /\ stage[r] = "updating"
    /\ IF {"topic", "destination"} \subseteq exists[Here(r)] /\ op[r].saw.built = Here(r)
         THEN /\ PutDestination(r, op[r].held.track)
              /\ Go(r, "committing")
              /\ UNCHANGED <<row, exists, op, starts, alone, disturbed, strays>>
         ELSE Raises(r)
    /\ UNCHANGED failures

(* verify_account                                                          *)
Verify(r) ==
    /\ stage[r] = "verifying"
    /\ Go(r, "committing")
    /\ UNCHANGED <<row, awsVars, op, starts, failures, alone, disturbed, strays>>

(* Mutant: nobody else is asked for.                                       *)
NoOtherUsers(r) == {}

(* count_other_users: by the zone, in what is committed.                   *)
OtherUsers(r) == {q \in Project \ {op[r].project} :
                      row[q].zone = Here(r) /\ Enabled(row[q])}

(* The columns are cleared whoever else uses the resources, and the wish   *)
(* to track with them.                                                     *)
Cleared(c) == [c EXCEPT !.built = Nowhere, !.track = FALSE]

CountOthers(r) ==
    /\ stage[r] = "counting"
    /\ IF OtherUsers(r) = {}
         THEN Go(r, "dropping") /\ UNCHANGED op
         ELSE /\ op' = [op EXCEPT ![r].held = Cleared(@)]
              /\ Go(r, "committing")
    /\ UNCHANGED <<row, awsVars, starts, failures, alone, disturbed, strays>>

(* Topic, queue and subscription are named by ARN and URL, so a client for *)
(* another zone does not reach them; the set is named by its name.         *)
Reaches(r, x) == x \in {"set", "destination"} \/ op[r].saw.built = Here(r)

(* remove_events: a call that fails is passed over.                        *)
RemoveNext(r) ==
    LET x == Drop[op[r].step + 1] IN
    /\ stage[r] = "dropping" /\ op[r].step < Len(Drop)
    /\ op' = [op EXCEPT ![r].step = @ + 1]
    /\ \/ /\ Reaches(r, x)
          /\ Without(Here(r), x)
          /\ UNCHANGED <<failures, strays>>
       \/ /\ ~ Reaches(r, x)
          /\ UNCHANGED <<awsVars, failures, strays>>
       \/ /\ x \in exists[Here(r)]
          /\ failures < MaxFailures
          /\ failures' = failures + 1
          /\ strays' = strays \cup {"passed over"}
          /\ UNCHANGED awsVars
    /\ UNCHANGED <<row, stage, starts, alone, disturbed>>

RecordRemoved(r) ==
    /\ stage[r] = "dropping" /\ op[r].step = Len(Drop)
    /\ op' = [op EXCEPT ![r].held = Cleared(@)]
    /\ Go(r, "committing")
    /\ UNCHANGED <<row, awsVars, starts, failures, alone, disturbed, strays>>

-----------------------------------------------------------------------------
(* The commit: columns the session changed, over whatever is there now.    *)

Merge(old, o) == [c \in DOMAIN old |-> IF o.held[c] # o.saw[c] THEN o.held[c] ELSE old[c]]

(* The row was deleted, or made, by another request meanwhile.             *)
Clashes(o) == /\ o.held # o.saw
              /\ (o.saw.zone = Nowhere) # (row[o.project].zone = Nowhere)

Moved(o) == Enabled(o.held) /\ o.kind = "connect" /\ o.held.zone # o.saw.zone

CommitRow(r) ==
    LET o == op[r]  p == op[r].project IN
    /\ stage[r] = "committing"
    /\ IF o.kind # "disconnect" /\ Clashes(o)
         THEN /\ Abandon(r)
              /\ disturbed' = disturbed \cup {p}
              /\ UNCHANGED strays
         ELSE /\ row' = [row EXCEPT ![p] =
                            IF o.kind = "disconnect" THEN Blank ELSE Merge(@, o)]
              /\ disturbed' = IF Moved(o) THEN disturbed \cup {p}
                              ELSE IF o.kind = "setup" /\ r \in alone THEN disturbed \ {p}
                              ELSE disturbed
              /\ strays' = strays \cup IF Moved(o) THEN {"moved"} ELSE {}
              /\ Go(r, "idle")
              /\ op' = [op EXCEPT ![r] = NoOp]
              /\ alone' = alone \ {r}
              /\ UNCHANGED <<awsVars, starts>>
    /\ UNCHANGED failures

(* Somebody deletes a resource in the console.                             *)
DeletedByHand(z, x) ==
    /\ x \in exists[z]
    /\ failures < MaxFailures
    /\ failures' = failures + 1
    /\ Without(z, x)
    /\ alone' = {}
    /\ disturbed' = Project
    /\ UNCHANGED <<row, stage, op, starts, strays>>

-----------------------------------------------------------------------------
Requests ==
    \E r \in Request, p \in Project :
        \/ Setup(r, p) \/ RemoveEvents(r, p) \/ Disconnect(r, p)
        \/ \E b \in BOOLEAN : ChangeTracking(r, p, b)
        \/ \E z \in Zone : Connect(r, p, z)

Steps(r) ==
    Provision(r) \/ RecordBuilt(r) \/ UpdateDestination(r) \/ Verify(r) \/ CountOthers(r)
    \/ RemoveNext(r) \/ RecordRemoved(r) \/ CommitRow(r)

Failing(r) == AwsRefuses(r) \/ Dies(r)

PlumbingNext ==
    \/ Requests
    \/ \E r \in Request : Steps(r) \/ Failing(r)
    \/ \E z \in Zone, x \in Resource : DeletedByHand(z, x)

PlumbingSpec == PlumbingInit /\ [][PlumbingNext]_plumbingVars

-----------------------------------------------------------------------------
PlumbingTypeOK ==
    /\ row \in [Project -> Connection]
    /\ exists \in [Zone -> SUBSET Resource]
    /\ tracked \in [Zone -> BOOLEAN]
    /\ setBy \in [Zone -> SUBSET Project]
    /\ stage \in [Request -> Stages]
    /\ op \in [Request -> Op \cup {NoOp}]
    /\ starts \in 0..MaxStarts /\ failures \in 0..MaxFailures
    /\ alone \subseteq Request
    /\ disturbed \subseteq Project
    /\ strays \subseteq {"overlap", "refused", "died", "passed over", "moved"}

(* A project that its page shows as reporting events has everything that   *)
(* reports them, whatever other projects on the account set up, removed or *)
(* disconnected, and whatever AWS refused them; and if something was cut   *)
(* short, overlapped, moved to another account or deleted by hand, pressing *)
(* Set up again is enough to repair it.  teardown_events, setup_events.    *)
EventsFlow ==
    Busy = {} => \A p \in Project \ disturbed :
        Enabled(row[p]) => row[p].built = row[p].zone /\ exists[row[p].zone] = Resource

(* Nothing is left in an account that no connection names, unless a        *)
(* request was refused or died half way, a removal was passed over, two    *)
(* requests overlapped or a connection was moved.  remove_events.          *)
NothingLeftBehind ==
    Busy = {} /\ strays = {} =>
        \A z \in Zone : exists[z] # {} => \E p \in Project : row[p].built = z

(* "AWS first, the row second. The other way round, a removal that fails   *)
(* halfway leaves a row saying "no events" while the queue, topic and      *)
(* configuration set are all still there - and nothing left to name them." *)
(* services/events.py:240.  So a removal that AWS refuses in part leaves a *)
(* row that names the zone.                                                *)
NamedUntilGone ==
    Busy = {} /\ strays \subseteq {"passed over"} =>
        \A z \in Zone : exists[z] # {} => \E p \in Project : row[p].built = z

(* A project's page says of opens and clicks what SES does, as long as     *)
(* nobody else on the account changed it since: a refusal leaves the row   *)
(* as it was.  set_open_click_tracking.                                    *)
TrackingToldTruly ==
    Busy = {} => \A p \in Project \ disturbed :
        Enabled(row[p]) /\ setBy[row[p].zone] = {p} => row[p].track = tracked[row[p].zone]
=============================================================================
