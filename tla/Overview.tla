------------------------------ MODULE Overview -----------------------------
(***************************************************************************)
(* The numbers of a project's pages: what was sent and what became of it,  *)
(* over a window that ends now, and which of it belongs to which domain.   *)
(* A page's queries are made one after the other, each sees what has been  *)
(* committed when it is made, and rows are never taken back: a page keeps  *)
(* the times it took and how much of the rows each query saw.              *)
(*                                                                         *)
(* Domains are sequences of labels with the top level first, so that a     *)
(* domain beneath another extends it.  One project: the queries look at    *)
(* no other.  PostgreSQL is not under src/.                                *)
(***************************************************************************)
EXTENDS Integers, FiniteSets, SequencesExt, FiniteSetsExt

CONSTANTS
    Domains,    \* domains that can be added
    Senders,    \* domains that mail is sent from
    Ranges,     \* TimeRange
    Duration,   \* how long each is
    Bucket,     \* how long a bucket of its chart is
    Offset,     \* how far the zone of the database's sessions is ahead of UTC
    MaxTime, MaxMails, MaxEvents    \* bounds

ASSUME RangeAssumption ==
    /\ Duration \in [Ranges -> Nat \ {0}] /\ Bucket \in [Ranges -> Nat \ {0}]
    /\ \A r \in Ranges : Bucket[r] <= Duration[r]
    /\ Offset \in Int
ASSUME DomainAssumption == \A d \in Domains \cup Senders : d \in Seq(STRING)
ASSUME CountAssumption == MaxTime \in Nat /\ MaxMails \in Nat /\ MaxEvents \in Nat

VARIABLES
    now,        \* the time, from the project's first day
    added,      \* the project's domain identities
    mails,      \* rows of emails that were sent, as they were committed
    events,     \* rows of email_events
    page        \* a page that is being put together

overviewVars == <<now, added, mails, events, page>>

Reported == {"delivered", "bounced"}

-----------------------------------------------------------------------------
(* Which mail belongs to a domain.                                         *)

Under(domain, parent) == IsPrefix(parent, domain)

(* scope_for, scopes_for: the domain, and the domains beneath it.          *)
ScopeOf(domain) ==
    [value |-> domain,
     narrower |-> {other \in added : other # domain /\ Under(other, domain)}]

(* A page of the project asks without a scope.                             *)
WholeProject == [value |-> <<>>, narrower |-> {}]

(* covers, and sent_from in SQL.                                           *)
Covers(scope, from) ==
    /\ Under(from, scope.value)
    /\ ~\E other \in scope.narrower : Under(from, other)

-----------------------------------------------------------------------------
(* What the pages read.                                                    *)

OverviewInit ==
    /\ now = 0
    /\ added = {}
    /\ mails = <<>>
    /\ events = {}
    /\ page = [stage |-> "none"]

(* record_sent: sent_at is the time of the answer, which is before the     *)
(* commit.                                                                 *)
RecordSent(from, at) ==
    /\ Len(mails) < MaxMails
    /\ mails' = Append(mails, [from |-> from, at |-> at])
    /\ UNCHANGED <<now, added, events, page>>

(* An event says when it occurred; it is stored whenever it arrives, and   *)
(* there can be several of a type, one for each recipient.                 *)
RecordEvent(i, type, at) ==
    /\ Cardinality(events) < MaxEvents
    /\ events' = events \cup {[mail |-> i, type |-> type, at |-> at]}
    /\ UNCHANGED <<now, added, mails, page>>

AddIdentity(domain) ==
    /\ domain \notin added
    /\ added' = added \cup {domain}
    /\ UNCHANGED <<now, mails, events, page>>

RemoveIdentity(domain) ==
    /\ domain \in added
    /\ added' = added \ {domain}
    /\ UNCHANGED <<now, mails, events, page>>

ClockMoves ==
    /\ now < MaxTime
    /\ now' = now + 1
    /\ UNCHANGED <<added, mails, events, page>>

-----------------------------------------------------------------------------
(* A page: its scope is read once, and the numbers and the chart take a    *)
(* time each.                                                              *)

(* overview, domain_overview: up to the time that compute_metrics takes.   *)
Open(scope, range) ==
    /\ page.stage \in {"none", "shown"}
    /\ page' = [stage |-> "opened", scope |-> scope, range |-> range,
                numbersAt |-> now, counted |-> 0, heard |-> {},
                chartAt |-> now, drawn |-> 0, plotted |-> {}]
    /\ UNCHANGED <<now, added, mails, events>>

PageStep(from, to) ==
    /\ page.stage = from
    /\ page' = to
    /\ UNCHANGED <<now, added, mails, events>>

(* compute_metrics: the query of emails, then the query of events.         *)
CountSent ==
    PageStep("opened", [page EXCEPT !.stage = "counted", !.counted = Len(mails)])
CountEvents ==
    PageStep("counted", [page EXCEPT !.stage = "heard", !.heard = events])

(* activity_series: its own time, then the two queries.                    *)
StartChart ==
    PageStep("heard", [page EXCEPT !.stage = "timed", !.chartAt = now])
ChartSends ==
    PageStep("timed", [page EXCEPT !.stage = "drawn", !.drawn = Len(mails)])
ChartEvents ==
    PageStep("drawn", [page EXCEPT !.stage = "shown", !.plotted = events])

OverviewNext ==
    \/ ClockMoves
    \/ \E from \in Senders, at \in 0..now : RecordSent(from, at)
    \/ \E i \in DOMAIN mails, type \in Reported, at \in 0..now : RecordEvent(i, type, at)
    \/ \E domain \in Domains : AddIdentity(domain) \/ RemoveIdentity(domain)
    \/ \E range \in Ranges, scope \in {WholeProject} \cup {ScopeOf(d) : d \in added} :
           Open(scope, range)
    \/ CountSent \/ CountEvents \/ StartChart \/ ChartSends \/ ChartEvents

OverviewSpec == OverviewInit /\ [][OverviewNext]_overviewVars

-----------------------------------------------------------------------------
(* What the page says.                                                     *)

(* Of the first n mails, and of some rows of events, those in the page's   *)
(* scope that are not before a time.                                       *)
SentSince(n, since) ==
    {i \in 1..n : Covers(page.scope, mails[i].from) /\ mails[i].at >= since}
EventsSince(rows, type, since) ==
    {e \in rows : /\ Covers(page.scope, mails[e.mail].from)
                  /\ e.type = type /\ e.at >= since}

NumbersSince == page.numbersAt - Duration[page.range]
ChartSince == page.chartAt - Duration[page.range]

(* compute_metrics: emails, not rows of events.                            *)
Sent == Cardinality(SentSince(page.counted, NumbersSince))
Distinct(type) == Cardinality({e.mail : e \in EventsSince(page.heard, type, NumbersSince)})

(* _truncate, in UTC, and date_trunc, in the zone of the session.          *)
Truncate(at, range) == at - (at % Bucket[range])
DateTrunc(at, range) == at - ((at + Offset) % Bucket[range])

(* Mutant: the buckets begin after the window does.                        *)
BucketsWithin(range, time) ==
    {at \in (time - Duration[range])..Truncate(time, range) : at % Bucket[range] = 0}

(* _buckets: both ends are included.                                       *)
Buckets(range, time) ==
    {at \in Truncate(time - Duration[range], range)..Truncate(time, range) :
        at % Bucket[range] = 0}

(* activity_series: a bucket that the queries have no row for is there     *)
(* with 0, and a row whose key is no bucket is not looked up.              *)
Activity ==
    LET Key(at) == DateTrunc(at, page.range)
        Of(type, at) == {e \in EventsSince(page.plotted, type, ChartSince) : Key(e.at) = at}
    IN [at \in Buckets(page.range, page.chartAt) |->
           [sent |-> Cardinality({i \in SentSince(page.drawn, ChartSince) :
                                     Key(mails[i].at) = at}),
            delivered |-> Cardinality({e.mail : e \in Of("delivered", at)}),
            bounced |-> Cardinality({e.mail : e \in Of("bounced", at)})]]

(* The counts of one kind over a whole chart.                              *)
Total(chart, column) == MapThenSumSet(LAMBDA at : chart[at][column], DOMAIN chart)

-----------------------------------------------------------------------------
(* However domains are added and removed above and beneath each other, a   *)
(* message is on the page of one of them, the closest above its sender,    *)
(* and of no other; mail on no domain's page has none above it ("nothing   *)
(* is counted twice across the domains of one project").                   *)
PagesShareTheMail ==
    \A i \in DOMAIN mails :
        LET from == mails[i].from
            above == {d \in added : Under(from, d)}
            pages == {d \in added : Covers(ScopeOf(d), from)}
        IN /\ pages \subseteq above
           /\ above # {} => /\ Cardinality(pages) = 1
                            /\ \A d \in pages : \A o \in above : Len(o) <= Len(d)

(* The buckets of the two sides are the same: the zone is a whole number   *)
(* of buckets from UTC.                                                    *)
Aligned(range) == Offset % Bucket[range] = 0

(* Against the number of the page, a chart has what was committed after    *)
(* the number was counted, and lacks what left the window between the two  *)
(* times and what was sent so long after the chart took its time that it   *)
(* is beyond the last bucket.  Nothing else differs: no message of the     *)
(* first, partial bucket is lost, and none is in two.                      *)
SendsAddUp(chart) ==
    LET end == Truncate(page.chartAt, page.range) + Bucket[page.range]
        came == SentSince(page.drawn, ChartSince) \ 1..page.counted
        left == SentSince(page.counted, NumbersSince) \ SentSince(page.counted, ChartSince)
        beyond == {i \in SentSince(page.drawn, ChartSince) : mails[i].at >= end}
    IN Sent + Cardinality(came) = Total(chart, "sent") + Cardinality(left) + Cardinality(beyond)

(* Each message that was reported on in the chart's window is in some      *)
(* bucket, though it can be in two, and in none is it counted twice: no    *)
(* point is above the page's number by more than the messages whose events *)
(* came after that was counted.                                            *)
ReportsAddUp(chart, type) ==
    LET end == Truncate(page.chartAt, page.range) + Bucket[page.range]
        rows == {e \in EventsSince(page.plotted, type, ChartSince) : e.at < end}
        came == EventsSince(page.plotted \ page.heard, type, ChartSince)
    IN /\ Cardinality({e.mail : e \in rows}) <= Total(chart, type)
       /\ Total(chart, type) <= Cardinality(rows)
       /\ \A at \in DOMAIN chart :
              chart[at][type] <= Distinct(type) + Cardinality({e.mail : e \in came})

(* A chart adds up to the numbers beside it, of the project as of each     *)
(* domain, whatever is committed, added, removed or leaves the window      *)
(* while the page is put together (compute_metrics, activity_series).  And *)
(* where the zone shifts the buckets of date_trunc, all of it reads zero   *)
(* (_truncate: "or the generated buckets miss the keys the database        *)
(* returned and every point reads as zero").                               *)
ChartAddsUp ==
    page.stage = "shown" =>
        IF Aligned(page.range)
        THEN /\ SendsAddUp(Activity)
             /\ \A type \in Reported : ReportsAddUp(Activity, type)
        ELSE \A column \in Reported \cup {"sent"} : Total(Activity, column) = 0

(* Both: the numbers on the project's page, on its domains' pages and on   *)
(* the charts beside them are about the same mail (domain_scope.py,        *)
(* analytics.py).                                                          *)
NumbersAgree == PagesShareTheMail /\ ChartAddsUp
=============================================================================
