# SESKit in TLA+

SESKit is a self-hosted front end to Amazon SES: an API and a dashboard
(`src/apps/api`) accept messages, a worker (`src/apps/worker`) sends them, reads
back what SES says happened to them, records the mail that arrives, and tells the
customer's application through webhooks. PostgreSQL holds the state, Redis the
job queue, the sessions and some caches. The code is asynchronous Python: every
`await` on the database, Redis, AWS or an endpoint lets another request, job or
process run, and any of these processes can stop at any point. That, and not the
data, is what most of these modules are about.

1. [Parts of the system](#parts-of-the-system)
2. [Modules](#modules)
3. [Runs](#runs)
4. [Fairness](#fairness)
5. [Refinement and proofs](#refinement-and-proofs)
6. [What the code does otherwise than it says](#what-the-code-does-otherwise-than-it-says)
7. [Seen while modelling](#seen-while-modelling)
8. [Not modelled](#not-modelled)
9. [Plan](#plan)

Paths below leave out `src/`; `core/` stands for
`packages/core/src/seskit_core/`, `api/` for `apps/api/src/seskit_api/`,
`worker/` for `apps/worker/src/seskit_worker/` and `ses/` for
`packages/provider-aws-ses/src/seskit_provider_aws_ses/`.

## Parts of the system

| Part | State it keeps | Operations | What is hard | What makes it correct | Module |
|---|---|---|---|---|---|
| **Accepting a message** `api/routes/v1/emails.py`, `core/services/accepting.py` | `emails` rows: status, provider, idempotency key | look up the key, refuse suppressed recipients, choose a provider, insert, commit, enqueue | two requests with one key; a death between commit and enqueue | repeats are answered with one message and send one | `SendPipeline`, `Outbox` |
| **Sending worker** `worker/sending.py` | the row's status; the ARQ job and its try count | claim, call the provider, record, retry | a death after the provider accepted; a timed-out call that was accepted; the last try | copies are explained and bounded; a job that ends settles its row | `SendPipeline` |
| **Suppression list** `core/services/suppression.py` | live and removed rows per address | suppress, remove, ask | every writer reads before it inserts; a unique index decides | suppressed addresses are not sent to; removals hold | `SendPipeline`, `EventIngest` |
| **Event ingestion** `core/events/ingest.py` | `email_events`, `delivered_at`, the list | find the message, deduplicate, record, queue webhooks, suppress | at-least-once delivery by two transports, racing inserts, deadlocks, order against the sending worker | each notification recorded once and whole; none lost | `EventIngest`, `Inbox` |
| **Event transports and origins** `worker/events.py`, `api/routes/v1/events.py`, `core/events/origin.py`, `ses/sns_signature.py` | SQS's queue, SNS's retries, a certificate cache | receive, verify, find whose it is, handle, remove | removal after commit, overlapping polls; connections that move while a notice is handled | removed only when accounted for; an account speaks only for its projects | `EventIngest`, `Notifications` |
| **Webhook delivery** `core/services/webhooks.py`, `worker/webhooks.py` | `webhook_deliveries`: status, attempts, next attempt; `webhook_endpoints`: status, failures in a row | queue, attempt, record, sweep; enable, disable, move, delete | jobs and sweeps overlap on copies read once; passes are cut short; users edit meanwhile | nothing pending is forgotten; verdicts have evidence; the count is of failures in a row | `WebhookDelivery` |
| **Webhook destinations** `core/security/destinations.py` | none; DNS answers and settings | validate a URL, pin an address | a name answers anew each time | posts go only where the settings allow | `Destinations` |
| **Inbound mail** `worker/inbound.py`, `core/events/inbound.py` | `inbound_emails`, objects in S3 | poll, locate the domain, fetch, record once, raise an event | two announcements of one object; a domain that changes hands; overlapping passes | recorded and told of once, for a project that receives; nothing dropped | `InboundIngest`, `Inbox` |
| **Reading and building messages** `core/email/parse.py`, `message.py` | none | walk the parts, classify, store, serve an attachment by index; assemble | caps met in the middle; the walk is done twice | nothing silently dropped; an index means one attachment; what is built is read back | `Mime` |
| **Receiving infrastructure** `core/services/inbound.py`, `ses/inbound.py` | a bucket, topic, queue and receipt rules shared by the projects of one account | switch receiving on for a domain, off, disconnect | a dozen AWS calls in one transaction, failures in between; two projects after one domain; count, then remove | one receiver per domain; what is on works; nothing left that no row knows of | `Receiving` |
| **Event infrastructure** `core/services/events.py`, `ses/provisioning.py` | topic, queue, subscription, configuration set, event destination, shared as above | set up, tear down when nobody else uses it, switch tracking | the same, with connections that move to another account | a page that says events flow is right; nothing left unnamed | `EventPlumbing` |
| **Identities** `core/services/identities.py`, `worker/identities.py` | verified domains and addresses; shared at SES | add, check, remove, recheck | count, then delete; a pass over old copies that commits once | SES keeps what a project still uses; what is due is checked | `Identities` |
| **AWS connection** `core/services/aws.py`, `production_access.py` | one `aws_connections` row per project: key, secret, account, status, review | connect, refresh, ask for production access, disconnect | requests that write from their own copies; a call made before its row is written | a row is one confirmed key; a pending review was asked for | `AwsAccount` |
| **API keys and limits** `core/services/api_keys.py`, `core/security/ratelimit.py` | rows, a Redis cache, window counters | verify, revoke, count | a cache filled after the eviction; concurrent increments | revoked means revoked; a window admits its limit | `ApiCalls` |
| **Python SDK** `packages/sdk-python` | none between calls | send with a key, retry, back off | retries of a request that was accepted | what a caller is told is true | `ApiCalls` |
| **Users and sessions** `core/services/users.py`, `core/security/sessions.py`, `api/routes/auth.py` | accounts, recovery codes; Redis sessions and their index | sign up, sign in, recover, new code, reset, log out | two first signups; a code replaced twice; database first, Redis second | one owner; a way back in; ended sessions stay ended | `Accounts` |
| **Dashboard numbers and listings** `core/services/analytics.py`, `domain_scope.py`, `api/routes/v1/emails.py` | none | count over a window, chart it, split it by domain; page through a listing | boundaries of windows and buckets; rows that arrive between pages | numbers are about the same mail; each row once | `Overview`, `Listing` |
| **Settings and doctor** `core/config.py`, `api/doctor.py` | the environment, keys sealed under `SECRET_KEY` | start, refuse to start, diagnose | processes started at different times; a rotated key | the doctor says what a send would meet | `Deployment` |

How they interact: the request handlers and the worker share the database and
the ARQ queue and never call each other. The worker's sends and SES's
notifications meet in `emails.provider_message_id`. Ingestion writes the
suppression list that acceptance reads, and the delivery rows that webhook
passes attempt. Everything else reads the connection and identity rows.

## Modules

`X.tla` is a component with its properties, `MCX.tla` and the `.cfg` files its small
instances, `XProofs.tla` its theorems. Four of these speak of more than one module:
`EventProofs` of `EventIngest` and `EventPlumbing`, `ApiProofs` of `Accounts`,
`ApiCalls`, `Listing`, `Overview` and `Deployment`, `InboundIngestProofs` of `Mime`
too, and `WebhookDeliveryProofs` of `Destinations`. `Notifications` extends
`AwsAccount` with the handlers that read the rows it keeps; `SendPipeline`
instantiates `Outbox`, `EventIngest` and `InboundIngest` instantiate `Inbox`;
`MCReadings` runs five modules that share no state. Modules that a proof extends
together have names of their own, so the specification of `EventPlumbing` is
`PlumbingSpec` and that of `ApiCalls` `CallsSpec`, and so on. Above a definition
marked *mutant* stands the mistake it makes; the definition after it is the code.

### SendPipeline — accepting a message and sending it

A request is one of `Req`, and so is the row it inserts (identifiers never
repeat). Its handler is cut where the code awaits something another process can
change: `LookUp`, `RefuseSuppressed`, `ChooseProvider`, `CommitRow` (or
`AnswerCollision` after it), `Enqueue`; `RequestDies` may happen before each. The
dashboard's test send is a request without a key.

The job of a row is ARQ's: `StartJob` counts the try, `FinishJob` ends it or
puts it back, `WorkerDies` puts it back without a result, `JobAborts` ends it
(the 60 s `job_timeout`, or an exception that is not `Retry`), `QueueLost` is
Redis losing it. Inside it, `Claim` is `send_one` up to its first commit, `Call`
the provider, `Record` what follows the call. A `Call` may fail after the
provider took the message. `Suppress`, `Unsuppress`, `Connect`,
`ConnectionBreaks`, `Disconnect` and `SecretKeyChanges` are everything else that
changes what these steps read.

`wire` and `lost` are history: copies the provider has accepted, and those whose
acceptance never reached the row. `late` holds the addresses listed after a
request's own check. `deaths` and `turns` are bounds.

Left out: the message itself, attachments, limits, configuration sets, the
unsubscribe link, a row that vanishes because its project is deleted.

### WebhookDelivery — webhooks and their endpoints

A pass is a coroutine in `worker/webhooks.py`: a job with one row, or a sweep
with those due. `Open` loads the rows and their endpoints once. Sessions are
made with `expire_on_commit=False` (`core/db.py:61`), so nothing is loaded again
until the pass ends, and SQLAlchemy writes only the columns that differ from
what it loaded: `Flushed` is that rule, and the reason a success can leave a
failure count alone. `Attempt` is the POST; `RecordSuccess`, `RecordRetry` and
`RecordFailure` are the `record_delivery_*` functions with the commit and the
step to the next row; `RecordGone` is the flush against a row deleted with its
endpoint, which ends the pass. `PassOver` is the sweep's `except Exception`: what
`deliver_one` raises is logged, the pass goes on, and the row stays pending and due.
`Cut` is a death or the pass's timeout.

A user's request writes from a copy of its own (`edit`): `LoadEndpoint`, then,
after whatever it awaits, `UpdateUrl`, `Enable`, `Disable` or `DeleteEndpoint`, or
`LeaveAsIs`. `update_endpoint_url` awaits the check of the URL
(`core/services/webhooks.py:174`) between the two, so a pass may count a failure
meanwhile, and a reset of a count that was 0 when it was loaded is not written.

Time is an order: `line` has the rows with a `next_attempt_at`, soonest first,
and the first `ripe` of them are due. A retry lands anywhere behind those due, so
no back-off length is assumed. `InOrder` gives the rows at some places of it, in
its order: what a sweep takes, and what is left when rows leave the schedule.

`tries`, `accepted` and `streak` are history: attempts made whether recorded or
not, acceptances, and final failures in a row. `stale` are the endpoints that
some pass or request has written from an outdated copy.

Left out: payloads, signatures, response capture, rotation of the secret, the
log of attempts. That an endpoint's URL is read when the pass opens changes no
state here.

### EventIngest — what SES says

A handler has one notification in one session, from SQS or HTTPS; a
notification waits until a handler removes it, and any number may have it in
hand. `ingest_event` is cut at its statements: `LookUp` (message and duplicate),
`FlushEvent` (the unique `provider_event_id`), `AskAlready`, then per address
`FindAddress` and `InsertAddress` (the partial unique index on live rows), and
`Commit`, which makes all of it visible at once, with `delivered_at` and the
webhook rows. A failing insert of an event is a duplicate; a failing insert of an
address (`AddressCollides`) and a database deadlock (`DeadlockBroken`) raise, and
the notification stays. `Remove` is the delete, or the 204.

The database is READ COMMITTED, with inserts of a taken unique value waiting for
the transaction that took it: `Writing` and `Listing` are what is inserted and
not yet committed. The sending worker appears as far as the SES id goes:
`ProviderAccepts`, then `RecordSent` or `AnswerLost`.

`times`, `removed` and `unmatched` are history: rows per notification, addresses
ever taken off the list, and notifications looked up before their message was
known.

Left out: parsing, signatures, the projects a source speaks for (a
notification about another's message is about `Foreign`), which endpoints exist.

### Receiving — switching the receiving of mail on and off

The projects of one account and region share a bucket, a topic, a queue and its
subscription (`aws`) and the account's receipt rules (`rules`, in the rule set
`ruleSet` describes). The database knows of them through two kinds of row: a
connection names resources (`names`), an identity its rule (`on`). A request is
one transaction around its AWS calls, and every call is a step: `Begin` loads the
rows; a setup is `CheckTaken` and `Claim` (`_claim_domain`), `Provision` (the four
parts of `provision_inbound`), `Describe`, `CreateSet`, `PutRule`, `Activate`
(`add_inbound_rule`); a teardown is `DeleteRule`, `Inspect`, `AskActive`,
`Deactivate`, `DeleteSet` (`remove_inbound_rule`), `ClearRow`, `CountHere`,
`CountOthers` and `Remove` (`_release_plumbing`, `remove_inbound`); `Commit` ends
it. A disconnect is a teardown of every domain of the project and then of what is
left (`teardown_all_receiving`). `AwsRefuses` is a call that raises, `Dies` a
process that stops, and a removal whose failure is passed over is a call with
`works` false. `op` is what the coroutine has in hand: `saw` and `held` are the
connection's columns as loaded and as the session has them, and `Saved` writes
only those that differ.

READ COMMITTED appears as the counts seeing `on`, as `Wrote` (identity rows
updated and not committed), which others wait for, and as the unique index in
`Claim`.

A user's own active rule set stays what it is (`"theirs"`); SESKit's is absent,
made or active. `alone` (requests that nothing has disturbed) and `marks` (what
has ever failed, or overlapped) are history.

Left out: retention, policies, the bucket's name belonging to somebody else,
credentials that cannot be read, connecting again after a disconnect, removing
an identity that receives, and the event infrastructure a disconnect also
removes.

### InboundIngest — recording the mail that arrives

A pass of `poll_inbound` reads once which projects the queue speaks for (`Poll`),
then takes announcements (`Receive`). `handle_inbound` is cut at what it awaits:
`Locate` finds the identity in one session, `AskRecorded` looks for the row,
`Fetch` gets the object from S3 with no session open, `Insert`, `RaiseReceived`
and `Commit` are `record_received` in the second session with its unique index,
`Acknowledge` removes the announcement. `LeaveOnQueue` is any call that raises,
`WorkerDies` a death, `Expire` the bucket's lifecycle. Receiving is switched in
the few steps a pass can tell apart (`SwitchOn` … `SwitchedOff`); the whole of it
is in `Receiving`.

`since` (identities that received when or after an announcement was made),
`refused` (announcements found to be nobody's) and `lost` (those that went with
the queue) are history.

### EventPlumbing — the resources that report events

A zone is an account and a region. A connection is a record of its zone, the
zone its event columns name (`built`) and its wish for tracking. A request loads
the row once and makes its AWS calls one a step: `Provision` and `RecordBuilt`
(`setup_events`), `CountOthers`, `RemoveNext` and `RecordRemoved` (`teardown_events`,
in the order of `remove_events`), `UpdateDestination` (`set_open_click_tracking`),
`Verify` (`connect_aws`), `CommitRow` with the columns that differ. `AwsRefuses`,
`Dies` and `DeletedByHand` are the failures.

`alone`, `disturbed` and `strays` are history: requests nothing overlapped,
projects for which something was cut short since their last setup, and the
reasons a resource may be unnamed.

### Identities — what SES may send from

An identity belongs to an account and is shared by the rows of its projects.
`add_identity` is `Create`, or `Adopt` after `Find` for one that is there
already; `refresh_identity` is `Read` and `Save`; `remove_identity` is
`CountReferences`, `Delete` and `DropAtSes`; each ends in `Commit`. The hourly
pass is `StartPass` (the rows that are due, as copies), `Ask`, `WriteCheck` (the
flush, which locks the row) and one `CommitPass`; `LosePass` is the flush of a row
deleted meanwhile, which rolls all of the pass back. `usable` has the projects
whose credentials can be loaded: `Connect` and `Disconnect` change it, and so does a
`SECRET_KEY` that no longer opens the key. Without them a form is refused (`Add`,
`Refresh`, `NoCredentials` after the count of a removal), and a pass logs what
`check_identity` raises and leaves the row as it is (`PassOver`). `Verification` is
DNS and SES. `excused` is history.

Left out: the receiving of mail that a removal first switches off (see
`Receiving`), and the wording of what went wrong.

### AwsAccount — the connection and its key

The row of `aws_connections` column by column: key id, secret, account, status,
sandbox, review, event queue. `Connect`, `Refresh`, `AskForAccess` and
`Disconnect` load it; `Gate` is the Redis marker that spaces live checks;
`Verify`, `BeginReview` and `AwsRefuses` are AWS's answers; `Flush` writes the
columns that differ from the loaded copy over what is there now (`Merge`) and
takes the row's lock; `ClearMarker` comes before `Commit`, as in the code. The
secret is always written by a connect, for its ciphertext is new each time; the
key id only if it differs. SES reviews accounts meanwhile (`AskedInConsole`,
`SesDecides`).

`confirmed` (keys AWS has accepted for a project), `reviewed` (accounts a review
was asked for) and `raced` (rows last written from an outdated copy) are history.

### Notifications — whose an event is

The handlers over `AwsAccount`'s rows. A body posted to the HTTPS receiver is
verified (`SeekCertificate`, `FetchCertificate` with the cache that is emptied
when full, `CheckSignature`), its topic's account looked up (`FindOwners`), and
then confirmed or ingested. A poll knows its projects from the rows that name the
queue. `Ingest` is `ingest_event` in one step, with the types and the recipients
each condemns; its statements are in `EventIngest`. `Content` gives each notice of
an instance its body.

### Accounts — users, sessions and recovery

Accounts are rows, sessions Redis keys that expire (`left`) and are listed in an
index that expires by itself (`indexLeft`). A request is `Allow`, `CountUsers` or
`Verify`, `Commit` (or `CommitCollides`), then Redis: `ListSessions` and
`DropSessions` (`delete_user_sessions`), `OpenSession`; `Switch` is
`set_current_project`, whose HSET makes a record if the key is gone (`bare`).
`Fails` is Redis raising or the process dying at any of them. A code and a
session are known by the number of the request that made them. `whose` and
`shown` are history.

### ApiCalls — the library, the key and the limit

A call is one of the SDK's, sent up to `Tries` times with one idempotency key;
`Respond`, `NoAnswer` and `SendAnother` are `_Transport.send`. The server's side is
`LookInCache`, `Query`, `Fill` (`verify_api_key`), `Charge` (`check_rate_limit`, the
raise before the comparison) and `Accept`, in which the whole of `SendPipeline`'s
request is one step. `Evict` and `CommitRevocation` are `revoke_api_key`,
`CacheExpires` the entry's TTL. `unsure` (calls that may have been accepted
unseen) and `admitted` are history.

### Outbox — what is promised of a message

`Accept`, `Answer`, `HandOver` and `Settle`, and nothing else: one message per key,
one answer per request, a bounded number of copies, one verdict. `SendPipeline`
maps its state to it (`Shown` for the status, `wire` for the copies) and checks
`KeepsPromise == Promise!Spec`.

### Inbox — what is promised of a notice

`Send`, `RecordItem`, `Excuse`, `Remove` and `LoseQueue`: an item is recorded once at
most, and a notice is removed, for good, only when its item is recorded or nobody
needs a record of it. The two components that read what SES tells map their state
to it, and each checks its own `KeepsPromise`:

| `Inbox` | `EventIngest` | `InboundIngest` |
|---|---|---|
| a notice, its item | a notification, the same | an announcement, the object it names |
| `place` | `queue` | `queue` and `announced` |
| `times` | event rows of the notification | how often `email.received` was raised |
| `excused` | `unmatched` | `refused`, `lost`, or the object has expired |
| `LoseQueue` | never | the queue goes with the receiving of mail |

### Mime — reading and building messages

A message is its parts in document order, each at its depth; what is in a part is
its place there. `Leaves` is the walk with its caps, `Roles` which text becomes
the body, `Payload` what an attachment stores, `Parse` the row, `ReadAttachment` the
second walk of a download, `Build` what `build_message` makes of a draft. The
instance grows every message up to its bounds, so the walk is checked on all of
them against `Contents`, which says what a reader should see without any walk.

### Overview and Listing — numbers and pages

`Overview`: messages and events at times, identities added and removed, time in
ticks. A page is put together query by query, as `overview` and `domain_overview`
do: `Open` takes the scope and the time of `compute_metrics`, `CountSent` and
`CountEvents` are its two queries, `StartChart` takes the time of `activity_series`,
`ChartSends` and `ChartEvents` are its two. `page` keeps the times and how much of
the rows each query saw (READ COMMITTED: what was committed when it was made).
`ScopeOf` and `Covers` are `domain_scope.py`; `Sent`, `Distinct` and `Activity` are what
`analytics.py` makes of what was read. `Truncate` is `_truncate`, in UTC, which makes
the buckets, and `DateTrunc` PostgreSQL's, in the zone of the session, which makes
the keys; `Offset` is between the two, for nothing in `core/db.py` sets a zone.
`Listing`: ids that commit in any order, and a client
that follows `has_more` with page sizes of its own choosing.

### Destinations and Deployment — what the settings allow

`Destinations`: a name answers with any addresses and changes its mind; `Validates`
is `validate`, `Pinned` the address that is posted to, `Restart` other settings.
`Deployment`: the environment as typed and as each process read it (`Read`,
`Accepted`), keys sealed by the API and opened by the worker, the migrations
(`AlembicHead`), the doctor's checks (`Run`), and beside them what a message sent
now would meet (`Outcome`).

## Runs

Each `.cfg` says with `CHECK_DEADLOCK FALSE` that the system may stop: when every
request is answered, every row settled and every notification gone, nothing is
left to do, which is its normal end. Type invariants are not repeated in the runs:
those of the modules with proofs are theorems, and the others' types follow what
their actions assign.

| Run | Instance | Shows |
|---|---|---|
| `send` | two requests with one key, one visible and one blind recipient, 3 tries, one death per job, two changes of list or connection | copies explained (`CopiesAccountedFor`); the pipeline implements its outbox (`KeepsPromise`); nobody already listed at the check is sent to (`SuppressedBeforeNeverSent`); every job ends with its row settled, or in a way ARQ does not recover from (`JobsSettle`) |
| `webhooks` | two deliveries to one endpoint that may drip or raise, two passes, 2 attempts, limit of 2 failures, one cut, one request of a user | a pending row keeps its schedule (`PendingIsScheduled`), verdicts have evidence (`SettledOnEvidence`), the failure count is right unless a pass or a request wrote from an outdated copy (`CountsConsecutive`) |
| `webhook_sweeps` | two endpoints with a delivery each, one that may drip and one whose attempts may raise; two passes, sweeps of two rows, one cut, any job lost | every queued delivery is settled, unless answers that do not end cut passes again and again or its own endpoint raises again and again; the other's exceptions do not hold it up (`NoWebhookLost`) |
| `events` | a bounce and a complaint naming the same two recipients (one blind), a receipt; two handlers, a crash, one change by a person | the inbox is kept (`KeepsPromise`): recorded once at most, and nothing disappears; events come whole (`EventsComeWhole`), an address is listed for a cause (`ListedForCause`), everything is dealt with (`EventuallySettled`) |
| `inbound` | one message for a domain and its parent, announced under two ids; two projects, one whose key cannot be read; two passes, three switches, one failure | one row and one event (`ToldOnce`), for a receiver (`OnlyReceiversGetMail`); the inbox is kept, so nothing leaves the queue unsettled (`KeepsPromise`), and everything settles (`EventuallySettled`) |
| `receiving` | two projects of one account, one domain of both and one of the first alone, two requests at once, four in all, one failure; the account with no active rule set or its user's | a domain has one receiver (`OneReceiver`); requests made one at a time leave every domain that is on working (`MailFlows`) and nothing in the account that no row knows of (`NothingStranded`) |
| `event_plumbing` | two projects, two zones, two requests at once, six in all, one failure | a page that says events flow is right, and pressing Set up again repairs what was disturbed (`EventsFlow`); nothing unnamed is left (`NothingLeftBehind`); tracking is told truly (`TrackingToldTruly`) |
| `identities` | two projects of one account, one domain, one request at a time, three in all, the pass, projects connecting and disconnecting, one failure | SES has what the rows name (`SesAgreesWithRows`); what is due is checked, if its project has credentials from some time on (`EventuallyChecked`) |
| `accounts` | two people, two requests at once, three things made, sessions of one tick, one failure | a way back in (`WayBack`), an owner (`OwnedOnceClaimed`), ended sessions stay ended (`EndedStaysEnded`) |
| `api_calls` | two calls with one key, two tries each, a limit of one, two windows, one failure | the limit (`KeptWithinLimit`), the answers (`AnswersAreTrue`), revocation in the end (`RevocationTakesEffect`) |
| `aws_account` | two projects, keys of two accounts, two requests at once, three acts of people; four notices, two of them delivered, a cache of one certificate | one confirmed key per row (`OneKeyPerRow`), reviews that were asked for (`PendingMeansAsked`), events only on the word of an account of the project's (`NoticesAreOurs`) |
| `readings` | messages of up to five parts of every kind with caps of 3 parts and depth 2, drafts of up to 3 attachments; three domains one beneath the other, two emails, two events, four times, a range whose buckets the zone leaves in place and one whose buckets it shifts; six ids, pages of 1 and 2; a name with up to two of the seven kinds of answer; two projects, three migrations, three changes of a deployment | nothing dropped (`NothingDropped`), indexes and round trips (`ReadingIsFaithful`), a message on one domain's page, and a chart that comes to the number above it but for what was committed or left the window in between, or reads zero (`NumbersAgree`), listings (`EachOnce`), destinations (`PostsWhereAllowed`), the doctor (`DoctorIsRight`) |

The bounds, and why they are enough:

* Two of everything that races: requests, passes, handlers, projects on an
  account. Each race in this code is between two transactions over one row, one
  unique value or one shared resource; a third waits or loses in the same way the
  second does. Where there are proofs they hold for any number.
* Three tries of a message (`MaxAttempts`) and one death: a first, a middle and a
  last try, with the death before, between or at the last.
* Two webhook attempts and a limit of two failures: the boundary of each is
  reached, and with two deliveries both in one pass and across passes.
* Two rows in a sweep, each in front of the other in turn: the one behind is what
  an exception or a cut at the one before it could hold up. Raising rows as many as
  a sweep reads are excepted in `NoWebhookLost`: those in front would fill each sweep.
* One request at a time in `identities`, beside the pass: `SesAgreesWithRows` speaks of
  requests about a value that did not overlap, and a removal under a pass is there
  with one request. The theorem is about any number. One user's request in
  `webhooks`: it races two passes.
* `MaxTurns`, `MaxChanges`, `MaxStarts`: enough for a thing to go and come back
  while another request is under way; six in `event_plumbing`, for two projects to
  set up, one to move and both to remove.
* `MaxCrashes`, `MaxCuts`, `MaxFailures`: one failure at any point; a second at a
  later point finds the same kind of state.
* `MaxRows` 1 in `aws_account`: a project is connected once and disconnected;
  another account is reached by connecting over the row. `MaxDeliveries` 2: one
  notice may be handled beside another, or twice.
* `readings`: a cap of three parts is passed with one multipart around four leaves,
  met exactly, and met by a multipart; depth two puts a multipart at the cap.
  Windows of two and three ticks and four times put an email before, at and after
  each boundary, also of a window that moves between number and chart; with two
  emails one may be committed between two queries and the other before them.
  `NumbersNext` tries `Overview` three times, each without the rest: the scope of a
  message does not depend on events, nor the count of events on when their email
  was sent.

Handlers, passes and requests are interchangeable, and where a run has no
liveness property and TLC profits from it, it says so (`SYMMETRY`).

Every property of a run has a mutant: a definition of the module (marked
"mutant" above it) that makes a likely mistake, under which TLC finds the
property violated.

## Fairness

* `SendPipeline!FairSpec`: weak fairness of each job's steps, for a worker that
  is running takes jobs and runs them (`worker/main.py`). Requests, failures and
  the environment are never obliged. `JobsSettle` names the ends ARQ does not
  recover from.
* `WebhookDelivery!FairSpec`: time passes (`ComeDue`), each pass goes on
  (`PassStep`; a sweep starts every minute and at startup, `worker/main.py:99`),
  and a pass stuck with a dripping answer reaches its timeout. Nothing obliges a
  delivery to be accepted, a job to be enqueued or a person to act. Nor does anything
  oblige an answer to end or an attempt not to raise: `NoWebhookLost` names what may
  hinder a delivery for as long as it lasts (`Hinders`).
* `EventIngest!FairSpec`: each handler goes on, since polls and SNS's posts keep
  coming while a notification waits. One step has strong fairness: the insert of
  the last address a handler has to add. It is enabled again and again while
  another handler takes and releases the same address; PostgreSQL wakes the
  waiter when the transaction it waits for ends, long before the loser of the
  race has come back through SQS to the same statement, so it is not overtaken
  for ever.
* `InboundIngest!FairSpec`: a poll starts (the cron of `worker/main.py`) and what it
  has begun goes on; and SQS delivers again and again what is on the queue, so an
  announcement that passes keep finding on offer is received by one of them
  (strong fairness of `Receive`). A queue that no readable key opens is excepted in
  the property.
* `Identities!FairSpec`: the hourly pass starts and goes on, also when there is
  always something due that it cannot check, and a request that has a row locked
  comes to its end. Failures are not obliged to stop; they are bounded. Nobody is
  obliged to connect a project again: `EventuallyChecked` is about identities whose
  project has credentials from some time on.
* `ApiCalls!FairSpec`: a request that reached the server is handled, and a cache
  entry expires. Nobody need send, retry or revoke.

The other modules have no fairness: a form that nobody posts again stays as it
is, and nothing in the code repairs by itself.

## Refinement and proofs

**Refinement.** `SendPipeline` implements `Outbox`: the two are joined by a mapping
(`INSTANCE Outbox WITH`), TLC checks `KeepsPromise` on the instance, and
`SendPipelineProofs!PromiseKept` proves it for all. Requests, deaths, retries,
redeliveries and the answers to collisions are all stutters or one of the four
steps of the outbox; the constraint on keys is what makes the acceptance of a
second message for a key impossible.

`EventIngest` and `InboundIngest` implement `Inbox` in the same way, one promise for
two components (`EventProofs!PromiseKept`, `InboundIngestProofs!PromiseKept`). A
handler's work is a stutter but for the look that finds nobody (`Excuse`), the
commit, where the item is recorded, and the removal, which is allowed because of
what the handler has found. Redeliveries, collisions, deadlocks and deaths are
stutters. What the promise says of single states, `GoneMeansRecorded` and
`GoneMeansSettled`, is a theorem of its own too (`NothingDisappears`, `GoneIsSettled`);
the runs check it as part of `KeepsPromise`.

**Proofs.** The modules `…Proofs` are checked by TLAPS, for every value of the
constants under the modules' named assumptions (the functions have the types their
comments say, the bounds are natural numbers, the values that stand for "nothing"
are not among the rest). Requests, keys, recipients, notifications, messages,
handlers, projects, domains, users and passes may be any sets, of any size. Each
component has its type invariant and the properties below proved as theorems of its
specification, from an inductive invariant by `Init => IInv`, one lemma per kind of
step, and temporal logic.

**SendPipeline.** Proved of `Spec`: `TypeOK`, `CopiesAccountedFor`,
`CopiesBounded`, `IdempotentAnswers`, `OneMessagePerKey`, `JobEndsSettled` and
`SuppressedBeforeNeverSent`. The inductive invariant `IInv` strengthens them with
`Places` (before the commit there is no row, before the enqueue no job, and what
a job's place says of its row), `Tries` (copies stay below the tries, and a try
that has yet to call has one to spare), `OneRowPerKey` (the unique constraint,
which both idempotency properties rest on), `AnswersExist` and `Checked` (past the
check, a listed recipient is a late one). Without `Places`, `CopiesAccountedFor` is
not inductive: a second job at a row that says sent could be about to call.
`CopiesBounded` follows from `Tries`; the action property from `Checked` and the
steps that hand over a copy. `PromiseKept` is the refinement: `PromiseInit` for the
first state, and under `IInv` a step of `Outbox` or a stutter for every action
(`PromiseStep`); an answer to a collision needs `OneRowPerKey` to be the answer of
the message that was accepted.

**EventIngest.** Proved of `Spec`: `TypeOK`, `RecordedOnce`, `GoneMeansRecorded`,
`EventsComeWhole` and `ListedForCause`. The inductive invariant adds `Hands` (a
handler away from its message holds a notification), `Working` (what it still has
to list, what it has inserted and what is on the list cover what its notification
condemns), `OneWriter` (two handlers past the insert never have the same
notification, which is the unique index at work) and `Counted` (a notification
has one row if recorded and none otherwise). `EventsComeWhole` is inductive only
with `Working`, and `RecordedOnce` only with `OneWriter` and `Counted`.
`NamedIsCondemned` relates the code's computation of whom an event condemns to
the property's own definition of it. Handlers leave through `CloseInv` and
`EndInv`, cited by every action that ends a session. The refinement needs one more,
`SentInHand`: what a handler holds was sent, so that a record made by a handler whose
notification another has removed is still the record of a notice that was there.

**Receiving.** Proved of `Spec`: `TypeOK`, `OneReceiver`, `MailFlows` and
`NothingStranded`. `TypeOK` is proved
together with `Placed` (a request has something in hand until it has ended, and
a request at a step that removes is not a setup), since every step reads what the
request has in hand.
`OneReceiver` speaks of what is committed and is not inductive: a setup could hold
a row that its commit adds to a domain already taken. `Claims` closes it: a row
that a setup has updated conflicts with no row of another project committed, and
with no row another setup has updated. `Claim` establishes it by the wait and the
index, and every other step keeps it because rows updated are never given up
before the transaction ends. `MailFlows` and `NothingStranded` speak of the state
between requests; a second invariant, `Strong`, follows a request that is alone
through its calls. `OneAtATime` has what the request has in hand at each place
(`Hand`: a setup has made what it counted, a removal's domains are those of its
project, and before it drops anything nobody else is left); `StillFlows` has the
domains that work except those the request is switching off (`FlowsAt`);
`StillKnown` has what some row still names (`KnownAt`): at "clearing" the rule is
gone and its row is not, and at "committing" what is left is named by the other
connections.

**InboundIngest.** Proved of `Spec`: `TypeOK`, `ToldOnce`, `OnlyReceiversGetMail`
and `GoneMeansSettled`. The inductive invariant adds `Announced` (what is queued or
recorded was announced, and an identity that receives is among those that did
since any announcement), `Hands` (the identity a handler has located received for a
domain the message names; an announcement about to be removed is settled) and
`OneWriter` (of the handlers past the insert no two have the same message, which
is the unique index at work). The lookup is done in one session and used in
another, so `OnlyReceiversGetMail` is inductive only with the second part of `Hands`.
For the refinement, `RecordedIsTold` joins the row to the event that `Inbox` counts:
an object is recorded exactly when it has been told of. Then switching receiving off
is `LoseQueue`, an object's expiry an `Excuse` of all its announcements at once.

**Accounts.** Proved of `Spec`: `TypeOK`, `WayBack`, `OwnedOnceClaimed` and
`EndedStaysEnded`. The inductive invariant has `Hands` (what a request at each of
its steps is, and that the account it means exists), `Sessions` (numbers not yet
given out belong to nobody, and no two requests hold the same number) and
`CodeIsHeld` (as long as nothing has failed, an account's code has been shown or
is in the hands of a request that will show it), from which `WayBack` follows.
`EndedStaysEnded` is an action property: a session that has expired or been
dropped has a number that no request holds, so no later step opens it.

**ApiCalls.** Proved of `Spec`: `TypeOK`, `KeptWithinLimit` and `AnswersAreTrue`. The
inductive invariant adds `Attempts` (the attempts of a call are made one after
another, and unless an answer was lost the earlier ones are over) and `Charged` (a
window has counted whatever it has admitted, because the increment comes before
the comparison). A call that was refused and never went unanswered was not
accepted only because of the first.

**WebhookDelivery.** Proved of `Spec`: `TypeOK`, `PendingIsScheduled`,
`SettledOnEvidence` and `CountsConsecutive`. A pass writes from copies of any age,
so the inductive invariant says what an old copy still tells: `Copies` (the attempts
it counted were made, and there are some left), `Answers` (a reply in hand is of an
attempt that was made, and a refusal that would be final leaves none), `Unqueued` (a
row that was never queued, or is deleted, is in no schedule) and `Counting`
(`CountsConsecutive`, for deleted endpoints as well). A verdict and a user's request
write an endpoint by the same rule, so one lemma (`WriteInv`) serves both. Two lemmas carry the schedule:
`InOrderTakes` (what `InOrder` picks are the rows at those places, each once) and
`InsertAdds`. `InOrder` says so without recursion, where `SelectSeq` would be
recursive and out of the prover's reach.

**Notifications.** Proved of `NoticesSpec`, with the requests of `AwsAccount` in it:
`OneKeyPerRow`, `PendingMeansAsked` and `NoticesAreOurs`. The invariant follows a
request by how far it is: before its flush the key it answers about is confirmed
(`BeforeFlush`), after it the row it will commit is held by a confirmed key and, if
nothing overtook it, is all of one (`AfterFlush`); `OneWriter` is the lock. For a
committed row `Connections` says as much, which includes that its account, and the
one of its queue, once had a confirmed key of the project: what `FindOwners` and
`Poll` rest on. `Proven` is what a handler has established at each of its steps; it
lasts because what AWS has confirmed stays confirmed. `MergeColumns` and
`UpdatedRow` are what writing only the columns that differ does to a row.

**EventPlumbing.** Proved of `PlumbingSpec`: `PlumbingTypeOK`, `EventsFlow`,
`NothingLeftBehind` and `TrackingToldTruly`. They speak of the state between
requests, so the inductive invariant `PlumbingInv` follows a request through its
calls. `AllInHand` is what it has in hand at each stage, without which the types are
not inductive; `OneAtATime` says who is alone, that its copy is then still the row,
and that without an overlap everybody is. `Flowing` says of a project nothing has
disturbed that its page is right, or that a request of its own which is alone is
just taking the resources away (`TakesAway`) or has switched what it is about to
write (`Switches`); `Progress` is what such a request has done so far: a setup has
made the first `step` of what it builds, and a removal that drops found no other
user. `Accounted` holds until something goes astray: a row names the zone it is in
(`NamesItsZone`), a resource is in a named zone or one a setup is at work in
(`KnownIn`), and a removal that leaves something leaves it to another row (`Left`).

**Identities.** Proved of `Spec`: `TypeOK` and `SesAgreesWithRows`, for any accounts.
The types need `Hands` (a request's kind and copy at each place) and `Locks`: a row
has one open transaction's lock at most, and is under it as that transaction loaded
it, or a late commit would write a row that is gone. `SesAgreesWithRows` speaks of
the state between requests; until something excuses it, `Agreed` says that no two
requests are about one value (`Alone`), what a request knows of it (`Clear`: the row
is as it was loaded, what was made or adopted is at SES, and a request that counted
nobody still finds nobody), that a row's identity is at SES unless the request that
removes the row has dropped it and not yet committed (`Kept`), and that on one
account an identity at SES has a row or is being added (`Backed`). The last is false
with several accounts, for `count_other_references` counts the rows of all of them:
this is where the code rests on an instance having one.

**Listing, Destinations and Deployment.** Proved of `ListingSpec`, `DestSpec` and
`DeploySpec`: `EachOnce`, `PostsWhereAllowed` and `DoctorIsRight`. A reader has been given every row, from
the last one on, that was there when it began (`ListingInv`); that the last page then
completes it rests on what the newest of a finite set are (`TopClosed`, `TopFits`,
`TopNotEmpty`), which needs the cardinalities of sets and a greatest element by
well-foundedness. The addresses a delivery has in hand are reachable under the
settings in force, because a restart takes the delivery with it (`DestInv`), and one
the settings allow is reachable (`AllowedIsReachable`). What a running process has
read was accepted (`DeployInv`); given that, what the doctor says is true of every
state.

**Mime.** Proved of `MimeSpec`, for messages of any number of parts and any caps of
at least two parts and two levels: `NothingDropped` and `ReadingIsFaithful`. The
invariant `MimeInv` only says how a message splits (a part is deeper than the one
before it only by one, and only beneath a multipart or a message). The rest is about
three folds over such a message: the walk (`Leaves`), the files (`Files`) and the
assembly (`Build`). What a fold computes is said of its values after each element
(`FoldGoesOn`, and `WalkGoesOn`, `FilesGoOn`, `BuildGoesOn` for the three), and what
holds of all those values is shown by induction on how far the fold has got, as the
absence of a least counterexample (`Upward`). The walk keeps `Walked` (each leaf is a
part, in order, beneath no other leaf; what it has left out is beneath a leaf or it is
truncated) and `Complete` (until it is truncated, each part it has passed is a leaf, is
beneath one or is a multipart above some); with them `AllIsGiven` says that whatever a
message holds is in one of its leaves. The files keep `FiledInto`: the attachments
among the leaves so far, in their order, which `Listed` and the second walk of a
download then find again (`FoundWhereListed`). A draft keeps `AttachedRead`: whatever
was attached so far, the walk of the message as built so far has the bodies first and
then one leaf per attachment, unless it met its cap (`BuiltArrives`).

**Overview.** Proved of `OverviewSpec`, for any domains, mail, events, ranges, buckets
and zone: `NumbersAgree`. The invariant says what the rows are and what a page has
read by each stage (`InOrder`: the chart's queries saw what the number's did, and
more, and its window starts no earlier); the work is in the sums. A chart's total over any set
of slots is the number of things that fall in one of them (`TotalBetween`, by adding one
bucket at a time), the buckets between the ends of a range leave no instant out
(`BucketsCover`, from what rounding down does, `Truncating`), where the zone is a whole
number of buckets away the database's keys are these buckets (`KeysMatch`) and elsewhere
they are none of them (`NothingFound`, from `MultiplesDiffer`), and so each chart comes to the
number above it but for what came and what left in between (`SendsCounted`,
`ReportsCounted`). That a message has one page rests on
domains above one sender lying above each other (`Nested`), so that there is a longest
(`LongestAbove`), which alone has no narrower one between.

**Only model-checked.** Liveness: `JobsSettle`, `NoWebhookLost`, both
`EventuallySettled`, `EventuallyChecked` and `RevocationTakesEffect`. The prover has no
rules for fairness. Every safety property that a run checks is a theorem.

## What the code does otherwise than it says

Each of these is a definition at the end of its module that states what a comment
or a document of the repository promises, and that the code does not keep. No run
checks them; adding the definition to the component's `.cfg` (as `PROPERTY` if it is
temporal, as `INVARIANT` otherwise) shows the behaviour.

| Definition | What is said | What the code does |
|---|---|---|
| `SendPipeline!NeverSentToSuppressed` | `README.md:30`: bounced and unsubscribed addresses "are never sent to again" | the list is read when a message is accepted; one queued before, or retried, is sent to an address listed since. What holds is `SuppressedBeforeNeverSent` |
| `SendPipeline!ConnectedNeverFallsBack` | `core/services/sending.py:10-17`: SMTP is only for a project with no AWS connection; "quietly falling back to a local mailbox would report success while delivering to nobody" | `choose_provider` looks for a connection whose status is connected, so a project whose row is in `error` is given SMTP when it is configured |
| `WebhookDelivery!SuccessResets` | `core/models/webhook.py:103`: the count is "reset to zero by any success" | a success whose copy of the endpoint says zero writes nothing, whatever other passes have counted meanwhile |
| `WebhookDelivery!PickedUp` | `worker/webhooks.py:332`: "anything the immediate enqueue lost is picked up here on the next pass" | an attempt that raises leaves its row due on every pass, and an answer that drips past the timeout cancels each pass before the rows behind it (`WebhookSweeps.cfg`). What holds is `NoWebhookLost` |
| `EventIngest!UnknownIsNotOurs` | `core/events/ingest.py:12`: an unknown message is "not ours, remove it; retrying will never help" | an event that overtakes the worker's own record of the SES id is removed, and lost |
| `Receiving!KeptIfRuleFails` | `core/services/inbound.py:228`: what is built is "recorded as soon as it exists, and kept if the rule below then fails" | the page that shows the refusal does not commit |
| `Receiving!RunAgainRepairs` | `ses/inbound.py:477`: running it again repairs a rule | a setup cut short between the first rule and the activation leaves the rule in a set that is not active; each later one finds no active set, creates the rule again, and SES answers that it exists |
| `InboundIngest!NotOursIsNobodys` | `worker/inbound.py:9`: an announcement is removed when it is "not ours" | the passes read once which projects a queue speaks for; a message for one that began to receive since is nobody's |
| `EventPlumbing!NamedUntilGone` | `core/services/events.py:240`: AWS first, the row second, so that something is left to name what is there | each removal passes over what AWS refuses, and the row is cleared all the same |
| `Accounts!SignedOutEverywhere` | `api/routes/auth.py:289`: a recovery "signs the account out everywhere" | a session that outlived the index of sessions is not found and stays |
| `ApiCalls!FailsImmediately` | `api/routes/api_keys.py:137`: requests with a revoked key "start failing immediately" | a lookup that was under way fills the cache after the eviction, and the key works until the entry expires. What holds is `RevocationTakesEffect` |
| `ApiCalls!RefusedMeansNotSent` | `packages/sdk-python/src/seskit/_errors.py:120`: only a connection error leaves it open whether the message was accepted | a refusal of the retry of an unanswered request does too |
| `Identities!FailuresAreRecorded` | `worker/identities.py:12`: each identity is checked in its own try "and a failure is recorded on the row" | credentials are loaded outside `check_identity`'s own `try` (`core/services/identities.py:225`): for an identity of a disconnected project the exception is logged, nothing is written, and it is due on every pass (`Identities.cfg`) |
| `Identities!ChecksAreKept` | `worker/identities.py:12`: "one failure must not stop the pass" | a row deleted during the pass makes a flush fail, and the one commit of the whole pass (`worker/identities.py:52`) is lost |

## Seen while modelling

Allowed by the modules, and not the subject of a run.

Sending and webhooks:

* A request that dies between its commit and its enqueue leaves a queued row that
  no job sends, and repeats with the same key are answered with it.
* A job that reaches `job_timeout`, or dies on its last try, leaves its row
  `sending` for good; `core/models/email.py:55-57` counts on a retry.
* An SMTP 4xx is raised as a rejection, so it is never retried
  (`core/services/sending.py:238`), although the adapter calls it temporary.
* Two passes that attempt one delivery each write their verdict: a delivered row
  may become failed, or the other way round, though the status is called terminal
  (`core/models/webhook.py:60`). `SettledOnEvidence` is what remains true.
* A pass with an old copy disables an endpoint its user has just re-enabled, or
  leaves one active past its limit (`core/services/webhooks.py:428`).
* A paused endpoint still gets the retries of deliveries queued before; deleting
  an endpoint during a sweep ends the sweep at that row; a changed URL is followed
  (`docs/guides/webhooks.md:110`) only by passes not yet opened.
* An endpoint that answers a little at a time is never timed out, for httpx counts
  its timeout per read; the sweep's own timeout then cancels the whole pass, and
  the same row heads the next (`worker/webhooks.py:346`).
* A malformed `WEBHOOK_ALLOWED_CIDRS` is not refused at boot: it raises at each
  registration and at each attempt, where it is logged and every due row stays
  pending, pass after pass, until the setting is corrected. An IPv4-mapped address of an
  allowed network does not match it.

Events and mail:

* `email.suppressed` may be sent twice, or not at all, when an address is listed
  or removed between `suppressed_among` and the inserts
  (`core/events/ingest.py:232`). Two presses of unsubscribe at once answer one of
  them with an error (`api/routes/unsubscribe.py:129`).
* An attachment declared `message/rfc822` does not come back from a message that was
  built with it, and one declared `multipart/*` does only because it names no
  boundary to be split at; of a `message/delivery-status` only the first
  block is kept; a multipart that cannot be read leaves an empty body without
  `truncated`; exactly `MAX_PARTS` leaves and then an empty multipart set
  `truncated` with nothing missing, and the cap on addresses never sets it.

Resources in AWS:

* Receivers are counted before the queue and topic are removed: a setup of another
  project that has not committed is not counted, and its domain ends on, without
  a queue (`core/services/inbound.py:361`). In the same way the rule set is deleted
  with a rule that another request put in it after `Inspect`.
* A repair of a domain that is on writes nothing, so it does not wait for a
  teardown of the same domain; its rule stays after the row is cleared. A rule
  whose deletion fails is passed over, and the row that knew it is cleared
  (`core/services/inbound.py:333`).
* "Plumbing with no rules pointing at it: left by a setup that failed"
  (`core/services/inbound.py:414`) is never recorded, for the reason
  `KeptIfRuleFails` shows; only requests that overlap leave a row like that.
* Tracking is one flag per row over event destinations that projects share, so a
  project's page may tell what another has switched since. Clearing a project's
  event resources resets its wish for tracking. Connecting to another account
  leaves the resources of the old one with nothing to name them.
* Overlapping connects may leave one key id beside the other's secret; connecting
  elsewhere while an access request is under way keeps its `PENDING` for the new
  account; `production_requested_at` is never reset; the check marker is cleared
  before the commit that makes it outdated.
* `count_other_references` (`core/services/identities.py:109`) counts the rows of every
  project with the same value and region, whatever its account: with projects on
  two accounts, an identity stays in the one whose last row goes. It takes an
  instance to have one account.
* An identity of a project that has been disconnected keeps its row and its place
  among those due, and cannot be removed until the project is connected again:
  `remove_identity` wants credentials even where other projects still use the
  identity and SES is not asked (`core/services/identities.py:281`).

Accounts, numbers and settings:

* Two concurrent recoveries may both spend one code. A second first signup may
  also become owner. Redis failing after a recovery's commit leaves the new code
  unseen. `set_current_project` on a session deleted meanwhile leaves a record
  without a user, and a session index may expire before the sessions it lists.
  Nothing deactivates a user, though readers test for it.
* Rates may exceed 100 %; a chart counts in two buckets an email whose events fall
  in two. A number and the chart beside it take a time each (`analytics.py:223`,
  `:273`) and ask at different moments, so what is committed or leaves the window in
  between is in one of them. `date_trunc` uses the time zone of the database session
  and `_truncate` UTC: if the two differ by other than whole buckets (daily bars
  in any zone but UTC, hourly bars in a zone of half hours) every point is zero.
* A row that commits late with an id a reader has passed is missed by that reading
  of the listing.
* The doctor tells a project whose connection row is in `error` with an unreadable
  key that SMTP works, though the worker fails its messages; its "not an asyncpg
  URL" branch is unreachable; it speaks of its own settings, not of those of a
  process that has not been restarted. A blank `ENVIRONMENT` means local.
* `docs/reference/configuration.md:192` says that setting `SMTP_HOST` turns SMTP
  delivery on; `smtp_configured` wants `EMAILS_FROM_EMAIL` as well
  (`core/config.py:419`).

## Not modelled

* Pure functions without state: unsubscribe tokens, MACs, the cipher of stored
  credentials, password hashing, identifiers, CSRF tokens. A token or a key is
  valid or not. Charsets, filenames and header text of messages; the wording,
  rendering and templates of pages and messages; logging.
* The login throttle: a counter per address of the same kind as the rate limit's.
* Middleware, the migrations' content, scripts, the SDK's models and its async
  twin, which has the same loop.
* The translation of each error code of SES, SMTP, SNS and SQS: callers see
  accepted, rejected, or failed with the outcome unknown.
* PostgreSQL, Redis, ARQ, SQS, SNS, SES and DNS are external: they appear as the
  code uses them, and PROJECT.json marks those definitions.

## Plan

What would add most next:

1. A third abstract specification beside `Outbox` and `Inbox`: a webhook delivered at
   least once or failed with its attempts used.
2. A disconnect that composes `Receiving`, `EventPlumbing`, `Identities` and
   `AwsAccount` over one account, which are four modules today.
3. The login throttle beside the rate limit.
