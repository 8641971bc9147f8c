----------------------------- MODULE Deployment -----------------------------
(***************************************************************************)
(* Settings, the keys sealed under SECRET_KEY, and the doctor that says    *)
(* whether a send would work.  The operator edits the environment; the API *)
(* and the worker read it once, when they start, and may refuse to.  Keys  *)
(* are sealed by the API under its secret and opened by the worker under   *)
(* its own.                                                                *)
(***************************************************************************)
EXTENDS Naturals, FiniteSets

CONSTANTS
    Projects,
    Revisions,   \* ids of migrations
    NoRevision,
    Down,        \* a process that is not running
    MaxChanges   \* bound: edits, outages, deploys and connections

ASSUME RevisionAssumption == NoRevision \notin Revisions

VARIABLES
    env,         \* what the operator has written
    api, worker, \* the Settings each process runs with, or Down
    connection,  \* aws_connections, by project
    up,          \* which of Postgres and Redis answer
    history,     \* migrations/versions: revision and down_revision
    applied,     \* alembic_version
    stuck,       \* whether a message has been queued for five minutes
    changes

deployVars == <<env, api, worker, connection, up, history, applied, stuck, changes>>

(* The environment as typed.  "blank" is a variable declared and empty.    *)
Values == [SECRET_KEY |-> {"blank", "changeme", "old", "new"},
           ENVIRONMENT |-> {"blank", "local", "production"},
           RECOVERY_KEY |-> {"blank", "short", "long"},
           DATABASE_URL |-> {"blank", "asyncpg", "psycopg"},
           SMTP_HOST |-> {"blank", "mailpit"},
           EMAILS_FROM_EMAIL |-> {"blank", "noreply"},
           REDIS_URL |-> {"index 0", "index 15"}]

(* _blank_means_unset: an optional variable left blank takes its default.  *)
Read(e) ==
    [e EXCEPT !.ENVIRONMENT = IF @ = "blank" THEN "local" ELSE @,
              !.RECOVERY_KEY = IF @ = "blank" THEN "off" ELSE @,
              !.SMTP_HOST = IF @ = "blank" THEN "unset" ELSE @,
              !.EMAILS_FROM_EMAIL = IF @ = "blank" THEN "unset" ELSE @]

IsLocal(s) == s.ENVIRONMENT = "local"
SmtpConfigured(s) == s.SMTP_HOST # "unset" /\ s.EMAILS_FROM_EMAIL # "unset"

(* The required variables and the validators: Settings() raises otherwise. *)
RequireAsyncDriver(s) == s.DATABASE_URL = "asyncpg"
RequireAStrongRecoveryKey(s) == s.RECOVERY_KEY # "short"
RejectInsecureDefaults(s) == ~IsLocal(s) => s.SECRET_KEY # "changeme"

Accepted(s) ==
    /\ s.SECRET_KEY # "blank"
    /\ RequireAsyncDriver(s)
    /\ RequireAStrongRecoveryKey(s)
    /\ RejectInsecureDefaults(s)

NoConnection == [status |-> "none", sealed |-> "none"]

DeployInit ==
    /\ env = [SECRET_KEY |-> "old", ENVIRONMENT |-> "production", RECOVERY_KEY |-> "blank",
              DATABASE_URL |-> "asyncpg", SMTP_HOST |-> "blank", EMAILS_FROM_EMAIL |-> "blank",
              REDIS_URL |-> "index 0"]
    /\ api = Down /\ worker = Down
    /\ connection = [p \in Projects |-> NoConnection]
    /\ up = {"postgres", "redis"}
    /\ history = {}
    /\ applied = NoRevision
    /\ stuck = FALSE
    /\ changes = 0

Change == changes < MaxChanges /\ changes' = changes + 1

-----------------------------------------------------------------------------
(* The operator, the processes and what they stand on.                     *)
Edits ==
    UNION {{[env EXCEPT ![k] = v] : v \in Values[k] \ {env[k]}} : k \in DOMAIN Values}

Edit(e) ==
    /\ Change
    /\ env' = e
    /\ UNCHANGED <<api, worker, connection, up, history, applied, stuck>>

(* get_settings is asked once; a refusal leaves the process down.          *)
Started == IF Accepted(Read(env)) THEN Read(env) ELSE Down

StartApi ==
    /\ api # Started
    /\ api' = Started
    /\ UNCHANGED <<env, worker, connection, up, history, applied, stuck, changes>>

StartWorker ==
    /\ worker # Started
    /\ worker' = Started
    /\ UNCHANGED <<env, api, connection, up, history, applied, stuck, changes>>

WorkerStops ==
    /\ Change
    /\ worker # Down
    /\ worker' = Down
    /\ UNCHANGED <<env, api, connection, up, history, applied, stuck>>

Outage(service) ==
    /\ Change
    /\ up' = IF service \in up THEN up \ {service} ELSE up \cup {service}
    /\ UNCHANGED <<env, api, worker, connection, history, applied, stuck>>

(* New code brings a migration, upon any that is there.                    *)
Deploy(revision, parent) ==
    /\ Change
    /\ revision \notin {m.revision : m \in history}
    /\ IF history = {} THEN parent = NoRevision ELSE parent \in {m.revision : m \in history}
    /\ history' = history \cup {[revision |-> revision, down_revision |-> parent]}
    /\ UNCHANGED <<env, api, worker, connection, up, applied, stuck>>

(* _alembic_head: what nothing else names as its down_revision, if that is *)
(* one.                                                                    *)
AlembicHead ==
    LET heads == {m.revision : m \in history} \ {m.down_revision : m \in history}
    IN IF Cardinality(heads) = 1 THEN CHOOSE h \in heads : TRUE ELSE NoRevision

Migrate ==
    /\ "postgres" \in up
    /\ AlembicHead \notin {NoRevision, applied}
    /\ applied' = AlembicHead
    /\ UNCHANGED <<env, api, worker, connection, up, history, stuck, changes>>

-----------------------------------------------------------------------------
(* Connections, as the API keeps them.                                     *)
Serves == api # Down /\ up = {"postgres", "redis"}

(* encrypt_secret_access_key, decrypt_secret_access_key: a key opens under *)
(* the secret it was sealed with and no other.                             *)
Sealed(s) == s.SECRET_KEY
StoredCredentials(p, s) == connection[p].sealed = s.SECRET_KEY

(* connect_aws with a key that AWS takes.                                  *)
Connect(p) ==
    /\ Change /\ Serves
    /\ connection' = [connection EXCEPT ![p] = [status |-> "connected", sealed |-> Sealed(api)]]
    /\ UNCHANGED <<env, api, worker, up, history, applied, stuck>>

(* connect_aws or refresh_connection, refused by AWS.  A refresh asks only *)
(* with a key it can open; connecting comes with its own.                  *)
AwsRefuses(p) ==
    /\ Change /\ Serves
    /\ connection[p].status = "connected"
    /\ connection' = [connection EXCEPT ![p].status = "error"]
    /\ UNCHANGED <<env, api, worker, up, history, applied, stuck>>

Refresh(p) ==
    /\ Change /\ Serves
    /\ connection[p].status = "error"
    /\ StoredCredentials(p, api)
    /\ connection' = [connection EXCEPT ![p].status = "connected"]
    /\ UNCHANGED <<env, api, worker, up, history, applied, stuck>>

Disconnect(p) ==
    /\ Change /\ Serves
    /\ connection[p] # NoConnection
    /\ connection' = [connection EXCEPT ![p] = NoConnection]
    /\ UNCHANGED <<env, api, worker, up, history, applied, stuck>>

-----------------------------------------------------------------------------
(* A message sent now: choose_provider in the API, _aws_for in the worker. *)
ChooseProvider(p) ==
    IF connection[p].status = "connected" THEN "ses"
    ELSE IF SmtpConfigured(api) THEN "smtp"
    ELSE "refused"

Outcome(p) ==
    IF ~Serves THEN "refused"
    ELSE IF ChooseProvider(p) = "refused" THEN "refused"
    ELSE IF worker = Down THEN "queued"
    ELSE IF connection[p] # NoConnection /\ ~StoredCredentials(p, worker) THEN "failed"
    ELSE ChooseProvider(p)

(* Messages are accepted and no worker takes them; one comes and does.     *)
Waits ==
    /\ Serves /\ worker = Down
    /\ \E p \in Projects : Outcome(p) = "queued"
    /\ ~stuck /\ stuck' = TRUE
    /\ UNCHANGED <<env, api, worker, connection, up, history, applied, changes>>

Drains ==
    /\ worker # Down /\ up = {"postgres", "redis"}
    /\ stuck /\ stuck' = FALSE
    /\ UNCHANGED <<env, api, worker, connection, up, history, applied, changes>>

-----------------------------------------------------------------------------
(* The doctor, run with settings s: the names of the checks that fail.     *)
CheckConfiguration(s) == IF s.SECRET_KEY = "changeme" THEN {"secret key"} ELSE {}

CheckPostgres ==
    IF "postgres" \notin up THEN {"postgres"}
    ELSE IF AlembicHead \in {NoRevision, applied} THEN {}
    ELSE {"migrations"}

CheckRedis(s) == IF "redis" \notin up \/ s.REDIS_URL = "index 15" THEN {"redis"} ELSE {}

(* Mutant: connections are counted and their keys not tried.               *)
UnreadableKeysCounted(connected, s) == {}

UnreadableKeys(connected, s) == {p \in connected : ~StoredCredentials(p, s)}

(* A database that does not answer counts as one without connections.      *)
CheckSending(s) ==
    LET connected == IF "postgres" \in up
                     THEN {p \in Projects : connection[p].status = "connected"} ELSE {}
    IN IF connected # {}
       THEN IF UnreadableKeys(connected, s) # {} THEN {"sending"} ELSE {}
       ELSE IF SmtpConfigured(s) THEN {} ELSE {"sending"}

CheckWorker == IF "postgres" \in up /\ stuck THEN {"worker"} ELSE {}

Run(s) ==
    CheckConfiguration(s) \cup CheckPostgres \cup CheckRedis(s) \cup CheckSending(s)
        \cup CheckWorker

DeployNext ==
    \/ \E e \in Edits : Edit(e)
    \/ StartApi \/ StartWorker \/ WorkerStops
    \/ \E service \in {"postgres", "redis"} : Outage(service)
    \/ \E revision \in Revisions : \E parent \in Revisions \cup {NoRevision} :
           Deploy(revision, parent)
    \/ Migrate
    \/ \E p \in Projects : Connect(p) \/ AwsRefuses(p) \/ Refresh(p) \/ Disconnect(p)
    \/ Waits \/ Drains

DeploySpec == DeployInit /\ [][DeployNext]_deployVars

-----------------------------------------------------------------------------
(* The doctor is believed.  Run with the settings the processes run with:  *)
(* when every check passes, a message of a project that is connected goes  *)
(* to SES and, where no project is, to SMTP; when "sending" fails, some    *)
(* project's messages, if there is a project, are refused or fail.  One    *)
(* whose connection is in error may be told wrong: see README.md.          *)
SendingToldTruly ==
    api # Down /\ worker = api =>
        /\ Run(api) = {} =>
               \A p \in Projects :
                   /\ connection[p].status = "connected" => Outcome(p) = "ses"
                   /\ connection = [q \in Projects |-> NoConnection] => Outcome(p) = "smtp"
        /\ "sending" \in Run(api) /\ Projects # {} =>
               \E p \in Projects : Outcome(p) \in {"refused", "failed"}

(* And when it passes, with one head to reach, no migration is missing.    *)
SchemaToldTruly ==
    CheckPostgres = {} /\ AlembicHead # NoRevision =>
        \A m \in history : m.down_revision # applied

DoctorIsRight == SendingToldTruly /\ SchemaToldTruly
=============================================================================
