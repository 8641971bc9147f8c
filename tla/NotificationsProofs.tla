------------------------- MODULE NotificationsProofs -------------------------
(***************************************************************************)
(* Connections and the events that come over them, for any projects, keys, *)
(* accounts, requests, notices and handlers.                               *)
(*                                                                         *)
(* A row is one key's as long as it is written from a copy that still      *)
(* says what the row says.  The invariant follows a request from what it   *)
(* loaded, through what AWS answered, to the row it has flushed and not    *)
(* committed; the lock is why that row is not overtaken.                   *)
(***************************************************************************)
EXTENDS Notifications, FiniteSetTheorems, TLAPS

-----------------------------------------------------------------------------
(* What a request has in hand, by how far it is.                           *)

RowOrNone == Row \cup {NoRow}
Asking ==
    [at : {"gate", "asking", "writing", "failing"}, kind : Kinds, project : Projects,
     row : RowOrNone, key : Keys, secret : Keys]
Answered ==
    [at : {"writing"}, kind : {"connect", "refresh"}, project : Projects, row : RowOrNone,
     key : Keys, answer : Answers]
Writing ==
    [at : Flushed, project : Projects, row : RowOrNone, after : RowOrNone, whole : BOOLEAN]

RequestsTyped == request \in [Requests -> {Idle} \cup Asking \cup Answered \cup Writing]

(* Only a connect may find no row; the others use the key of theirs.       *)
Loaded(q) ==
    q.kind # "connect" => q.row # NoRow /\ q.key = q.row.key

(* AWS has accepted the key that an answer is about.                       *)
HasAnswer(q) ==
    q.at = "writing" /\ q.kind \in {"connect", "refresh"} =>
        /\ q \in Answered
        /\ <<q.project, q.key>> \in confirmed
        /\ q.answer.account = AccountOf[q.key]
        /\ q.answer.review = "PENDING" => q.answer.account \in reviewed

BeforeFlush(q) ==
    /\ Loaded(q)
    /\ HasAnswer(q)
    /\ q.at = "failing" => q.row # NoRow /\ q.kind # "access"
    /\ q.at = "writing" /\ q.kind = "access" => AccountOf[q.key] \in reviewed

(* A row whose columns are those of one key, and of an account for which a *)
(* pending review was asked.                                               *)
Whole(row) ==
    /\ row.secret = row.key
    /\ row.account = AccountOf[row.key]
    /\ row.review = "PENDING" => row.account \in reviewed

Held(p, row) ==
    /\ <<p, row.key>> \in confirmed
    /\ Vouched(p, row.account)
    /\ row.events # NoQueue => Vouched(p, row.events)

AfterFlush(q) ==
    /\ q.row = NoRow => rows[q.project] < MaxRows
    /\ q.after # NoRow =>
          /\ Held(q.project, q.after)
          /\ Same(db[q.project], q.row) /\ (q.whole \/ q.project \notin raced) => Whole(q.after)

InHand ==
    \A r \in Requests :
        /\ \A q \in Asking \cup Answered : request[r] = q => BeforeFlush(q)
        /\ \A q \in Writing : request[r] = q => AfterFlush(q)

OneWriter ==
    \A r, g \in Requests :
        /\ request[r] \in Writing /\ request[g] \in Writing
        /\ request[r].project = request[g].project
        => r = g

Connections ==
    \A p \in Projects :
        db[p] # NoRow => Held(p, db[p]) /\ (p \notin raced => Whole(db[p]))

Asked == \A a \in Accounts : ses[a].review = "PENDING" => a \in reviewed

AwsInv == RowsTyped /\ RequestsTyped /\ InHand /\ OneWriter /\ Connections /\ Asked

-----------------------------------------------------------------------------
Columns == {"id", "key", "secret", "account", "status", "sandbox", "review", "events"}

(* A flush writes the columns that differ and leaves the others.           *)
LEMMA MergeColumns ==
    ASSUME NEW now \in Row, NEW loaded \in Row, NEW wanted \in Row
    PROVE  LET merged == Merge(now, loaded, wanted) IN
           /\ merged \in Row
           /\ \A c \in Columns :
                 merged[c] = IF wanted[c] # loaded[c] THEN wanted[c] ELSE now[c]
<1>1. DOMAIN now = Columns
  BY DEF Row, Columns
<1>2. \A c \in Columns :
         Merge(now, loaded, wanted)[c] = IF wanted[c] # loaded[c] THEN wanted[c] ELSE now[c]
  BY <1>1 DEF Merge
<1>3. Merge(now, loaded, wanted) \in Row
  BY <1>1 DEF Merge, Row, Columns
<1> QED
  BY <1>2, <1>3

(* The three kinds of request in hand are told apart by where they are.    *)
LEMMA Apart ==
    /\ \A q \in Asking : q \notin Answered /\ q \notin Writing /\ q # Idle
    /\ \A q \in Answered : q \notin Asking /\ q \notin Writing /\ q # Idle
    /\ \A q \in Writing : q \notin Asking /\ q \notin Answered /\ q # Idle
<1>1. \A q \in Asking : DOMAIN q = {"at", "kind", "project", "row", "key", "secret"}
                        /\ q.at \in {"gate", "asking", "writing", "failing"}
  BY DEF Asking
<1>2. \A q \in Answered : DOMAIN q = {"at", "kind", "project", "row", "key", "answer"}
                          /\ q.at = "writing"
  BY DEF Answered
<1>3. \A q \in Writing : q.at \in {"clearing", "committing"}
  BY DEF Writing, Flushed
<1>4. Idle.at = "idle"
  BY DEF Idle
<1> QED
  BY <1>1, <1>2, <1>3, <1>4

(* No project is connected at first.                                       *)
LEMMA AwsInitInv == Init => AwsInv
<1> SUFFICES ASSUME Init PROVE AwsInv
  OBVIOUS
<1>1. \A r \in Requests : request[r] = Idle
  BY DEF Init
<1>2. RowsTyped /\ RequestsTyped
  BY RowBoundAssumption DEF Init, RowsTyped, RequestsTyped, Reviews
<1>3. InHand /\ OneWriter
  BY <1>1, Apart DEF InHand, OneWriter
<1>4. Connections /\ Asked
  BY DEF Init, Connections, Asked
<1> QED
  BY <1>2, <1>3, <1>4 DEF AwsInv

-----------------------------------------------------------------------------
(* Steps that write no row.                                                *)

(* What AWS has accepted stays accepted.                                   *)
LEMMA Grows ==
    ASSUME confirmed \subseteq confirmed', reviewed \subseteq reviewed'
    PROVE  /\ \A row : Whole(row) => Whole(row)'
           /\ \A p, account : Vouched(p, account) => Vouched(p, account)'
           /\ \A p, row : Held(p, row) => Held(p, row)'
           /\ \A q : BeforeFlush(q) => BeforeFlush(q)'
<1>1. \A row : Whole(row) => Whole(row)'
  BY DEF Whole
<1>2. \A p, account : Vouched(p, account) => Vouched(p, account)'
  BY DEF Vouched
<1>3. \A p, row : Held(p, row) => Held(p, row)'
  BY <1>2 DEF Held
<1>4. \A q : BeforeFlush(q) => BeforeFlush(q)'
  BY DEF BeforeFlush, Loaded, HasAnswer
<1> QED
  BY <1>1, <1>2, <1>3, <1>4

(* A request that moves on before its flush, or ends.                      *)
LEMMA SlotInv ==
    ASSUME AwsInv, NEW r \in Requests, NEW v \in {Idle} \cup Asking \cup Answered,
           request' = [request EXCEPT ![r] = v],
           v # Idle => BeforeFlush(v)',
           confirmed \subseteq confirmed', reviewed \subseteq reviewed', Asked',
           RowsTyped', UNCHANGED <<db, rows, raced>>
    PROVE  AwsInv'
<1>1. request \in [Requests -> {Idle} \cup Asking \cup Answered \cup Writing]
  BY DEF AwsInv, RequestsTyped
<1>2. RequestsTyped'
  BY <1>1 DEF RequestsTyped
<1>3. \A g \in Requests \ {r} : request'[g] = request[g]
  BY <1>1
<1>4. request'[r] = v /\ v \notin Writing
  BY <1>1, Apart
<1>5. InHand'
  <2>1. ASSUME NEW g \in Requests, NEW q \in Asking \cup Answered, request'[g] = q
        PROVE  BeforeFlush(q)'
    <3>1. CASE g = r
      BY <2>1, <3>1, <1>4, Apart
    <3>2. CASE g # r
      BY <2>1, <3>2, <1>3, Grows DEF AwsInv, InHand
    <3> QED
      BY <3>1, <3>2
  <2>2. ASSUME NEW g \in Requests, NEW q \in Writing, request'[g] = q
        PROVE  AfterFlush(q)'
    <3>1. request[g] = q
      BY <2>2, <1>3, <1>4
    <3>2. AfterFlush(q)
      BY <3>1 DEF AwsInv, InHand
    <3> QED
      BY <3>2, Grows DEF AfterFlush, Same
  <2> QED
    BY <2>1, <2>2 DEF InHand
<1>6. OneWriter'
  BY <1>3, <1>4 DEF AwsInv, OneWriter
<1>7. Connections'
  BY Grows DEF AwsInv, Connections
<1> QED
  BY <1>2, <1>5, <1>6, <1>7 DEF AwsInv

(* A request is loaded, with a row of the project if it needs one.         *)
LEMMA LoadInv ==
    ASSUME AwsInv, NEW r \in Requests, NEW p \in Projects,
           (\E k \in Keys : Connect(r, p, k)) \/ Refresh(r, p) \/ AskForAccess(r, p) \/ Disconnect(r, p)
    PROVE  AwsInv'
<1>1. /\ UNCHANGED <<db, rows, marked, ses, confirmed, reviewed, raced>>
      /\ turns' \in 0..MaxTurns
  BY RowBoundAssumption
  DEF Connect, Refresh, AskForAccess, Disconnect, Turn, AwsInv, RowsTyped
<1>2. RowsTyped' /\ Asked'
  BY <1>1 DEF AwsInv, RowsTyped, Asked
<1>3. db[p] \in RowOrNone
  BY DEF AwsInv, RowsTyped, RowOrNone
<1>4. CASE \E k \in Keys : Connect(r, p, k)
  <2>1. PICK k \in Keys : Connect(r, p, k)
    BY <1>4
  <2>2. PICK v : v = Doing("connect", p, k, k)
    OBVIOUS
  <2>3. v \in Asking /\ v.at = "asking" /\ v.kind = "connect"
    BY <2>2, <1>3 DEF Doing, Asking, Kinds
  <2>4. BeforeFlush(v)'
    BY <2>3 DEF BeforeFlush, Loaded, HasAnswer
  <2> QED
    BY <2>1, <2>2, <2>3, <2>4, <1>1, <1>2, SlotInv DEF Connect
<1>5. CASE Refresh(r, p) \/ AskForAccess(r, p) \/ Disconnect(r, p)
  <2>1. db[p] # NoRow /\ db[p] \in Row
    BY <1>5, <1>3 DEF Refresh, AskForAccess, Disconnect, Connected, RowOrNone
  <2>2. PICK kind \in Kinds, place \in {"gate", "asking", "writing"} :
           /\ kind # "connect"
           /\ place = "writing" => kind = "disconnect"
           /\ request' = [request EXCEPT ![r] = [Stored(kind, p) EXCEPT !.at = place]]
    <3>1. Stored("access", p) = [Stored("access", p) EXCEPT !.at = "asking"]
      BY DEF Stored, Doing
    <3> QED
      BY <1>5, <3>1 DEF Refresh, AskForAccess, Disconnect, Kinds
  <2>3. PICK v : v = [Stored(kind, p) EXCEPT !.at = place]
    OBVIOUS
  <2>4. /\ v \in Asking /\ v.at = place /\ v.kind = kind
        /\ v.row = db[p] /\ v.key = db[p].key
    BY <2>1, <2>2, <2>3 DEF Stored, Doing, Asking, Row, RowOrNone
  <2>5. BeforeFlush(v)'
    BY <2>1, <2>2, <2>4 DEF BeforeFlush, Loaded, HasAnswer
  <2> QED
    BY <2>2, <2>3, <2>4, <2>5, <1>1, <1>2, SlotInv
<1> QED
  BY <1>4, <1>5

(* The Redis gate, and what AWS answers.                                   *)
LEMMA AnswerInv ==
    ASSUME AwsInv, NEW r \in Requests,
           Gate(r) \/ Verify(r) \/ BeginReview(r) \/ AwsRefuses(r) \/ Dies(r)
    PROVE  AwsInv'
<1>1. request \in [Requests -> {Idle} \cup Asking \cup Answered \cup Writing]
  BY DEF AwsInv, RequestsTyped
<1>2. PICK q : q = request[r]
  OBVIOUS
<1>3. q.at \in {"gate", "asking"} => q \in Asking /\ BeforeFlush(q)
  BY <1>1, <1>2 DEF AwsInv, InHand, Answered, Writing, Flushed, Idle
<1>4. ASSUME UNCHANGED <<db, rows, ses, confirmed, reviewed, raced, turns>>, marked' \subseteq Projects
      PROVE  RowsTyped' /\ Asked'
  BY <1>4 DEF AwsInv, RowsTyped, Asked
<1>5. CASE Dies(r) \/ (Leave(r) /\ (Gate(r) \/ AwsRefuses(r)))
  <2>1. /\ request' = [request EXCEPT ![r] = Idle]
        /\ UNCHANGED <<db, rows, ses, confirmed, reviewed, raced, turns>>
    BY <1>5 DEF Dies, Leave, Gate, AwsRefuses
  <2>2. marked' \subseteq Projects
    <3>1. Gate(r) => q.project \in Projects
      BY <1>2, <1>3 DEF Gate, Asking
    <3> QED
      BY <3>1, <1>2, <1>5 DEF Dies, Gate, AwsRefuses, AwsInv, RowsTyped
  <2> QED
    BY <2>1, <2>2, <1>4, SlotInv
<1>6. CASE Gate(r) /\ Go(r, "asking")
  <2>1. /\ q \in Asking /\ q.at = "gate" /\ BeforeFlush(q)
        /\ UNCHANGED <<db, rows, ses, confirmed, reviewed, raced, turns>>
    BY <1>2, <1>3, <1>6 DEF Gate
  <2>2. marked' \subseteq Projects
    BY <2>1, <1>2, <1>6 DEF Gate, Asking, AwsInv, RowsTyped
  <2>3. PICK v : v = [q EXCEPT !.at = "asking"]
    OBVIOUS
  <2>4. v \in Asking /\ v.at = "asking" /\ v.kind = q.kind /\ v.row = q.row /\ v.key = q.key
    BY <2>1, <2>3 DEF Asking
  <2>5. BeforeFlush(v)'
    BY <2>1, <2>4 DEF BeforeFlush, Loaded, HasAnswer
  <2>6. request' = [request EXCEPT ![r] = v]
    BY <1>2, <1>6, <2>3 DEF Go
  <2> QED
    BY <2>1, <2>2, <2>4, <2>5, <2>6, <1>4, SlotInv
<1>7. CASE AwsRefuses(r) /\ Go(r, "failing") /\ q.kind # "access" /\ q.row # NoRow
  <2>1. /\ q \in Asking /\ q.at = "asking" /\ BeforeFlush(q)
        /\ UNCHANGED <<db, rows, marked, ses, confirmed, reviewed, raced, turns>>
    BY <1>2, <1>3, <1>7 DEF AwsRefuses
  <2>2. PICK v : v = [q EXCEPT !.at = "failing"]
    OBVIOUS
  <2>3. v \in Asking /\ v.at = "failing" /\ v.kind = q.kind /\ v.row = q.row /\ v.key = q.key
    BY <2>1, <2>2 DEF Asking
  <2>4. BeforeFlush(v)'
    BY <2>1, <2>3, <1>7 DEF BeforeFlush, Loaded, HasAnswer
  <2>5. request' = [request EXCEPT ![r] = v]
    BY <1>2, <1>7, <2>2 DEF Go
  <2>6. marked' \subseteq Projects
    BY <2>1 DEF AwsInv, RowsTyped
  <2> QED
    BY <2>1, <2>3, <2>4, <2>5, <2>6, <1>4, SlotInv
<1>8. CASE Verify(r)
  <2>1. /\ q.at = "asking" /\ q.kind \in {"connect", "refresh"} /\ q \in Asking /\ BeforeFlush(q)
        /\ confirmed' = confirmed \cup {<<q.project, q.key>>}
        /\ UNCHANGED <<db, rows, marked, ses, reviewed, raced, turns>>
    BY <1>2, <1>3, <1>8 DEF Verify
  <2>2. PICK a : a = AccountOf[q.key]
    OBVIOUS
  <2>3. PICK v :
           v = [at |-> "writing", kind |-> q.kind, project |-> q.project, row |-> q.row,
                key |-> q.key, answer |-> [account |-> a, sandbox |-> ses[a].sandbox,
                                           review |-> ses[a].review]]
    OBVIOUS
  <2>4. a \in Accounts /\ q.project \in Projects /\ q.key \in Keys /\ q.row \in RowOrNone
    BY <2>1, <2>2, KeyAssumption DEF Asking
  <2>5. ses[a].sandbox \in BOOLEAN /\ ses[a].review \in Reviews
    BY <2>4 DEF AwsInv, RowsTyped
  <2>6. /\ v \in Answered /\ v.kind = q.kind /\ v.row = q.row /\ v.key = q.key
        /\ v.project = q.project /\ v.answer.account = a /\ v.answer.review = ses[a].review
    BY <2>1, <2>3, <2>4, <2>5 DEF Answered, Answers
  <2>7. ses[a].review = "PENDING" => a \in reviewed
    BY <2>4 DEF AwsInv, Asked
  <2>8. BeforeFlush(v)'
    BY <2>1, <2>2, <2>6, <2>7, <2>3 DEF BeforeFlush, Loaded, HasAnswer
  <2>9. RowsTyped' /\ Asked'
    BY <2>1, <2>4 DEF AwsInv, RowsTyped, Asked
  <2>10. request' = [request EXCEPT ![r] = v]
    BY <1>2, <1>8, <2>2, <2>3 DEF Verify
  <2> QED
    BY <2>1, <2>6, <2>8, <2>9, <2>10, SlotInv
<1>9. CASE BeginReview(r)
  <2>1. PICK a : a = AccountOf[q.key]
    OBVIOUS
  <2>2. /\ q.at = "asking" /\ q.kind = "access" /\ q \in Asking /\ BeforeFlush(q)
        /\ ses' \in {ses, [ses EXCEPT ![a].review = "PENDING"]}
        /\ reviewed' = reviewed \cup {a}
        /\ Go(r, "writing")
        /\ UNCHANGED <<db, rows, marked, confirmed, raced, turns>>
    BY <1>2, <1>3, <1>9, <2>1 DEF BeginReview
  <2>3. PICK v : v = [q EXCEPT !.at = "writing"]
    OBVIOUS
  <2>4. v \in Asking /\ v.at = "writing" /\ v.kind = "access" /\ v.row = q.row /\ v.key = q.key
    BY <2>2, <2>3 DEF Asking
  <2>5. BeforeFlush(v)'
    BY <2>1, <2>2, <2>4 DEF BeforeFlush, Loaded, HasAnswer
  <2>6. a \in Accounts
    BY <2>1, <2>2, KeyAssumption DEF Asking
  <2>7. RowsTyped' /\ Asked'
    BY <2>2, <2>6 DEF AwsInv, RowsTyped, Asked, Reviews
  <2>8. request' = [request EXCEPT ![r] = v]
    BY <1>2, <2>2, <2>3 DEF Go
  <2> QED
    BY <2>2, <2>4, <2>5, <2>7, <2>8, SlotInv
<1>10. Gate(r) => Leave(r) \/ Go(r, "asking")
  BY DEF Gate
<1>11. AwsRefuses(r) => Leave(r) \/ (Go(r, "failing") /\ q.kind # "access" /\ q.row # NoRow)
  BY <1>2 DEF AwsRefuses
<1> QED
  BY <1>5, <1>6, <1>7, <1>8, <1>9, <1>10, <1>11

-----------------------------------------------------------------------------
(* The flush and the commit.                                               *)

(* What a flush leaves of the row that is there.                           *)
LEMMA UpdatedRow ==
    ASSUME AwsInv, NEW q \in Asking \cup Answered, BeforeFlush(q),
           q.at \in {"writing", "failing"}, q.kind # "disconnect",
           q.row # NoRow, db[q.project] # NoRow
    PROVE  /\ Updated(q) \in Row
           /\ Held(q.project, Updated(q))
           /\ /\ Same(db[q.project], q.row)
              /\ (q.kind = "connect" /\ q.at = "writing") \/ q.project \notin raced
              => Whole(Updated(q))
<1> DEFINE p == q.project
           now == db[p]
           wanted == Wanted(q)
           merged == Merge(now, q.row, wanted)
<1>1. /\ p \in Projects /\ q.row \in Row /\ q.key \in Keys /\ q.kind \in Kinds
      /\ now \in Row
  <2>1. p \in Projects /\ q.row \in RowOrNone /\ q.key \in Keys /\ q.kind \in Kinds
    BY DEF Asking, Answered, Kinds
  <2> QED
    BY <2>1 DEF RowOrNone, AwsInv, RowsTyped
<1>2. Held(p, now) /\ (p \notin raced => Whole(now))
  BY <1>1 DEF AwsInv, Connections
<1>3. CASE q.at = "writing" /\ q.kind \in {"connect", "refresh"}
  <2>1. /\ q \in Answered /\ q.answer \in Answers
        /\ <<p, q.key>> \in confirmed
        /\ q.answer.account = AccountOf[q.key]
        /\ q.answer.review = "PENDING" => q.answer.account \in reviewed
        /\ q.kind = "refresh" => q.key = q.row.key
    BY <1>3 DEF BeforeFlush, HasAnswer, Loaded, Answered
  <2>2. /\ wanted \in Row
        /\ wanted.key = q.key /\ wanted.account = q.answer.account
        /\ wanted.review = q.answer.review
        /\ wanted.secret = q.row.secret /\ wanted.events = q.row.events
    BY <1>1, <1>3, <2>1 DEF Wanted, Row, Answers
  <2>3. /\ merged \in Row
        /\ \A c \in Columns :
              merged[c] = IF wanted[c] # q.row[c] THEN wanted[c] ELSE now[c]
    <3> HIDE DEF wanted, now
    <3> QED
      BY <1>1, <2>2, MergeColumns
  <2>4. /\ merged.key = IF q.key # q.row.key THEN q.key ELSE now.key
        /\ merged.account = IF q.answer.account # q.row.account THEN q.answer.account ELSE now.account
        /\ merged.review = IF q.answer.review # q.row.review THEN q.answer.review ELSE now.review
        /\ merged.secret = now.secret /\ merged.events = now.events
    BY <2>2, <2>3 DEF Columns
  <2> HIDE DEF merged, wanted, now
  <2>5. /\ Updated(q) = IF q.kind = "connect" THEN [merged EXCEPT !.secret = q.key] ELSE merged
    BY <1>3 DEF Updated, merged, wanted, now
  <2>6. /\ Updated(q) \in Row
        /\ Updated(q).key = merged.key /\ Updated(q).account = merged.account
        /\ Updated(q).review = merged.review /\ Updated(q).events = merged.events
        /\ Updated(q).secret = IF q.kind = "connect" THEN q.key ELSE merged.secret
    BY <2>3, <2>5, <1>1 DEF Row
  <2>7. Vouched(p, q.answer.account)
    BY <2>1, <1>1 DEF Vouched
  <2>8. Held(p, Updated(q))
    BY <2>1, <2>4, <2>6, <2>7, <1>2 DEF Held
  <2>9. ASSUME Same(now, q.row), q.kind = "connect" \/ p \notin raced
        PROVE  Whole(Updated(q))
    <3>1. /\ now.key = q.row.key /\ now.secret = q.row.secret
          /\ now.account = q.row.account /\ now.review = q.row.review
      BY <2>9, <1>1 DEF Same
    <3>2. /\ merged.key = q.key /\ merged.account = q.answer.account
          /\ merged.review = q.answer.review
      BY <3>1, <2>4
    <3>3. q.kind # "connect" => merged.secret = q.key
      BY <3>1, <2>1, <2>4, <2>9, <1>2, <1>3 DEF Whole
    <3> QED
      BY <3>2, <3>3, <2>1, <2>6 DEF Whole
  <2> QED
    BY <2>6, <2>8, <2>9, <1>3 DEF now
<1>4. CASE q.at = "failing" \/ q.kind = "access"
  <2>1. wanted = IF q.at = "failing" THEN [q.row EXCEPT !.status = "error"]
                 ELSE [q.row EXCEPT !.review = "PENDING"]
    <3>1. q.at = "failing" => q.kind # "access"
      BY DEF BeforeFlush
    <3>2. CASE q.at = "failing"
      BY <3>1, <3>2 DEF Wanted
    <3>3. CASE q.at # "failing"
      BY <3>3, <1>4 DEF Wanted
    <3> QED
      BY <3>2, <3>3
  <2>2. /\ wanted \in Row
        /\ wanted.key = q.row.key /\ wanted.account = q.row.account
        /\ wanted.secret = q.row.secret /\ wanted.events = q.row.events
        /\ wanted.review = IF q.at = "failing" THEN q.row.review ELSE "PENDING"
    BY <1>1, <2>1 DEF Row, Reviews
  <2>3. /\ merged \in Row
        /\ \A c \in Columns :
              merged[c] = IF wanted[c] # q.row[c] THEN wanted[c] ELSE now[c]
    <3> HIDE DEF wanted, now
    <3> QED
      BY <1>1, <2>2, MergeColumns
  <2>4. /\ merged.key = now.key /\ merged.account = now.account
        /\ merged.secret = now.secret /\ merged.events = now.events
        /\ merged.review = IF q.at = "failing" \/ q.row.review = "PENDING" THEN now.review
                           ELSE "PENDING"
    BY <2>2, <2>3 DEF Columns
  <2> HIDE DEF merged, wanted, now
  <2>5. Updated(q) = merged
    BY <1>4 DEF Updated, merged, wanted, now
  <2>6. Held(p, merged)
    BY <2>4, <1>2 DEF Held
  <2>7. ASSUME Same(now, q.row), p \notin raced
        PROVE  Whole(merged)
    <3>1. Whole(now) /\ now.key = q.row.key
      BY <2>7, <1>1, <1>2 DEF Same
    <3>2. q.at # "failing" => now.account \in reviewed
      <4>1. q.at # "failing" => AccountOf[q.key] \in reviewed /\ q.key = q.row.key
        BY <1>4 DEF BeforeFlush, Loaded
      <4> QED
        BY <4>1, <3>1 DEF Whole
    <3> QED
      BY <3>1, <3>2, <2>4 DEF Whole
  <2> QED
    BY <2>3, <2>5, <2>6, <2>7, <1>4 DEF now
<1> QED
  BY <1>1, <1>3, <1>4 DEF Kinds

(* A flush writes a row whose key is confirmed, over what is there.        *)
LEMMA FlushInv == ASSUME AwsInv, NEW r \in Requests, Flush(r) PROVE AwsInv'
<1>1. request \in [Requests -> {Idle} \cup Asking \cup Answered \cup Writing]
  BY DEF AwsInv, RequestsTyped
<1>2. PICK q : q = request[r]
  OBVIOUS
<1>3. /\ q.at \in {"writing", "failing"}
      /\ UNCHANGED <<db, rows, marked, ses, confirmed, reviewed, raced, turns>>
      /\ ~ Locked(q.project)
  BY <1>2 DEF Flush
<1>4. q \in Asking \cup Answered /\ BeforeFlush(q)
  BY <1>1, <1>2, <1>3 DEF AwsInv, InHand, Writing, Flushed, Idle
<1>5. RowsTyped' /\ Asked' /\ Connections'
  <2>1. RowsTyped' /\ Asked'
    BY <1>3 DEF AwsInv, RowsTyped, Asked
  <2>2. \A row : Whole(row) => Whole(row)'
    BY <1>3, Grows
  <2>3. \A p, row : Held(p, row) => Held(p, row)'
    BY <1>3, Grows
  <2> QED
    BY <1>3, <2>1, <2>2, <2>3 DEF AwsInv, Connections
<1>6. CASE Leave(r)
  BY <1>3, <1>5, <1>6, SlotInv DEF Leave
<1>7. CASE ~ Leave(r)
  <2>1. PICK whole \in BOOLEAN : whole <=> q.at = "writing" /\ q.kind \in {"connect", "disconnect"}
    OBVIOUS
  <2>2. PICK after : after = CASE q.kind = "disconnect" -> NoRow
                               [] q.row = NoRow -> Fresh(q)
                               [] OTHER -> Updated(q)
    OBVIOUS
  <2>3. PICK v : v = [at |-> IF whole THEN "clearing" ELSE "committing", project |-> q.project,
                      row |-> q.row, after |-> after, whole |-> whole]
    OBVIOUS
  <2>4. /\ There(q)
        /\ request' = [request EXCEPT ![r] = v]
        /\ q.row = NoRow => rows[q.project] < MaxRows
    BY <1>2, <1>7, <2>1, <2>2, <2>3 DEF Flush
  <2>5. q.project \in Projects /\ q.row \in RowOrNone /\ q.key \in Keys /\ q.kind \in Kinds
    BY <1>4 DEF Asking, Answered, Kinds
  <2>6. /\ after \in RowOrNone
        /\ after # NoRow =>
              /\ Held(q.project, after)
              /\ Same(db[q.project], q.row) /\ (whole \/ q.project \notin raced) => Whole(after)
    <3>1. CASE q.kind = "disconnect"
      <4>1. q.row # NoRow
        BY <3>1, <1>4 DEF BeforeFlush, Loaded
      <4> QED
        BY <4>1, <3>1, <2>2 DEF RowOrNone
    <3>2. CASE q.kind # "disconnect" /\ q.row = NoRow
      <4>1. after = Fresh(q)
        BY <3>2, <2>2
      <4>2. /\ q.at = "writing" /\ q.kind = "connect"
            /\ q \in Answered /\ q.answer \in Answers
            /\ <<q.project, q.key>> \in confirmed
            /\ q.answer.account = AccountOf[q.key]
            /\ q.answer.review = "PENDING" => q.answer.account \in reviewed
        BY <3>2, <1>3, <1>4 DEF BeforeFlush, Loaded, HasAnswer, Answered
      <4>3. rows[q.project] + 1 \in 1..MaxRows
        BY <3>2, <2>4, <2>5, RowBoundAssumption DEF AwsInv, RowsTyped
      <4>4. /\ after \in Row
            /\ after.key = q.key /\ after.secret = q.key /\ after.account = q.answer.account
            /\ after.review = q.answer.review /\ after.events = NoQueue
        BY <4>1, <4>2, <4>3, <2>5 DEF Fresh, Row, Answers
      <4>5. Vouched(q.project, after.account)
        BY <4>2, <4>4, <2>5 DEF Vouched
      <4> QED
        BY <4>2, <4>4, <4>5 DEF RowOrNone, Held, Whole
    <3>3. CASE q.kind # "disconnect" /\ q.row # NoRow
      <4>1. after = Updated(q) /\ db[q.project] # NoRow
        BY <3>3, <2>2, <2>4 DEF There
      <4>2. whole => q.kind = "connect" /\ q.at = "writing"
        BY <3>3, <2>1
      <4> QED
        BY <4>1, <4>2, <3>3, <1>3, <1>4, UpdatedRow DEF RowOrNone
    <3> QED
      BY <3>1, <3>2, <3>3
  <2>7. /\ v \in Writing /\ v.project = q.project /\ v.row = q.row /\ v.after = after
        /\ v.whole = whole
    BY <2>1, <2>3, <2>5, <2>6 DEF Writing, Flushed
  <2>8. AfterFlush(v)
    BY <2>4, <2>6, <2>7 DEF AfterFlush
  <2>9. \A g \in Requests \ {r} : request'[g] = request[g]
    BY <1>1, <2>4
  <2>10. request'[r] = v
    BY <1>1, <2>4
  <2>11. RequestsTyped'
    BY <1>1, <2>4, <2>7 DEF RequestsTyped
  <2>12. InHand'
    <3>1. ASSUME NEW g \in Requests, NEW o \in Asking \cup Answered, request'[g] = o
          PROVE  BeforeFlush(o)'
      <4>1. g # r
        BY <3>1, <2>7, <2>10, Apart
      <4> QED
        BY <4>1, <3>1, <2>9, <1>3, Grows DEF AwsInv, InHand
    <3>2. ASSUME NEW g \in Requests, NEW o \in Writing, request'[g] = o
          PROVE  AfterFlush(o)'
      <4>1. AfterFlush(o)
        BY <3>2, <2>8, <2>9, <2>10 DEF AwsInv, InHand
      <4> QED
        BY <4>1, <1>3, Grows DEF AfterFlush, Same
    <3> QED
      BY <3>1, <3>2 DEF InHand
  <2>13. OneWriter'
    <3>1. \A g \in Requests : request[g] \in Writing => request[g].project # q.project
      BY <1>3 DEF Locked, Writing
    <3> QED
      BY <3>1, <2>7, <2>9, <2>10 DEF AwsInv, OneWriter
  <2> QED
    BY <1>5, <2>11, <2>12, <2>13 DEF AwsInv
<1> QED
  BY <1>6, <1>7

(* Clearing the marker changes nothing of a row.                           *)
LEMMA ClearInv == ASSUME AwsInv, NEW r \in Requests, ClearMarker(r) PROVE AwsInv'
<1>1. request \in [Requests -> {Idle} \cup Asking \cup Answered \cup Writing]
  BY DEF AwsInv, RequestsTyped
<1>2. PICK q : q = request[r]
  OBVIOUS
<1>3. /\ q.at = "clearing" /\ request' = [request EXCEPT ![r].at = "committing"]
      /\ marked' \subseteq marked
      /\ UNCHANGED <<db, rows, ses, confirmed, reviewed, raced, turns>>
  BY <1>2 DEF ClearMarker, Go
<1>4. q \in Writing
  BY <1>1, <1>2, <1>3 DEF Asking, Answered, Idle
<1>5. PICK v : v = [q EXCEPT !.at = "committing"]
  OBVIOUS
<1>6. /\ v \in Writing /\ v.project = q.project /\ v.row = q.row /\ v.after = q.after
      /\ v.whole = q.whole
  BY <1>4, <1>5 DEF Writing, Flushed
<1>7. /\ request' = [request EXCEPT ![r] = v] /\ request'[r] = v
      /\ \A g \in Requests \ {r} : request'[g] = request[g]
  BY <1>1, <1>2, <1>3, <1>5
<1>8. RowsTyped' /\ Asked' /\ RequestsTyped'
  BY <1>1, <1>3, <1>6, <1>7 DEF AwsInv, RowsTyped, Asked, RequestsTyped
<1>9. Connections'
  <2>1. \A row : Whole(row) => Whole(row)'
    BY <1>3, Grows
  <2>2. \A p, row : Held(p, row) => Held(p, row)'
    BY <1>3, Grows
  <2> QED
    BY <1>3, <2>1, <2>2 DEF AwsInv, Connections
<1>10. InHand'
  <2>1. ASSUME NEW g \in Requests, NEW o \in Asking \cup Answered, request'[g] = o
        PROVE  BeforeFlush(o)'
    <3>1. g # r
      BY <2>1, <1>6, <1>7, Apart
    <3> QED
      BY <3>1, <2>1, <1>7, <1>3, Grows DEF AwsInv, InHand
  <2>2. ASSUME NEW g \in Requests, NEW o \in Writing, request'[g] = o
        PROVE  AfterFlush(o)'
    <3>1. AfterFlush(q)
      BY <1>2, <1>4 DEF AwsInv, InHand
    <3>2. AfterFlush(v)
      BY <3>1, <1>6 DEF AfterFlush
    <3>3. AfterFlush(o)
      BY <3>2, <2>2, <1>7 DEF AwsInv, InHand
    <3> QED
      BY <3>3, <1>3, Grows DEF AfterFlush, Same
  <2> QED
    BY <2>1, <2>2 DEF InHand
<1>11. OneWriter'
  BY <1>2, <1>4, <1>6, <1>7 DEF AwsInv, OneWriter
<1> QED
  BY <1>8, <1>9, <1>10, <1>11 DEF AwsInv

(* The lock kept the row as it was when the flush saw it.                  *)
LEMMA CommitInv == ASSUME AwsInv, NEW r \in Requests, Commit(r) PROVE AwsInv'
<1>1. request \in [Requests -> {Idle} \cup Asking \cup Answered \cup Writing]
  BY DEF AwsInv, RequestsTyped
<1>2. PICK q, p : q = request[r] /\ p = q.project
  OBVIOUS
<1>3. /\ q.at = "committing"
      /\ db' = [db EXCEPT ![p] = q.after]
      /\ rows' = IF q.row = NoRow THEN [rows EXCEPT ![p] = @ + 1] ELSE rows
      /\ raced' = IF ~ Same(db[p], q.row) THEN raced \cup {p}
                  ELSE IF q.whole THEN raced \ {p} ELSE raced
      /\ request' = [request EXCEPT ![r] = Idle]
      /\ UNCHANGED <<marked, ses, confirmed, reviewed, turns>>
  BY <1>2 DEF Commit, Leave
<1>4. q \in Writing /\ AfterFlush(q) /\ p \in Projects /\ q.after \in RowOrNone
  <2>1. q \in Writing
    BY <1>1, <1>2, <1>3 DEF Asking, Answered, Idle
  <2> QED
    BY <2>1, <1>2 DEF AwsInv, InHand, Writing
<1>5. /\ db \in [Projects -> RowOrNone] /\ rows \in [Projects -> 0..MaxRows]
      /\ raced \subseteq Projects /\ MaxRows \in Nat
  BY RowBoundAssumption DEF AwsInv, RowsTyped, RowOrNone
<1>6. /\ db'[p] = q.after
      /\ \A o \in Projects \ {p} : db'[o] = db[o] /\ rows'[o] = rows[o]
      /\ \A o \in Projects \ {p} : o \in raced' <=> o \in raced
  BY <1>3, <1>4, <1>5
<1>7. RowsTyped' /\ Asked'
  <2>1. db' \in [Projects -> RowOrNone]
    BY <1>3, <1>4, <1>5
  <2>2. rows' \in [Projects -> 0..MaxRows]
    BY <1>2, <1>3, <1>4, <1>5 DEF AfterFlush
  <2>3. raced' \subseteq Projects
    BY <1>3, <1>4, <1>5
  <2> QED
    BY <2>1, <2>2, <2>3, <1>3 DEF AwsInv, RowsTyped, Asked, RowOrNone
<1>8. /\ request'[r] = Idle
      /\ \A g \in Requests \ {r} : request'[g] = request[g]
      /\ RequestsTyped'
  BY <1>1, <1>3 DEF RequestsTyped
<1>9. /\ \A row : Whole(row) => Whole(row)'
      /\ \A o, row : Held(o, row) => Held(o, row)'
      /\ \A o : BeforeFlush(o) => BeforeFlush(o)'
  BY <1>3, Grows
<1>10. Connections'
  <2>1. ASSUME NEW o \in Projects, db'[o] # NoRow
        PROVE  (Held(o, db[o]) /\ (o \notin raced => Whole(db[o])))'
    <3>1. CASE o = p
      <4>1. Held(p, q.after)
        BY <2>1, <3>1, <1>2, <1>4, <1>6 DEF AfterFlush
      <4>2. p \notin raced' => Whole(q.after)
        BY <2>1, <3>1, <1>2, <1>3, <1>4, <1>6 DEF AfterFlush
      <4> QED
        BY <4>1, <4>2, <3>1, <1>6, <1>9
    <3>2. CASE o # p
      BY <2>1, <3>2, <1>6, <1>9 DEF AwsInv, Connections
    <3> QED
      BY <3>1, <3>2
  <2> QED
    BY <2>1 DEF Connections
<1>11. InHand'
  <2>1. ASSUME NEW g \in Requests, NEW o \in Asking \cup Answered, request'[g] = o
        PROVE  BeforeFlush(o)'
    <3>1. g # r
      BY <2>1, <1>8, Apart
    <3> QED
      BY <3>1, <2>1, <1>8, <1>9 DEF AwsInv, InHand
  <2>2. ASSUME NEW g \in Requests, NEW o \in Writing, request'[g] = o
        PROVE  AfterFlush(o)'
    <3>1. g # r /\ request[g] = o
      BY <2>2, <1>8, Apart
    <3>2. AfterFlush(o) /\ o.project \in Projects
      BY <3>1 DEF AwsInv, InHand, Writing
    <3>3. o.project # p
      BY <3>1, <1>2, <1>4 DEF AwsInv, OneWriter
    <3> QED
      BY <3>2, <3>3, <1>6, <1>9 DEF AfterFlush, Same
  <2> QED
    BY <2>1, <2>2 DEF InHand
<1>12. OneWriter'
  BY <1>8, Apart DEF AwsInv, OneWriter
<1> QED
  BY <1>7, <1>8, <1>10, <1>11, <1>12 DEF AwsInv

-----------------------------------------------------------------------------
(* Around the requests.                                                    *)

(* Redis and SES change what no request has in hand.                       *)
LEMMA QuietInv ==
    ASSUME AwsInv, RowsTyped', Asked', confirmed \subseteq confirmed', reviewed \subseteq reviewed',
           UNCHANGED <<db, rows, request, raced>>
    PROVE  AwsInv'
<1>1. /\ \A row : Whole(row) => Whole(row)'
      /\ \A o, row : Held(o, row) => Held(o, row)'
      /\ \A o : BeforeFlush(o) => BeforeFlush(o)'
  BY Grows
<1>2. InHand'
  BY <1>1 DEF AwsInv, InHand, AfterFlush, Same
<1>3. Connections'
  BY <1>1 DEF AwsInv, Connections
<1>4. RequestsTyped' /\ OneWriter'
  BY DEF AwsInv, RequestsTyped, OneWriter
<1> QED
  BY <1>2, <1>3, <1>4 DEF AwsInv

(* Events are switched in a row that nobody has flushed.                   *)
LEMMA EventsInv == ASSUME AwsInv, NEW p \in Projects, EventsSwitched(p) PROVE AwsInv'
<1>1. PICK events : events = IF db[p].events = NoQueue THEN db[p].account ELSE NoQueue
  OBVIOUS
<1>2. db \in [Projects -> RowOrNone] /\ db[p] # NoRow /\ db[p] \in Row
  BY DEF AwsInv, RowsTyped, RowOrNone, EventsSwitched
<1>3. PICK row : row = [db[p] EXCEPT !.events = events]
  OBVIOUS
<1>4. /\ db' = [db EXCEPT ![p] = row]
      /\ turns' = turns + 1 /\ turns < MaxTurns /\ ~ Locked(p)
      /\ UNCHANGED <<rows, marked, ses, request, confirmed, reviewed, raced>>
  BY <1>1, <1>2, <1>3 DEF EventsSwitched, Turn
<1>5. /\ row \in Row /\ row.key = db[p].key /\ row.secret = db[p].secret
      /\ row.account = db[p].account /\ row.review = db[p].review /\ row.events = events
      /\ events \in {NoQueue, db[p].account}
  BY <1>1, <1>2, <1>3 DEF Row
<1>6. db'[p] = row /\ \A o \in Projects \ {p} : db'[o] = db[o]
  BY <1>2, <1>4
<1>7. RowsTyped' /\ Asked'
  <2>1. db' \in [Projects -> Row \cup {NoRow}]
    BY <1>2, <1>4, <1>5 DEF RowOrNone
  <2>2. turns' \in 0..MaxTurns
    BY <1>4, RowBoundAssumption DEF AwsInv, RowsTyped
  <2> QED
    BY <2>1, <2>2, <1>4 DEF AwsInv, RowsTyped, Asked
<1>8. /\ \A o : Whole(o) => Whole(o)'
      /\ \A o, other : Held(o, other) => Held(o, other)'
      /\ \A o : BeforeFlush(o) => BeforeFlush(o)'
  BY <1>4, Grows
<1>9. Connections'
  <2>1. Held(p, row) /\ (p \notin raced => Whole(row))
    BY <1>2, <1>5 DEF AwsInv, Connections, Held, Whole
  <2>2. ASSUME NEW o \in Projects, db'[o] # NoRow
        PROVE  (Held(o, db[o]) /\ (o \notin raced => Whole(db[o])))'
    <3>1. CASE o = p
      BY <3>1, <2>1, <1>4, <1>6, <1>8
    <3>2. CASE o # p
      BY <2>2, <3>2, <1>4, <1>6, <1>8 DEF AwsInv, Connections
    <3> QED
      BY <3>1, <3>2
  <2> QED
    BY <2>2 DEF Connections
<1>10. InHand'
  <2>1. ASSUME NEW g \in Requests, NEW o \in Asking \cup Answered, request'[g] = o
        PROVE  BeforeFlush(o)'
    BY <2>1, <1>4, <1>8 DEF AwsInv, InHand
  <2>2. ASSUME NEW g \in Requests, NEW o \in Writing, request'[g] = o
        PROVE  AfterFlush(o)'
    <3>1. AfterFlush(o) /\ o.project \in Projects \ {p}
      BY <2>2, <1>4 DEF AwsInv, InHand, Locked, Writing
    <3> QED
      BY <3>1, <1>4, <1>6, <1>8 DEF AfterFlush, Same
  <2> QED
    BY <2>1, <2>2 DEF InHand
<1>11. RequestsTyped' /\ OneWriter'
  BY <1>4 DEF AwsInv, RequestsTyped, OneWriter
<1> QED
  BY <1>7, <1>9, <1>10, <1>11 DEF AwsInv

(* Every step of the connections keeps their invariant.                    *)
LEMMA AwsStepInv == AwsInv /\ [AwsNext]_awsVars => AwsInv'
<1> SUFFICES ASSUME AwsInv, [AwsNext]_awsVars PROVE AwsInv'
  OBVIOUS
<1>1. CASE UNCHANGED awsVars
  <2>1. RowsTyped' /\ Asked'
    BY <1>1 DEF AwsInv, RowsTyped, Asked, awsVars
  <2> QED
    BY <2>1, <1>1, QuietInv DEF awsVars
<1>2. ASSUME NEW r \in Requests, RequestStep(r) PROVE AwsInv'
  BY <1>2, AnswerInv, FlushInv, ClearInv, CommitInv DEF RequestStep
<1>3. ASSUME NEW r \in Requests, NEW p \in Projects,
             \/ \E k \in Keys : Connect(r, p, k)
             \/ Refresh(r, p) \/ AskForAccess(r, p) \/ Disconnect(r, p)
      PROVE  AwsInv'
  BY <1>3, LoadInv
<1>4. ASSUME NEW p \in Projects, MarkerExpires(p) PROVE AwsInv'
  <2>1. RowsTyped' /\ Asked'
    BY <1>4 DEF MarkerExpires, AwsInv, RowsTyped, Asked
  <2> QED
    BY <2>1, <1>4, QuietInv DEF MarkerExpires
<1>5. ASSUME NEW a \in Accounts, AskedInConsole(a) \/ SesDecides(a) PROVE AwsInv'
  <2>1. RowsTyped' /\ Asked'
    <3>1. CASE AskedInConsole(a)
      BY <3>1, RowBoundAssumption DEF AskedInConsole, Turn, AwsInv, RowsTyped, Asked, Reviews
    <3>2. CASE SesDecides(a)
      <4>1. PICK says :
               /\ says = [sandbox |-> FALSE, review |-> "GRANTED"]
                  \/ says = [ses[a] EXCEPT !.review = "DENIED"]
               /\ ses' = [ses EXCEPT ![a] = says]
        BY <3>2 DEF SesDecides
      <4>2. says \in [sandbox : BOOLEAN, review : Reviews] /\ says.review # "PENDING"
        <5>1. ses[a] \in [sandbox : BOOLEAN, review : Reviews]
          BY DEF AwsInv, RowsTyped
        <5>2. CASE says = [sandbox |-> FALSE, review |-> "GRANTED"]
          BY <5>2 DEF Reviews
        <5>3. CASE says = [ses[a] EXCEPT !.review = "DENIED"]
          BY <5>1, <5>3 DEF Reviews
        <5> QED
          BY <4>1, <5>2, <5>3
      <4>3. ses' \in [Accounts -> [sandbox : BOOLEAN, review : Reviews]]
        BY <4>1, <4>2 DEF AwsInv, RowsTyped
      <4>4. Asked'
        BY <3>2, <4>1, <4>2 DEF SesDecides, AwsInv, RowsTyped, Asked
      <4> QED
        BY <3>2, <4>3, <4>4 DEF SesDecides, AwsInv, RowsTyped
    <3> QED
      BY <1>5, <3>1, <3>2
  <2> QED
    BY <2>1, <1>5, QuietInv DEF AskedInConsole, SesDecides
<1> QED
  BY <1>1, <1>2, <1>3, <1>4, <1>5, EventsInv DEF AwsNext

-----------------------------------------------------------------------------
(* What a handler has established of the notice it holds.                  *)

Handling ==
    [at : {"verifying", "fetching", "checking", "looking", "confirming", "ingesting"},
     notice : Notices, owners : SUBSET Projects]

Proven(q) ==
    LET said == Content[q.notice] IN
    /\ q.at \in {"looking", "confirming", "ingesting"} => said.signed
    /\ q.at \in {"confirming", "ingesting"} => \A p \in q.owners : Vouched(p, said.topic)
    /\ q.at = "confirming" => q.owners # {}
    /\ q.at = "ingesting" => said.event # {}

HandlersInv ==
    /\ handler \in [Handlers -> {Idle} \cup Handling]
    /\ \A h \in Handlers : Proven(handler[h])

NoticesInv == AwsInv /\ HandlersInv /\ IsFiniteSet(cached) /\ NoticesAreOurs

(* A handler that goes on, or is done.                                     *)
LEMMA HandlerInv ==
    ASSUME HandlersInv, NEW h \in Handlers, NEW v \in {Idle} \cup Handling,
           handler' = [handler EXCEPT ![h] = v], v # Idle => Proven(v),
           UNCHANGED awsVars
    PROVE  HandlersInv'
<1>1. \A q : Proven(q) => Proven(q)'
  BY DEF Proven, Vouched, awsVars
<1>2. v \in Handling => v # Idle
  BY DEF Handling, Idle
<1>3. Proven(Idle)
  BY DEF Proven, Idle
<1> QED
  BY <1>1, <1>2, <1>3 DEF HandlersInv

(* The certificates that are kept are few.                                 *)
LEMMA KeepFew ==
    ASSUME IsFiniteSet(cached), Cardinality(cached) <= CacheLimit, NEW url
    PROVE  IsFiniteSet(Keep(url)) /\ Cardinality(Keep(url)) <= CacheLimit
<1>1. Cardinality(cached) \in Nat /\ CacheLimit \in Nat \ {0}
  BY FS_CardinalityType, CacheAssumption
<1>2. CASE Cardinality(cached) >= CacheLimit
  <2>1. IsFiniteSet({url}) /\ Cardinality({url}) = 1
    BY FS_Singleton
  <2> QED
    BY <1>1, <1>2, <2>1 DEF Keep
<1>3. CASE ~ (Cardinality(cached) >= CacheLimit)
  <2>1. /\ IsFiniteSet(cached \cup {url})
        /\ Cardinality(cached \cup {url}) = Cardinality(cached)
           \/ Cardinality(cached \cup {url}) = Cardinality(cached) + 1
    BY FS_AddElement
  <2> QED
    BY <1>1, <1>3, <2>1 DEF Keep
<1> QED
  BY <1>2, <1>3

(* SES's two names for what condemns an address.                           *)
LEMMA CondemningNames ==
    ASSUME NEW e, Known(e), Condemns(e)
    PROVE  /\ Recipients(e) = e.listed
           /\ e.name = "complaint" \/ (e.name = "bounce" /\ e.bounce = "Permanent")
<1>1. /\ TypeByName[e.name] = "bounced" => e.name = "bounce"
      /\ TypeByName[e.name] = "complained" => e.name = "complaint"
  BY DEF Known, TypeByName
<1> QED
  BY <1>1 DEF Condemns, Recipients, TypeOf

(* And no notice is in hand.                                               *)
LEMMA NoticesInitInv == NoticesInit => NoticesInv
<1> SUFFICES ASSUME NoticesInit PROVE NoticesInv
  OBVIOUS
<1>1. AwsInv
  BY AwsInitInv DEF NoticesInit
<1>2. HandlersInv
  BY DEF NoticesInit, HandlersInv, Proven, Idle
<1>3. IsFiniteSet(cached) /\ Cardinality(cached) = 0
  BY FS_EmptySet DEF NoticesInit
<1>4. NoticesAreOurs
  BY <1>3, CacheAssumption DEF NoticesInit, NoticesAreOurs
<1> QED
  BY <1>1, <1>2, <1>3, <1>4 DEF NoticesInv

(* Connections come and go: what AWS accepted stays accepted.              *)
LEMMA ConnectionsStep ==
    ASSUME NoticesInv, [AwsNext]_awsVars, UNCHANGED noticeVars PROVE NoticesInv'
<1>1. AwsInv'
  BY AwsStepInv DEF NoticesInv
<1>2. confirmed \subseteq confirmed'
  <2>1. \A r \in Requests : RequestStep(r) => confirmed \subseteq confirmed'
    BY DEF RequestStep, Gate, Verify, BeginReview, AwsRefuses, Flush, ClearMarker, Commit, Dies
  <2>2. \A r \in Requests, p \in Projects :
           (\E k \in Keys : Connect(r, p, k)) \/ Refresh(r, p) \/ AskForAccess(r, p)
           \/ Disconnect(r, p) => confirmed' = confirmed
    BY DEF Connect, Refresh, AskForAccess, Disconnect
  <2>3. \A p \in Projects : MarkerExpires(p) \/ EventsSwitched(p) => confirmed' = confirmed
    BY DEF MarkerExpires, EventsSwitched
  <2>4. \A a \in Accounts : AskedInConsole(a) \/ SesDecides(a) => confirmed' = confirmed
    BY DEF AskedInConsole, SesDecides
  <2> QED
    BY <2>1, <2>2, <2>3, <2>4 DEF AwsNext, awsVars
<1>3. \A p, account : Vouched(p, account) => Vouched(p, account)'
  BY <1>2 DEF Vouched
<1>4. HandlersInv'
  <2>1. \A q : Proven(q) => Proven(q)'
    BY <1>3 DEF Proven
  <2> QED
    BY <2>1 DEF NoticesInv, HandlersInv, noticeVars
<1>5. NoticesAreOurs' /\ IsFiniteSet(cached)'
  BY <1>3 DEF NoticesInv, NoticesAreOurs, noticeVars
<1> QED
  BY <1>1, <1>4, <1>5 DEF NoticesInv

(* A body arrives: the poll knows whose queue it read.                     *)
LEMMA ArrivalStep ==
    ASSUME NoticesInv, NEW h \in Handlers, NEW n \in Notices, Post(h, n) \/ Poll(h, n),
           UNCHANGED awsVars
    PROVE  NoticesInv'
<1>1. UNCHANGED <<cached, recorded, answered>>
  BY DEF Post, Poll, Arrive
<1>2. AwsInv'
  BY AwsStepInv DEF NoticesInv
<1>3. NoticesAreOurs' /\ IsFiniteSet(cached)'
  BY <1>1 DEF NoticesInv, NoticesAreOurs, Vouched, awsVars
<1>4. CASE Post(h, n)
  <2>1. PICK v : v = [at |-> "verifying", notice |-> n, owners |-> {}]
    OBVIOUS
  <2>2. v \in Handling /\ Proven(v)
    BY <2>1 DEF Handling, Proven
  <2>3. handler' = [handler EXCEPT ![h] = v]
    BY <1>4, <2>1 DEF Post, Arrive
  <2>4. HandlersInv'
    BY <2>2, <2>3, HandlerInv DEF NoticesInv
  <2> QED
    BY <2>4, <1>2, <1>3 DEF NoticesInv
<1>5. CASE Poll(h, n)
  <2>1. PICK account : account = Content[n].topic
    OBVIOUS
  <2>2. PICK v : v = [at |-> "ingesting", notice |-> n, owners |-> OnQueue(account)]
    OBVIOUS
  <2>3. /\ Content[n].signed /\ Content[n].event # {}
        /\ handler' = [handler EXCEPT ![h] = v]
        /\ \E p \in Openers(account) : Opens(p, account)
    BY <1>5, <2>1, <2>2 DEF Poll, Arrive
  <2>4. account # NoQueue
    <3>1. PICK p \in OnQueue(account) : AccountOf[db[p].key] = account
      BY <2>3 DEF Openers, Opens
    <3>2. p \in Projects /\ db[p] \in Row
      BY <3>1 DEF OnQueue, NoticesInv, AwsInv, RowsTyped
    <3>3. account \in Accounts
      BY <3>1, <3>2, KeyAssumption DEF Row
    <3> QED
      BY <3>3, QueueAssumption
  <2>5. \A p \in OnQueue(account) : Vouched(p, account)
    BY <2>4 DEF OnQueue, NoticesInv, AwsInv, Connections, Held
  <2>6. v \in Handling /\ Proven(v)
    BY <2>1, <2>2, <2>3, <2>5 DEF Handling, Proven, OnQueue
  <2>7. HandlersInv'
    BY <2>3, <2>6, HandlerInv DEF NoticesInv
  <2> QED
    BY <2>7, <1>2, <1>3 DEF NoticesInv
<1> QED
  BY <1>4, <1>5

(* A handler's own steps.                                                  *)
LEMMA HandlingStep ==
    ASSUME NoticesInv, NEW h \in Handlers, NoticeStep(h), UNCHANGED awsVars
    PROVE  NoticesInv'
<1> DEFINE q == handler[h]
           said == Content[q.notice]
<1>1. AwsInv'
  BY AwsStepInv DEF NoticesInv
<1>2. /\ q # Idle => q \in Handling /\ q.notice \in Notices
      /\ Proven(q)
      /\ handler \in [Handlers -> {Idle} \cup Handling]
  BY DEF NoticesInv, HandlersInv, Handling
<1>3. q # Idle
  <2>1. q = Idle => q.at = "idle"
    BY DEF Idle
  <2> QED
    BY <2>1 DEF NoticeStep, SeekCertificate, FetchCertificate, CheckSignature, FindOwners,
                Confirm, Ingest, HandlerDies
<1>4. q \in Handling /\ q.notice \in Notices
  BY <1>2, <1>3
<1>5. Done(h) => HandlersInv'
  BY HandlerInv DEF Done, NoticesInv
<1>6. ASSUME NEW place \in {"fetching", "checking", "looking"}, Turns(h, place),
             place = "looking" => said.signed
      PROVE  HandlersInv'
  <2>1. PICK v : v = [q EXCEPT !.at = place]
    OBVIOUS
  <2>2. v \in Handling /\ v.at = place /\ v.notice = q.notice
    BY <1>4, <2>1 DEF Handling
  <2>3. Proven(v)
    BY <1>6, <2>2 DEF Proven
  <2>4. handler' = [handler EXCEPT ![h] = v]
    BY <1>6, <2>1 DEF Turns
  <2> QED
    BY <2>2, <2>3, <2>4, HandlerInv DEF NoticesInv
<1>7. UNCHANGED <<recorded, answered>> /\ IsFiniteSet(cached)' /\ Cardinality(cached)' <= CacheLimit
      => NoticesAreOurs'
  BY DEF NoticesInv, NoticesAreOurs, Vouched, awsVars
<1>8. IsFiniteSet(cached) /\ Cardinality(cached) <= CacheLimit
  BY DEF NoticesInv, NoticesAreOurs
<1>9. CASE SeekCertificate(h)
  <2>1. HandlersInv'
    BY <1>5, <1>6, <1>9 DEF SeekCertificate
  <2> QED
    BY <2>1, <1>1, <1>7, <1>8, <1>9 DEF SeekCertificate, NoticesInv
<1>10. CASE FetchCertificate(h)
  <2>1. HandlersInv'
    BY <1>5, <1>6, <1>10 DEF FetchCertificate
  <2>2. IsFiniteSet(cached') /\ Cardinality(cached') <= CacheLimit
    BY <1>8, <1>10, KeepFew DEF FetchCertificate
  <2> QED
    BY <2>1, <2>2, <1>1, <1>7, <1>10 DEF FetchCertificate, NoticesInv
<1>11. CASE CheckSignature(h)
  <2>1. HandlersInv'
    BY <1>5, <1>6, <1>11 DEF CheckSignature, Said
  <2> QED
    BY <2>1, <1>1, <1>7, <1>8, <1>11 DEF CheckSignature, NoticesInv
<1>12. CASE FindOwners(h)
  <2>1. HandlersInv'
    <3>1. PICK owners, onwards :
             /\ owners = OwnersOf(said.topic)
             /\ onwards = CASE said.type = "SubscriptionConfirmation" -> "confirming"
                            [] said.type = "Notification" /\ said.event # {} -> "ingesting"
                            [] OTHER -> "nothing"
      OBVIOUS
    <3>2. /\ q.at = "looking"
          /\ IF owners = {} \/ onwards = "nothing" THEN Done(h)
             ELSE handler' = [handler EXCEPT ![h].at = onwards, ![h].owners = owners]
      BY <1>12, <3>1 DEF FindOwners, Said
    <3>3. CASE owners = {} \/ onwards = "nothing"
      BY <3>2, <3>3, <1>5
    <3>4. CASE ~ (owners = {} \/ onwards = "nothing")
      <4>1. PICK v : v = [q EXCEPT !.at = onwards, !.owners = owners]
        OBVIOUS
      <4>2. handler' = [handler EXCEPT ![h] = v]
        BY <3>2, <3>4, <4>1
      <4>3. /\ onwards \in {"confirming", "ingesting"}
            /\ onwards = "ingesting" => said.event # {}
        BY <3>1, <3>4
      <4>4. /\ v \in Handling /\ v.at = onwards /\ v.owners = owners
            /\ v.notice = q.notice
        BY <1>4, <3>1, <4>1, <4>3 DEF Handling, OwnersOf
      <4>5. \A p \in owners : Vouched(p, said.topic)
        BY <3>1 DEF OwnersOf, NoticesInv, AwsInv, Connections, Held
      <4>6. said.signed
        BY <3>2, <1>2 DEF Proven
      <4>7. Proven(v)
        BY <3>4, <4>3, <4>4, <4>5, <4>6 DEF Proven
      <4> QED
        BY <4>2, <4>4, <4>7, HandlerInv DEF NoticesInv
    <3> QED
      BY <3>3, <3>4
  <2> QED
    BY <2>1, <1>1, <1>7, <1>8, <1>12 DEF FindOwners, NoticesInv
<1>13. CASE Confirm(h)
  <2>1. HandlersInv' /\ cached' = cached /\ recorded' = recorded
    BY <1>5, <1>13 DEF Confirm
  <2>2. \E p \in Projects : Vouched(p, said.topic)
    BY <1>2, <1>4, <1>13 DEF Confirm, Proven, Handling
  <2>3. answered' = answered \cup {said.topic}
    BY <1>13 DEF Confirm, Said
  <2>4. NoticesAreOurs'
    BY <2>1, <2>2, <2>3 DEF NoticesInv, NoticesAreOurs, Vouched, awsVars
  <2> QED
    BY <2>1, <2>4, <1>1 DEF NoticesInv
<1>14. CASE Ingest(h)
  <2>1. HandlersInv' /\ cached' = cached /\ answered' = answered
    BY <1>5, <1>14 DEF Ingest
  <2>2. PICK e : e = CHOOSE x \in said.event : TRUE
    OBVIOUS
  <2>3. said.signed /\ e \in said.event /\ \A p \in q.owners : Vouched(p, said.topic)
    BY <1>2, <1>14, <2>2 DEF Ingest, Proven
  <2>4. PICK new : new = [notice |-> q.notice, project |-> SenderOf[e.mail],
                          condemned |-> IF Condemns(e) THEN Recipients(e) \cap SentTo[e.mail]
                                        ELSE {}]
    OBVIOUS
  <2>5. \/ recorded' = recorded
        \/ /\ Known(e) /\ SenderOf[e.mail] \in q.owners
           /\ recorded' = recorded \cup {new}
    BY <1>14, <2>2, <2>4 DEF Ingest, Said
  <2>6. new.condemned # {} =>
           /\ Condemns(e)
           /\ new.condemned = Recipients(e) \cap SentTo[e.mail]
    BY <2>4
  <2>7. Known(e) /\ new.condemned # {} =>
           /\ new.condemned \subseteq e.listed \cap SentTo[e.mail]
           /\ e.name = "complaint" \/ (e.name = "bounce" /\ e.bounce = "Permanent")
    BY <2>6, CondemningNames
  <2>8. NoticesAreOurs'
    <3>1. CASE recorded' = recorded
      BY <3>1, <2>1, <1>7, <1>8 DEF NoticesInv
    <3>2. CASE /\ Known(e) /\ SenderOf[e.mail] \in q.owners
               /\ recorded' = recorded \cup {new}
      <4>1. new.notice = q.notice /\ new.project = SenderOf[e.mail]
        BY <2>4
      <4>2. /\ said.signed
            /\ Vouched(new.project, said.topic)
            /\ \E x \in said.event :
                  /\ SenderOf[x.mail] = new.project
                  /\ new.condemned # {} =>
                        /\ new.condemned \subseteq x.listed \cap SentTo[x.mail]
                        /\ \/ x.name = "complaint"
                           \/ x.name = "bounce" /\ x.bounce = "Permanent"
        BY <2>3, <2>7, <3>2, <4>1
      <4> QED
        BY <2>1, <3>2, <4>1, <4>2 DEF NoticesInv, NoticesAreOurs, Vouched, awsVars
    <3> QED
      BY <2>5, <3>1, <3>2
  <2> QED
    BY <2>1, <2>8, <1>1 DEF NoticesInv
<1>15. CASE HandlerDies(h)
  <2>1. HandlersInv'
    BY <1>5, <1>15 DEF HandlerDies
  <2> QED
    BY <2>1, <1>1, <1>7, <1>8, <1>15 DEF HandlerDies, NoticesInv
<1> QED
  BY <1>9, <1>10, <1>11, <1>12, <1>13, <1>14, <1>15 DEF NoticeStep

-----------------------------------------------------------------------------
(* NoticesInv holds throughout every behaviour.                            *)
THEOREM Invariance == NoticesSpec => []NoticesInv
<1>1. NoticesInit => NoticesInv
  BY NoticesInitInv
<1>2. NoticesInv /\ [NoticesNext]_<<awsVars, noticeVars>> => NoticesInv'
  <2> SUFFICES ASSUME NoticesInv, [NoticesNext]_<<awsVars, noticeVars>> PROVE NoticesInv'
    OBVIOUS
  <2>1. CASE [AwsNext]_awsVars /\ UNCHANGED noticeVars
    BY <2>1, ConnectionsStep
  <2>2. ASSUME NEW h \in Handlers, UNCHANGED awsVars,
               NoticeStep(h) \/ \E n \in Notices : Post(h, n) \/ Poll(h, n)
        PROVE  NoticesInv'
    BY <2>2, HandlingStep, ArrivalStep
  <2> QED
    BY <2>1, <2>2 DEF NoticesNext
<1> QED
  BY <1>1, <1>2, PTL DEF NoticesSpec

(* A project's connection is never made of two keys, however many requests *)
(* load, ask and write it at once, unless one was written from an outdated *)
(* copy (connect_aws, refresh_account).                                    *)
THEOREM ConnectionIsOneKey == NoticesSpec => []OneKeyPerRow
<1>1. NoticesInv => OneKeyPerRow
  BY DEF NoticesInv, AwsInv, Connections, Held, Whole, OneKeyPerRow
<1> QED
  BY <1>1, Invariance, PTL

(* A review that the page calls pending was asked for                      *)
(* (request_production_access, _apply).                                    *)
THEOREM PendingWasAsked == NoticesSpec => []PendingMeansAsked
<1>1. NoticesInv => PendingMeansAsked
  BY DEF NoticesInv, AwsInv, Connections, Whole, Pending, PendingMeansAsked
<1> QED
  BY <1>1, Invariance, PTL

(* No account speaks for a project it was never confirmed for, and nothing *)
(* unsigned is believed (receive_ses_event, connections_for_origin).       *)
THEOREM NoticesSpeakForTheirOwn == NoticesSpec => []NoticesAreOurs
<1>1. NoticesInv => NoticesAreOurs
  BY DEF NoticesInv
<1> QED
  BY <1>1, Invariance, PTL
=============================================================================
