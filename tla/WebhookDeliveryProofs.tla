------------------------ MODULE WebhookDeliveryProofs ------------------------
(***************************************************************************)
(* What webhook deliveries keep, for any endpoints, deliveries, passes and *)
(* limits.  A pass writes from copies of any age, so the invariant says    *)
(* what an old copy still tells of its row: the attempts it counted were   *)
(* made, and there are attempts left after them.                           *)
(*                                                                         *)
(* And where they are posted to: what Destinations keeps, for any names    *)
(* and answers.  Its invariant, DestInv, says that the addresses a         *)
(* delivery has in hand are all reachable under the settings in force.     *)
(***************************************************************************)
EXTENDS WebhookDelivery, Destinations, FiniteSetTheorems, SequenceTheorems, TLAPS

(* A row is out of the schedule before it is queued and once it is         *)
(* deleted, and starts with no attempts unless it is deleted for good.     *)
Unqueued ==
    \A d \in Delivery :
        /\ state[EndpointOf[d]] = "gone" => status[d] = "none"
        /\ status[d] = "none" =>
              /\ d \notin Range(line)
              /\ state[EndpointOf[d]] = "gone" \/ attempts[d] = 0

Copies ==
    /\ \A d \in Delivery : attempts[d] <= tries[d]
    /\ \A w \in Pass : \A d \in Range(todo[w]) :
          rowCopy[w][d] < MaxAttempts /\ rowCopy[w][d] <= tries[d]

Answers ==
    \A w \in Pass : reply[w] # "none" =>
        /\ todo[w] # <<>>
        /\ reply[w] # "raised" => rowCopy[w][Current(w)] + 1 <= tries[Current(w)]
        /\ reply[w] = "ok" => Current(w) \in accepted
        /\ reply[w] = "refused" => tries[Current(w)] = MaxAttempts

Counting ==
    \A e \in Endpoint \ stale :
        /\ fails[e] = streak[e]
        /\ state[e] = "active" => fails[e] < FailureLimit

Rows == PendingIsScheduled /\ SettledOnEvidence /\ Unqueued

IInv == TypeOK /\ Rows /\ Copies /\ Answers /\ Counting

-----------------------------------------------------------------------------
(* The schedule.                                                           *)

(* InOrder(I) takes exactly the rows at I, each once.                      *)
LEMMA InOrderTakes ==
    ASSUME line \in Seq(Delivery), IsInjective(line),
           NEW I \in SUBSET (DOMAIN line), NEW rows \in InOrder(I)
    PROVE  /\ rows \in Seq(Delivery) /\ IsInjective(rows)
           /\ Range(rows) = {line[i] : i \in I}
           /\ Len(rows) = Cardinality(I) /\ Cardinality(I) \in Nat
<1>1. IsFiniteSet(I) /\ Cardinality(I) \in Nat
  <2>1. DOMAIN line = 1..Len(line) /\ Len(line) \in Nat
    OBVIOUS
  <2>2. IsFiniteSet(1..Len(line))
    BY <2>1, FS_Interval
  <2>3. IsFiniteSet(I)
    BY <2>1, <2>2, FS_Subset
  <2> QED
    BY <2>3, FS_CardinalityType
<1>2. PICK at \in Surjection(1..Cardinality(I), I) :
         /\ \A m, n \in DOMAIN at : m < n => at[m] < at[n]
         /\ rows = [n \in DOMAIN at |-> line[at[n]]]
  BY DEF InOrder
<1>3. /\ at \in [1..Cardinality(I) -> I]
      /\ \A i \in I : \E n \in 1..Cardinality(I) : at[n] = i
  BY <1>2 DEF Surjection
<1>4. rows \in [1..Cardinality(I) -> Delivery] /\ rows \in Seq(Delivery)
  <2>1. \A i \in I : line[i] \in Delivery
    OBVIOUS
  <2>2. DOMAIN at = 1..Cardinality(I)
    BY <1>3
  <2>3. rows = [n \in 1..Cardinality(I) |-> line[at[n]]]
    BY <1>2, <2>2
  <2>4. rows \in [1..Cardinality(I) -> Delivery]
    BY <2>1, <2>3, <1>3
  <2> QED
    BY <2>4, <1>1, SeqDef
<1>5. Len(rows) = Cardinality(I)
  BY <1>1, <1>2, <1>3, <1>4
<1>6. IsInjective(rows)
  <2> SUFFICES ASSUME NEW m \in 1..Cardinality(I), NEW n \in 1..Cardinality(I),
                      rows[m] = rows[n]
               PROVE  m = n
    BY <1>4 DEF IsInjective
  <2>1. at[m] = at[n]
    BY <1>2, <1>3 DEF IsInjective
  <2> QED
    BY <2>1, <1>1, <1>2, <1>3
<1>7. Range(rows) = {line[i] : i \in I}
  BY <1>2, <1>3 DEF Range
<1> QED
  BY <1>1, <1>4, <1>5, <1>6, <1>7

(* InsertAt adds one row where it is told.                                 *)
LEMMA InsertAdds ==
    ASSUME NEW s \in Seq(Delivery), IsInjective(s), NEW d \in Delivery, d \notin Range(s),
           NEW i \in 1 .. Len(s) + 1
    PROVE  LET t == InsertAt(s, i, d) IN
           /\ t \in Seq(Delivery) /\ IsInjective(t)
           /\ Range(t) = Range(s) \cup {d}
           /\ Len(t) = Len(s) + 1
<1> DEFINE t == InsertAt(s, i, d)
<1>1. /\ t \in Seq(Delivery)
      /\ Len(t) = Len(s) + 1
      /\ DOMAIN t = 1 .. Len(s) + 1
      /\ \A n \in 1 .. Len(s) + 1 :
            t[n] = IF n < i THEN s[n] ELSE IF n = i THEN d ELSE s[n - 1]
  <2> DEFINE a == SubSeq(s, 1, i - 1)
             b == SubSeq(s, i, Len(s))
  <2>1. /\ a \in Seq(Delivery) /\ Len(a) = i - 1
        /\ \A n \in 1 .. i - 1 : a[n] = s[n]
    BY SubSeqProperties
  <2>2. /\ b \in Seq(Delivery) /\ Len(b) = Len(s) - i + 1
        /\ \A n \in 1 .. Len(s) - i + 1 : b[n] = s[n + i - 1]
    BY SubSeqProperties
  <2> HIDE DEF a, b
  <2>3. /\ <<d>> \in Seq(Delivery) /\ Len(<<d>>) = 1 /\ <<d>>[1] = d
    OBVIOUS
  <2>4. /\ a \o <<d>> \in Seq(Delivery)
        /\ Len(a \o <<d>>) = i
        /\ \A n \in 1..i : (a \o <<d>>)[n] = IF n < i THEN s[n] ELSE d
    BY <2>1, <2>3, ConcatProperties
  <2>5. t = (a \o <<d>>) \o b
    BY DEF InsertAt, a, b
  <2> DEFINE c == a \o <<d>>
  <2> HIDE DEF c, t
  <2>6. /\ c \o b \in Seq(Delivery)
        /\ Len(c \o b) = i + Len(b)
        /\ \A n \in 1 .. i + Len(b) : (c \o b)[n] = IF n <= i THEN c[n] ELSE b[n - i]
    <3>1. c \in Seq(Delivery) /\ Len(c) = i
      BY <2>4 DEF c
    <3>2. b \in Seq(Delivery)
      BY <2>2
    <3>3. /\ c \o b \in Seq(Delivery)
          /\ Len(c \o b) = Len(c) + Len(b)
          /\ \A n \in 1 .. Len(c) + Len(b) :
                (c \o b)[n] = IF n <= Len(c) THEN c[n] ELSE b[n - Len(c)]
      BY <3>1, <3>2, ConcatProperties, Zenon
    <3> QED
      BY <3>1, <3>3, Zenon
  <2>7. \A n \in 1 .. Len(s) + 1 :
           (c \o b)[n] = IF n < i THEN s[n] ELSE IF n = i THEN d ELSE s[n - 1]
    <3> SUFFICES ASSUME NEW n \in 1 .. Len(s) + 1
                 PROVE  (c \o b)[n] = IF n < i THEN s[n] ELSE IF n = i THEN d ELSE s[n - 1]
      OBVIOUS
    <3>1. CASE n <= i
      <4>1. n \in 1 .. i + Len(b) /\ n \in 1..i
        BY <3>1, <2>2
      <4>2. (c \o b)[n] = c[n]
        BY <4>1, <3>1, <2>6
      <4> QED
        BY <4>1, <4>2, <3>1, <2>4 DEF c
    <3>2. CASE ~ (n <= i)
      <4>1. n - i \in 1 .. Len(s) - i + 1 /\ (n - i) + i - 1 = n - 1
        BY <3>2
      <4>2. n \in 1 .. i + Len(b) /\ ~ (n <= i)
        BY <3>2, <2>2
      <4>3. (c \o b)[n] = b[n - i]
        BY <4>2, <2>6
      <4>4. b[n - i] = s[n - 1]
        BY <4>1, <2>2
      <4>5. ~ (n < i) /\ n # i
        BY <3>2
      <4>6. (c \o b)[n] = s[n - 1]
        BY <4>3, <4>4
      <4> QED
        BY <4>5, <4>6
    <3> QED
      BY <3>1, <3>2
  <2> QED
    BY <2>2, <2>5, <2>6, <2>7 DEF c
<1> HIDE DEF t
<1>2. IsInjective(t)
  <2> SUFFICES ASSUME NEW m \in 1 .. Len(s) + 1, NEW n \in 1 .. Len(s) + 1,
                      m < n, t[m] = t[n]
               PROVE  FALSE
    BY <1>1 DEF IsInjective
  <2> DEFINE At(k) == IF k < i THEN k ELSE k - 1
  <2>1. ASSUME NEW k \in 1 .. Len(s) + 1, k # i
        PROVE  At(k) \in DOMAIN s /\ t[k] = s[At(k)]
    <3>1. DOMAIN s = 1 .. Len(s) /\ Len(s) \in Nat
      OBVIOUS
    <3>2. CASE k < i
      BY <3>1, <3>2, <1>1
    <3>3. CASE k > i
      BY <3>1, <3>3, <1>1
    <3> QED
      BY <2>1, <3>2, <3>3
  <2>2. n # i /\ m # i
    BY <2>1, <1>1 DEF Range
  <2>3. At(m) = At(n)
    BY <2>1, <2>2 DEF IsInjective
  <2> QED
    BY <2>2, <2>3
<1>3. Range(t) = Range(s) \cup {d}
  <2>1. ASSUME NEW n \in DOMAIN t PROVE t[n] \in Range(s) \cup {d}
    <3>1. n \in 1 .. Len(s) + 1 /\ DOMAIN s = 1 .. Len(s)
      BY <1>1
    <3>2. \A k \in DOMAIN s : s[k] \in Range(s)
      BY DEF Range
    <3>3. CASE n < i
      BY <1>1, <3>1, <3>2, <3>3
    <3>4. CASE n = i
      BY <1>1, <3>1, <3>4
    <3>5. CASE n > i
      <4>1. n - 1 \in DOMAIN s /\ t[n] = s[n - 1]
        BY <1>1, <3>1, <3>5
      <4> QED
        BY <4>1, <3>2
    <3> QED
      BY <3>1, <3>3, <3>4, <3>5
  <2>2. \A n \in DOMAIN s : s[n] \in Range(t)
    <3> SUFFICES ASSUME NEW n \in DOMAIN s PROVE s[n] \in Range(t)
      OBVIOUS
    <3>1. CASE n < i
      <4>1. n \in DOMAIN t /\ t[n] = s[n]
        BY <3>1, <1>1
      <4> QED
        BY <4>1 DEF Range
    <3>2. CASE ~ (n < i)
      <4>1. n + 1 \in 1 .. Len(s) + 1 /\ ~ (n + 1 < i) /\ n + 1 # i /\ (n + 1) - 1 = n
        BY <3>2
      <4>2. n + 1 \in DOMAIN t /\ t[n + 1] = s[n]
        BY <4>1, <1>1
      <4> QED
        BY <4>2 DEF Range
    <3> QED
      BY <3>1, <3>2
  <2>3. d \in Range(t)
    BY <1>1 DEF Range
  <2> QED
    BY <2>1, <2>2, <2>3 DEF Range
<1> QED
  BY <1>1, <1>2, <1>3 DEF t

(* Taking rows out leaves the others, in a schedule of the right type.     *)
LEMMA UnscheduleTakes ==
    ASSUME line \in Seq(Delivery), IsInjective(line), ripe \in 0..Len(line),
           NEW S \in SUBSET Delivery, NEW rows \in InOrder(Kept(S))
    PROVE  /\ rows \in Seq(Delivery) /\ IsInjective(rows)
           /\ Range(rows) = Range(line) \ S
           /\ KeptDue(S) \in 0..Len(rows)
<1>1. Kept(S) \in SUBSET (DOMAIN line)
  BY DEF Kept
<1>2. /\ rows \in Seq(Delivery) /\ IsInjective(rows)
      /\ Range(rows) = {line[i] : i \in Kept(S)}
      /\ Len(rows) = Cardinality(Kept(S))
  BY <1>1, InOrderTakes
<1>3. Range(rows) = Range(line) \ S
  BY <1>2 DEF Kept, Range
<1>4. KeptDue(S) \in 0..Len(rows)
  <2>1. IsFiniteSet(Kept(S))
    <3>1. DOMAIN line = 1..Len(line) /\ Len(line) \in Nat
      OBVIOUS
    <3>2. IsFiniteSet(1..Len(line))
      BY <3>1, FS_Interval
    <3> QED
      BY <3>1, <3>2, <1>1, FS_Subset
  <2>2. /\ IsFiniteSet(Kept(S) \cap 1..ripe)
        /\ Cardinality(Kept(S) \cap 1..ripe) <= Cardinality(Kept(S))
    BY <2>1, FS_Subset
  <2> QED
    BY <2>1, <2>2, <1>2, FS_CardinalityType DEF KeptDue
<1> QED
  BY <1>2, <1>3, <1>4

-----------------------------------------------------------------------------
(* Nothing is queued at first.                                             *)
LEMMA InitInv == Init => IInv
BY EndpointAssumption, LimitAssumption
DEF Init, IInv, TypeOK, Rows, PendingIsScheduled, SettledOnEvidence, Unqueued, Copies, Answers,
    Counting, Pending, Settled, States, Replies, NoRows, NoEndpoints, Copy, Range, IsInjective

(* A delivery that is queued is scheduled with all its attempts.           *)
LEMMA QueueInv == ASSUME IInv, NEW d \in Delivery, QueueDelivery(d) PROVE IInv'
<1> DEFINE new == InsertAt(line, ripe + 1, d)
<1>0. /\ line \in Seq(Delivery) /\ IsInjective(line) /\ ripe \in 0..Len(line)
      /\ d \notin Range(line)
  BY DEF IInv, TypeOK, Rows, Unqueued, QueueDelivery
<1>1. /\ new \in Seq(Delivery) /\ IsInjective(new)
      /\ Range(new) = Range(line) \cup {d}
      /\ Len(new) = Len(line) + 1
  <2>1. ripe + 1 \in 1 .. Len(line) + 1
    BY <1>0
  <2> QED
    BY <1>0, <2>1, InsertAdds
<1>2. /\ line' = new /\ ripe' = ripe + 1 /\ status' = [status EXCEPT ![d] = "pending"]
      /\ jobs' \in {jobs, jobs \cup {d}}
      /\ UNCHANGED <<attempts, endVars, passVars, obsVars, userVars, cuts>>
      /\ status[d] = "none" /\ state[EndpointOf[d]] = "active"
  BY DEF QueueDelivery
<1> HIDE DEF new
<1>3. TypeOK'
  <2>1. ripe' \in 0..Len(line')
    BY <1>0, <1>1, <1>2
  <2>2. IsInjective(line)' /\ line' \in Seq(Delivery)
    BY <1>1, <1>2 DEF IsInjective
  <2>3. status' \in [Delivery -> {"none", "pending"} \cup Settled] /\ jobs' \subseteq Delivery
    BY <1>2 DEF IInv, TypeOK
  <2> QED
    BY <2>1, <2>2, <2>3, <1>2 DEF IInv, TypeOK, endVars, passVars, obsVars, userVars
<1>4. Rows'
  <2>1. Range(line') = Range(line) \cup {d}
    BY <1>1, <1>2
  <2>2. attempts[d] < MaxAttempts
    <3>1. attempts[d] = 0
      BY <1>2 DEF IInv, Rows, Unqueued
    <3> QED
      BY <3>1, LimitAssumption
  <2> QED
    BY <1>2, <2>1, <2>2
    DEF IInv, TypeOK, Rows, PendingIsScheduled, SettledOnEvidence, Unqueued, Pending, Settled,
        endVars, obsVars
<1>5. (Copies /\ Answers /\ Counting)'
  BY <1>2 DEF IInv, Copies, Answers, Counting, Current, endVars, passVars, obsVars
<1> QED
  BY <1>3, <1>4, <1>5 DEF IInv

(* A step of Record may only take its row out of the schedule, or put it    *)
(* back behind the rows that are due.                                      *)
LEMMA UnscheduleInv ==
    ASSUME IInv, NEW S \in SUBSET Delivery, Unschedule(S)
    PROVE  /\ line' \in Seq(Delivery) /\ IsInjective(line)'
           /\ Range(line)' = Range(line) \ S
           /\ ripe' \in 0..Len(line')
<1>1. line \in Seq(Delivery) /\ IsInjective(line) /\ ripe \in 0..Len(line)
  BY DEF IInv, TypeOK
<1>2. line' \in InOrder(Kept(S)) /\ ripe' = KeptDue(S)
  BY DEF Unschedule
<1>3. /\ line' \in Seq(Delivery) /\ IsInjective(line')
      /\ Range(line') = Range(line) \ S
      /\ KeptDue(S) \in 0..Len(line')
  BY <1>1, <1>2, UnscheduleTakes
<1> QED
  BY <1>2, <1>3 DEF IsInjective, Range

(* The row a pass is at, and the rows after it.                            *)
LEMMA AtRow ==
    ASSUME IInv, NEW w \in Pass, ~ Idle(w)
    PROVE  /\ Current(w) \in Delivery /\ Current(w) \in Range(todo[w])
           /\ EndpointAt(w) \in Endpoint
           /\ rowCopy[w][Current(w)] \in Nat
           /\ rowCopy[w][Current(w)] + 1 <= MaxAttempts
           /\ Tail(todo[w]) \in Seq(Delivery)
           /\ Range(Tail(todo[w])) \subseteq Range(todo[w])
<1>1. todo[w] \in Seq(Delivery) /\ todo[w] # <<>> /\ Len(todo[w]) \in Nat \ {0}
  BY DEF IInv, TypeOK, Idle
<1>2. Current(w) = todo[w][1] /\ 1 \in DOMAIN todo[w]
  BY <1>1 DEF Current
<1>3. Current(w) \in Delivery /\ Current(w) \in Range(todo[w])
  BY <1>1, <1>2 DEF Range
<1>4. Tail(todo[w]) \in Seq(Delivery) /\ Range(Tail(todo[w])) \subseteq Range(todo[w])
  <2>1. /\ Tail(todo[w]) \in Seq(Delivery)
        /\ Len(Tail(todo[w])) = Len(todo[w]) - 1
        /\ \A i \in 1..Len(Tail(todo[w])) : Tail(todo[w])[i] = todo[w][i + 1]
    BY <1>1, HeadTailProperties
  <2>2. \A i \in DOMAIN Tail(todo[w]) : Tail(todo[w])[i] \in Range(todo[w])
    BY <1>1, <2>1 DEF Range
  <2> QED
    BY <2>1, <2>2 DEF Range
<1>5. rowCopy[w][Current(w)] \in Nat /\ rowCopy[w][Current(w)] < MaxAttempts
  BY <1>3 DEF IInv, TypeOK, Copies
<1> QED
  BY <1>3, <1>4, <1>5, EndpointAssumption, LimitAssumption DEF EndpointAt

(* What the end of a pass, and its going on, keep.                         *)
LEMMA CloseInv ==
    ASSUME IInv, NEW w \in Pass, Close(w),
           UNCHANGED <<tries, accepted>>, \A d \in Delivery : attempts'[d] <= tries[d]
    PROVE  /\ todo' \in [Pass -> Seq(Delivery)]
           /\ rowCopy' \in [Pass -> [Delivery -> Nat]]
           /\ endCopy' \in [Pass -> [Endpoint -> Copy]]
           /\ reply' \in [Pass -> Replies]
           /\ Copies' /\ Answers'
<1>1. /\ todo' = [todo EXCEPT ![w] = <<>>]
      /\ rowCopy' = [rowCopy EXCEPT ![w] = NoRows]
      /\ endCopy' = [endCopy EXCEPT ![w] = NoEndpoints]
      /\ reply' = [reply EXCEPT ![w] = "none"]
  BY DEF Close
<1>2. /\ todo \in [Pass -> Seq(Delivery)]
      /\ rowCopy \in [Pass -> [Delivery -> Nat]]
      /\ endCopy \in [Pass -> [Endpoint -> Copy]]
      /\ reply \in [Pass -> Replies]
  BY DEF IInv, TypeOK
<1>3. NoRows \in [Delivery -> Nat] /\ NoEndpoints \in [Endpoint -> Copy]
      /\ "none" \in Replies /\ <<>> \in Seq(Delivery)
  BY DEF NoRows, NoEndpoints, Copy, States, Replies
<1>4. Copies'
  <2>1. \A d \in Delivery : attempts'[d] <= tries'[d]
    OBVIOUS
  <2>2. \A v \in Pass : \A d \in Range(todo'[v]) :
           rowCopy'[v][d] < MaxAttempts /\ rowCopy'[v][d] <= tries'[d]
    <3>1. Range(todo'[w]) = {}
      BY <1>1, <1>2 DEF Range
    <3>2. \A v \in Pass \ {w} : todo'[v] = todo[v] /\ rowCopy'[v] = rowCopy[v]
      BY <1>1, <1>2
    <3> QED
      BY <3>1, <3>2 DEF IInv, Copies
  <2> QED
    BY <2>1, <2>2 DEF Copies, Range
<1>5. Answers'
  BY <1>1, <1>2 DEF IInv, Answers, Current
<1> QED
  BY <1>1, <1>2, <1>3, <1>4, <1>5

(* Going on to the next row drops one copy and keeps the others.           *)
LEMMA AdvanceInv ==
    ASSUME IInv, NEW w \in Pass, ~ Idle(w),
           NEW copy \in Copy, Advance(w, copy),
           UNCHANGED <<tries, accepted>>, \A d \in Delivery : attempts'[d] <= tries[d]
    PROVE  /\ todo' \in [Pass -> Seq(Delivery)]
           /\ rowCopy' \in [Pass -> [Delivery -> Nat]]
           /\ endCopy' \in [Pass -> [Endpoint -> Copy]]
           /\ reply' \in [Pass -> Replies]
           /\ Copies' /\ Answers'
<1>1. CASE Len(todo[w]) = 1
  BY <1>1, CloseInv DEF Advance
<1>2. CASE Len(todo[w]) # 1
  <2>1. /\ todo' = [todo EXCEPT ![w] = Tail(todo[w])]
        /\ rowCopy' = [rowCopy EXCEPT ![w][Current(w)] = 0]
        /\ endCopy' = [endCopy EXCEPT ![w][EndpointAt(w)] = copy]
        /\ reply' = [reply EXCEPT ![w] = "none"]
    BY <1>2 DEF Advance
  <2>2. /\ todo \in [Pass -> Seq(Delivery)]
        /\ rowCopy \in [Pass -> [Delivery -> Nat]]
        /\ endCopy \in [Pass -> [Endpoint -> Copy]]
        /\ reply \in [Pass -> Replies]
        /\ tries \in [Delivery -> 0..MaxAttempts]
    BY DEF IInv, TypeOK
  <2>3. /\ Tail(todo[w]) \in Seq(Delivery)
        /\ Range(Tail(todo[w])) \subseteq Range(todo[w])
        /\ EndpointAt(w) \in Endpoint /\ Current(w) \in Delivery
    BY AtRow
  <2>4. \A v \in Pass : Range(todo'[v]) \subseteq Range(todo[v])
    BY <2>1, <2>2, <2>3
  <2>5. \A v \in Pass : \A d \in Range(todo[v]) : d \in Delivery
    BY <2>2 DEF Range
  <2>6. \A v \in Pass : \A d \in Delivery : rowCopy'[v][d] = rowCopy[v][d] \/ rowCopy'[v][d] = 0
    BY <2>1, <2>2, <2>3
  <2>7. Copies'
    <3>1. \A v \in Pass : \A d \in Range(todo[v]) :
             rowCopy[v][d] < MaxAttempts /\ rowCopy[v][d] <= tries[d]
      BY DEF IInv, Copies
    <3>2. \A v \in Pass : \A d \in Range(todo'[v]) :
             rowCopy'[v][d] < MaxAttempts /\ rowCopy'[v][d] <= tries[d]
      <4> SUFFICES ASSUME NEW v \in Pass, NEW d \in Range(todo'[v])
                   PROVE  rowCopy'[v][d] < MaxAttempts /\ rowCopy'[v][d] <= tries[d]
        OBVIOUS
      <4>1. d \in Range(todo[v]) /\ d \in Delivery
        BY <2>4, <2>5
      <4>2. tries[d] \in Nat /\ rowCopy[v][d] < MaxAttempts /\ rowCopy[v][d] <= tries[d]
        BY <4>1, <3>1, <2>2, LimitAssumption
      <4>3. rowCopy'[v][d] = rowCopy[v][d] \/ rowCopy'[v][d] = 0
        BY <4>1, <2>6
      <4> QED
        BY <4>2, <4>3, LimitAssumption
    <3> QED
      BY <3>2 DEF Copies, Range
  <2>8. Answers'
    BY <2>1, <2>2, <2>3 DEF IInv, Answers, Current
  <2>9. todo' \in [Pass -> Seq(Delivery)] /\ reply' \in [Pass -> Replies]
    BY <2>1, <2>2, <2>3 DEF Replies
  <2>10. rowCopy' \in [Pass -> [Delivery -> Nat]]
    BY <2>1, <2>2, <2>3
  <2>11. endCopy' \in [Pass -> [Endpoint -> Copy]]
    BY <2>1, <2>2, <2>3
  <2> QED
    BY <2>7, <2>8, <2>9, <2>10, <2>11
<1> QED
  BY <1>1, <1>2

-----------------------------------------------------------------------------
(* The steps of a pass.                                                    *)

LEMMA OpenInv ==
    ASSUME IInv, NEW w \in Pass, Idle(w),
           NEW rows \in Seq(Delivery), \A d \in Range(rows) : Pending(d), Open(w, rows),
           jobs' \subseteq jobs,
           UNCHANGED <<rowVars, ripe, endVars, reply, obsVars, userVars, cuts>>
    PROVE  IInv'
<1>1. /\ todo' = [todo EXCEPT ![w] = rows]
      /\ rowCopy' = [rowCopy EXCEPT ![w] =
                       [d \in Delivery |-> IF d \in Range(rows) THEN attempts[d] ELSE 0]]
      /\ endCopy' = [endCopy EXCEPT ![w] = [e \in Endpoint |-> Loaded(e)]]
  BY DEF Open
<1>2. /\ todo \in [Pass -> Seq(Delivery)]
      /\ rowCopy \in [Pass -> [Delivery -> Nat]]
      /\ endCopy \in [Pass -> [Endpoint -> Copy]]
      /\ attempts \in [Delivery -> 0..MaxAttempts]
      /\ state \in [Endpoint -> States] /\ fails \in [Endpoint -> Nat]
  BY DEF IInv, TypeOK
<1>3. TypeOK'
  <2>1. [d \in Delivery |-> IF d \in Range(rows) THEN attempts[d] ELSE 0] \in [Delivery -> Nat]
    BY <1>2, LimitAssumption
  <2>2. [e \in Endpoint |-> Loaded(e)] \in [Endpoint -> Copy]
    BY <1>2 DEF Loaded, Copy
  <2>3. /\ todo' \in [Pass -> Seq(Delivery)]
        /\ rowCopy' \in [Pass -> [Delivery -> Nat]]
        /\ endCopy' \in [Pass -> [Endpoint -> Copy]]
    BY <1>1, <1>2, <2>1, <2>2
  <2> QED
    BY <2>3 DEF IInv, TypeOK, IsInjective, rowVars, endVars, obsVars, userVars
<1>4. Rows' /\ Counting'
  BY DEF IInv, Rows, PendingIsScheduled, SettledOnEvidence, Unqueued, Counting, Pending, Range,
         rowVars, endVars, obsVars
<1>5. Copies'
  <2>1. \A d \in Range(rows) : d \in Delivery
    BY DEF Range
  <2>2. \A d \in Range(rows) : attempts[d] < MaxAttempts /\ attempts[d] <= tries[d]
    BY <2>1 DEF IInv, Rows, PendingIsScheduled, Copies
  <2>3. \A d \in Range(rows) : rowCopy'[w][d] = attempts[d]
    BY <2>1, <1>1, <1>2
  <2>4. \A v \in Pass \ {w} : todo'[v] = todo[v] /\ rowCopy'[v] = rowCopy[v]
    BY <1>1, <1>2
  <2>5. Range(todo'[w]) = Range(rows) /\ UNCHANGED <<attempts, tries>>
    BY <1>1, <1>2 DEF rowVars, obsVars
  <2>6. \A v \in Pass : \A d \in Range(todo'[v]) :
           rowCopy'[v][d] < MaxAttempts /\ rowCopy'[v][d] <= tries[d]
    <3>1. CASE \A v \in Pass \ {w} : \A d \in Range(todo[v]) :
                  rowCopy[v][d] < MaxAttempts /\ rowCopy[v][d] <= tries[d]
      BY <2>2, <2>3, <2>4, <2>5, <3>1, Zenon
    <3> QED
      BY <3>1 DEF IInv, Copies
  <2> QED
    BY <2>5, <2>6 DEF IInv, Copies, Range
<1>6. Answers'
  <2>1. reply[w] = "none"
    BY DEF IInv, Answers, Idle
  <2> QED
    BY <2>1, <1>1, <1>2 DEF IInv, Answers, Current, obsVars
<1> QED
  BY <1>3, <1>4, <1>5, <1>6 DEF IInv

(* Every way a pass starts keeps the invariant.                            *)
LEMMA StartInv ==
    ASSUME IInv, NEW w \in Pass, (\E d \in Delivery : StartJob(w, d)) \/ StartSweep(w)
    PROVE  IInv'
<1>1. CASE \E d \in Delivery : StartJob(w, d)
  <2> PICK d \in Delivery : StartJob(w, d)
    BY <1>1
  <2>1. CASE Pending(d) /\ Open(w, <<d>>)
    <3>1. <<d>> \in Seq(Delivery) /\ Range(<<d>>) = {d}
      BY DEF Range
    <3> QED
      BY <2>1, <3>1, OpenInv DEF StartJob
  <2>2. CASE UNCHANGED <<todo, rowCopy, endCopy>>
    <3>1. /\ jobs' \subseteq jobs
          /\ UNCHANGED <<rowVars, ripe, endVars, passVars, obsVars, userVars, cuts>>
      BY <2>2 DEF StartJob, passVars
    <3>2. TypeOK'
      BY <3>1 DEF IInv, TypeOK, IsInjective, rowVars, endVars, passVars, obsVars, userVars
    <3>3. Rows' /\ Counting'
      BY <3>1
      DEF IInv, Rows, PendingIsScheduled, SettledOnEvidence, Unqueued, Counting, Pending, Range,
          rowVars, endVars, obsVars
    <3>4. Copies' /\ Answers'
      BY <3>1 DEF IInv, Copies, Answers, Current, Range, rowVars, passVars, obsVars
    <3> QED
      BY <3>2, <3>3, <3>4 DEF IInv
  <2> QED
    BY <2>1, <2>2 DEF StartJob
<1>2. CASE StartSweep(w)
  <2> PICK rows \in InOrder(DueAt) : Open(w, rows)
    BY <1>2 DEF StartSweep
  <2>1. line \in Seq(Delivery) /\ IsInjective(line) /\ ripe \in 0..Len(line)
    BY DEF IInv, TypeOK
  <2>2. DueAt \in SUBSET (DOMAIN line)
    BY <2>1 DEF DueAt
  <2>3. rows \in Seq(Delivery) /\ Range(rows) = {line[i] : i \in DueAt}
    BY <2>1, <2>2, InOrderTakes
  <2>4. \A d \in Range(rows) : Pending(d)
    BY <2>3 DEF DueAt
  <2> QED
    BY <1>2, <2>3, <2>4, OpenInv DEF StartSweep
<1> QED
  BY <1>1, <1>2

(* A post is counted, and answered once.                                   *)
LEMMA AttemptInv == ASSUME IInv, NEW w \in Pass, Attempt(w) PROVE IInv'
<1> DEFINE d == Current(w)
<1>1. PICK r \in Replies \ {"none"} :
         /\ reply' = [reply EXCEPT ![w] = r]
         /\ accepted' = IF r = "ok" THEN accepted \cup {d} ELSE accepted
         /\ tries' = [tries EXCEPT ![d] =
                        IF r = "raised" THEN tries[d]
                        ELSE IF r = "refused" \/ tries[d] = MaxAttempts
                        THEN MaxAttempts ELSE tries[d] + 1]
  BY DEF Attempt
<1>2. /\ ~ Idle(w)
      /\ UNCHANGED <<rowVars, ripe, endVars, jobs, todo, rowCopy, endCopy, streak, stale,
                     userVars, cuts>>
  BY DEF Attempt
<1>3. /\ d \in Delivery /\ rowCopy[w][d] \in Nat /\ rowCopy[w][d] + 1 <= MaxAttempts
      /\ d \in Range(todo[w])
  BY <1>2, AtRow
<1>4. tries \in [Delivery -> 0..MaxAttempts] /\ attempts \in [Delivery -> 0..MaxAttempts]
      /\ reply \in [Pass -> Replies] /\ rowCopy \in [Pass -> [Delivery -> Nat]]
      /\ todo \in [Pass -> Seq(Delivery)]
  BY DEF IInv, TypeOK
<1> HIDE DEF d
<1>5. /\ tries' \in [Delivery -> 0..MaxAttempts]
      /\ \A x \in Delivery : tries'[x] >= tries[x]
      /\ r = "refused" => tries'[d] = MaxAttempts
  BY <1>1, <1>3, <1>4, LimitAssumption
<1>6. r # "raised" => rowCopy[w][d] + 1 <= tries'[d]
  <2>1. rowCopy[w][d] <= tries[d]
    BY <1>3 DEF IInv, Copies
  <2> QED
    BY <2>1, <1>1, <1>3, <1>4, LimitAssumption
<1>7. TypeOK'
  BY <1>1, <1>2, <1>3, <1>4, <1>5 DEF IInv, TypeOK, IsInjective, rowVars, endVars, userVars
<1>8. Rows'
  <2>1. \A x \in Delivery : tries[x] = MaxAttempts => tries'[x] = MaxAttempts
    BY <1>1, <1>3, <1>4
  <2> QED
    BY <2>1, <1>1, <1>2
    DEF IInv, Rows, PendingIsScheduled, SettledOnEvidence, Unqueued, Pending, Range,
        rowVars, endVars
<1>9. Copies'
  <2>1. \A x \in Delivery : attempts[x] <= tries'[x]
    <3>1. \A x \in Delivery : attempts[x] <= tries[x]
      BY DEF IInv, Copies
    <3> QED
      BY <3>1, <1>4, <1>5, LimitAssumption
  <2>2. \A v \in Pass : \A x \in Range(todo[v]) :
           rowCopy[v][x] < MaxAttempts /\ rowCopy[v][x] <= tries'[x]
    <3> SUFFICES ASSUME NEW v \in Pass, NEW x \in Range(todo[v])
                 PROVE  rowCopy[v][x] < MaxAttempts /\ rowCopy[v][x] <= tries'[x]
      OBVIOUS
    <3>1. x \in Delivery
      BY <1>4 DEF Range
    <3>2. rowCopy[v][x] < MaxAttempts /\ rowCopy[v][x] <= tries[x]
      BY DEF IInv, Copies
    <3> QED
      BY <3>1, <3>2, <1>4, <1>5, LimitAssumption
  <2> QED
    BY <2>1, <2>2, <1>2 DEF Copies, Range, rowVars
<1>10. Answers'
  <2> SUFFICES ASSUME NEW v \in Pass, reply'[v] # "none"
               PROVE  /\ todo[v] # <<>>
                      /\ reply'[v] # "raised" =>
                            rowCopy[v][Current(v)] + 1 <= tries'[Current(v)]
                      /\ reply'[v] = "ok" => Current(v) \in accepted'
                      /\ reply'[v] = "refused" => tries'[Current(v)] = MaxAttempts
    BY <1>2 DEF Answers, Current
  <2>1. CASE v = w
    BY <2>1, <1>1, <1>2, <1>4, <1>5, <1>6 DEF d, Idle
  <2>2. CASE v # w
    <3>1. reply'[v] = reply[v]
      BY <2>2, <1>1, <1>4
    <3>2. /\ todo[v] # <<>>
          /\ reply[v] # "raised" => rowCopy[v][Current(v)] + 1 <= tries[Current(v)]
          /\ reply[v] = "ok" => Current(v) \in accepted
          /\ reply[v] = "refused" => tries[Current(v)] = MaxAttempts
      BY <3>1 DEF IInv, Answers
    <3>3. Current(v) \in Delivery /\ rowCopy[v][Current(v)] \in Nat
      BY <3>2, AtRow DEF Idle
    <3>4. tries'[Current(v)] \in 0..MaxAttempts /\ tries'[Current(v)] >= tries[Current(v)]
          /\ tries[Current(v)] \in 0..MaxAttempts
      BY <3>3, <1>4, <1>5
    <3> QED
      BY <3>1, <3>2, <3>3, <3>4, <1>1, LimitAssumption
  <2> QED
    BY <2>1, <2>2
<1>11. Counting'
  BY <1>2 DEF IInv, Counting, endVars
<1> QED
  BY <1>7, <1>8, <1>9, <1>10, <1>11 DEF IInv

(* What a final answer, or a user's request, writes of its endpoint.       *)
LEMMA WriteInv ==
    ASSUME IInv, NEW copy \in Copy, NEW e \in Endpoint, NEW new \in Copy,
           WriteEndpoint(copy, e, new), state[e] # "gone",
           new.state # copy.state => new.state # "gone"
    PROVE  /\ state' \in [Endpoint -> States] /\ fails' \in [Endpoint -> Nat]
           /\ stale' \subseteq Endpoint /\ stale \subseteq stale'
           /\ \A x \in Endpoint : state'[x] = "gone" <=> state[x] = "gone"
           /\ \A x \in Endpoint \ {e} : state'[x] = state[x] /\ fails'[x] = fails[x]
           /\ e \notin stale' => /\ copy = Loaded(e)
                               /\ state'[e] = new.state /\ fails'[e] = new.fails
<1>1. /\ state' = [state EXCEPT ![e] = Flushed(copy.state, new.state, state[e])]
      /\ fails' = [fails EXCEPT ![e] = Flushed(copy.fails, new.fails, fails[e])]
      /\ stale' = IF copy = Loaded(e) THEN stale ELSE stale \cup {e}
  BY DEF WriteEndpoint
<1>2. /\ state \in [Endpoint -> States] /\ fails \in [Endpoint -> Nat] /\ stale \subseteq Endpoint
  BY DEF IInv, TypeOK
<1> QED
  BY <1>1, <1>2 DEF Flushed, Loaded, Copy, States

(* A verdict takes the row out of the schedule and counts an attempt that  *)
(* was made.                                                               *)
LEMMA VerdictInv ==
    ASSUME IInv, NEW w \in Pass, ~ Idle(w), reply[w] \notin {"none", "raised"},
           NEW verdict \in Settled,
           NEW new \in Copy,
           status[Current(w)] # "none",
           status' = [status EXCEPT ![Current(w)] = verdict],
           attempts' = [attempts EXCEPT ![Current(w)] = rowCopy[w][Current(w)] + 1],
           Unschedule({Current(w)}), Advance(w, new),
           WriteEndpoint(endCopy[w][EndpointAt(w)], EndpointAt(w), new),
           new.state # endCopy[w][EndpointAt(w)].state => new.state # "gone",
           streak' \in [Endpoint -> Nat],
           UNCHANGED <<jobs, accepted, tries, userVars, cuts>>,
           verdict = "delivered" => Current(w) \in accepted,
           verdict = "failed" => tries[Current(w)] = MaxAttempts
    PROVE  TypeOK' /\ Rows' /\ Copies' /\ Answers'
<1> DEFINE d == Current(w)
           e == EndpointAt(w)
<1>1. /\ d \in Delivery /\ e \in Endpoint /\ e = EndpointOf[d]
      /\ rowCopy[w][d] \in Nat /\ rowCopy[w][d] + 1 <= MaxAttempts
  BY AtRow DEF EndpointAt
<1>2. rowCopy[w][d] + 1 <= tries[d]
  BY DEF IInv, Answers
<1>3. /\ status \in [Delivery -> {"none", "pending"} \cup Settled]
      /\ attempts \in [Delivery -> 0..MaxAttempts]
      /\ tries \in [Delivery -> 0..MaxAttempts]
  BY DEF IInv, TypeOK
<1>4. /\ line' \in Seq(Delivery) /\ IsInjective(line)'
      /\ Range(line)' = Range(line) \ {d}
      /\ ripe' \in 0..Len(line')
  BY <1>1, UnscheduleInv
<1>5. \A x \in Delivery : attempts'[x] <= tries[x]
  BY <1>1, <1>2, <1>3 DEF IInv, Copies
<1>6. /\ todo' \in [Pass -> Seq(Delivery)]
      /\ rowCopy' \in [Pass -> [Delivery -> Nat]]
      /\ endCopy' \in [Pass -> [Endpoint -> Copy]]
      /\ reply' \in [Pass -> Replies]
      /\ Copies' /\ Answers'
  BY <1>5, AdvanceInv
<1>7. state[e] # "gone" /\ endCopy[w][e] \in Copy
  BY <1>1 DEF IInv, TypeOK, Rows, Unqueued
<1>8. /\ state' \in [Endpoint -> States] /\ fails' \in [Endpoint -> Nat]
      /\ stale' \subseteq Endpoint
      /\ \A x \in Endpoint : state'[x] = "gone" <=> state[x] = "gone"
  BY <1>1, <1>7, WriteInv
<1>9. TypeOK'
  <2>1. /\ status' \in [Delivery -> {"none", "pending"} \cup Settled]
        /\ attempts' \in [Delivery -> 0..MaxAttempts]
    BY <1>1, <1>3, LimitAssumption
  <2> QED
    BY <2>1, <1>4, <1>6, <1>8 DEF IInv, TypeOK, userVars
<1>10. Rows'
  <2>1. /\ status'[d] = verdict /\ attempts'[d] = rowCopy[w][d] + 1
        /\ \A x \in Delivery \ {d} : status'[x] = status[x] /\ attempts'[x] = attempts[x]
    BY <1>1, <1>3
  <2>2. PendingIsScheduled' /\ SettledOnEvidence'
    BY <2>1, <1>1, <1>4
    DEF IInv, Rows, PendingIsScheduled, SettledOnEvidence, Pending, Settled
  <2>3. Unqueued'
    <3> SUFFICES ASSUME NEW x \in Delivery
                 PROVE  /\ state'[EndpointOf[x]] = "gone" => status'[x] = "none"
                        /\ status'[x] = "none" =>
                              /\ x \notin Range(line')
                              /\ state'[EndpointOf[x]] = "gone" \/ attempts'[x] = 0
      BY DEF Unqueued
    <3>1. state'[EndpointOf[x]] = "gone" <=> state[EndpointOf[x]] = "gone"
      BY <1>8, EndpointAssumption
    <3>2. CASE x = d
      BY <3>1, <3>2, <2>1, <1>1, <1>7 DEF Settled
    <3>3. CASE x # d
      BY <3>1, <3>3, <2>1, <1>4 DEF IInv, Rows, Unqueued, Range
    <3> QED
      BY <3>2, <3>3
  <2> QED
    BY <2>2, <2>3 DEF Rows
<1> QED
  BY <1>6, <1>9, <1>10

(* A success has been accepted, and ends a run of failures.                *)
LEMMA SuccessInv == ASSUME IInv, NEW w \in Pass, ~ Idle(w), RecordSuccess(w) PROVE IInv'
<1> DEFINE d == Current(w)
           e == EndpointAt(w)
           new == [endCopy[w][e] EXCEPT !.fails = 0]
<1>1. /\ reply[w] = "ok" /\ status[d] # "none"
      /\ status' = [status EXCEPT ![d] = "delivered"]
      /\ attempts' = [attempts EXCEPT ![d] = rowCopy[w][d] + 1]
      /\ Unschedule({d}) /\ WriteEndpoint(endCopy[w][e], e, new) /\ Advance(w, new)
      /\ streak' = [streak EXCEPT ![e] = 0]
      /\ UNCHANGED <<jobs, accepted, tries, userVars, cuts>>
  BY DEF RecordSuccess, AcceptedReplies
<1>2. d \in Delivery /\ e \in Endpoint /\ e = EndpointOf[d]
  BY AtRow DEF EndpointAt
<1>3. /\ endCopy[w][e] \in Copy /\ streak \in [Endpoint -> Nat]
      /\ streak' \in [Endpoint -> Nat]
  BY <1>1, <1>2 DEF IInv, TypeOK
<1>4. /\ new \in Copy
      /\ new.state = endCopy[w][e].state /\ new.fails = 0
  BY <1>3 DEF Copy
<1>5. d \in accepted
  BY <1>1 DEF IInv, Answers
<1>6. TypeOK' /\ Rows' /\ Copies' /\ Answers'
  <2> HIDE DEF new
  <2> QED
    BY <1>1, <1>3, <1>4, <1>5, VerdictInv DEF Settled
<1>7. Counting'
  <2>1. state[e] # "gone" /\ endCopy[w][e] \in Copy
    BY <1>1, <1>2, <1>3 DEF IInv, Rows, Unqueued
  <2> HIDE DEF new
  <2>2. /\ stale \subseteq stale'
        /\ \A x \in Endpoint \ {e} : state'[x] = state[x] /\ fails'[x] = fails[x]
        /\ e \notin stale' => /\ endCopy[w][e] = Loaded(e)
                            /\ state'[e] = new.state /\ fails'[e] = new.fails
    BY <1>1, <1>2, <1>4, <2>1, WriteInv
  <2> SUFFICES ASSUME NEW x \in Endpoint \ stale'
               PROVE  fails'[x] = streak'[x] /\ (state'[x] = "active" => fails'[x] < FailureLimit)
    BY DEF Counting
  <2>3. CASE x = e
    BY <2>2, <2>3, <1>1, <1>3, <1>4, LimitAssumption
  <2>4. CASE x # e
    BY <2>2, <2>4, <1>1, <1>3 DEF IInv, Counting
  <2> QED
    BY <2>3, <2>4
<1> QED
  BY <1>6, <1>7 DEF IInv

(* A failure has no attempts left, and is counted.                         *)
LEMMA FailureInv == ASSUME IInv, NEW w \in Pass, ~ Idle(w), RecordFailure(w) PROVE IInv'
<1> DEFINE d == Current(w)
           e == EndpointAt(w)
           new == Counted(endCopy[w][e])
<1>1. /\ reply[w] \in {"retryable", "refused"} /\ ~ MayRetry(w) /\ status[d] # "none"
      /\ status' = [status EXCEPT ![d] = "failed"]
      /\ attempts' = [attempts EXCEPT ![d] = rowCopy[w][d] + 1]
      /\ Unschedule({d}) /\ WriteEndpoint(endCopy[w][e], e, new) /\ Advance(w, new)
      /\ streak' = [streak EXCEPT ![e] = streak[e] + 1]
      /\ UNCHANGED <<jobs, accepted, tries, userVars, cuts>>
  BY DEF RecordFailure
<1>2. d \in Delivery /\ e \in Endpoint /\ e = EndpointOf[d] /\ rowCopy[w][d] \in Nat
  BY AtRow DEF EndpointAt
<1>3. /\ endCopy[w][e] \in Copy /\ streak \in [Endpoint -> Nat]
      /\ streak' \in [Endpoint -> Nat]
  BY <1>1, <1>2 DEF IInv, TypeOK
<1>4. /\ new \in Copy
      /\ new.state # endCopy[w][e].state => new.state # "gone"
      /\ new.fails = endCopy[w][e].fails + 1
      /\ new.state = "active" => endCopy[w][e].fails + 1 < FailureLimit
  BY <1>3, LimitAssumption DEF Counted, Copy, States
<1>5. tries[d] = MaxAttempts
  <2>1. CASE reply[w] = "refused"
    BY <2>1 DEF IInv, Answers
  <2>2. CASE reply[w] = "retryable"
    <3>1. ~ (rowCopy[w][d] + 1 < MaxAttempts)
      BY <2>2, <1>1 DEF MayRetry
    <3>2. rowCopy[w][d] + 1 <= tries[d]
      BY <2>2 DEF IInv, Answers
    <3>3. tries[d] \in 0..MaxAttempts
      BY <1>2 DEF IInv, TypeOK
    <3> QED
      BY <3>1, <3>2, <3>3, <1>2, LimitAssumption
  <2> QED
    BY <1>1, <2>1, <2>2
<1>6. TypeOK' /\ Rows' /\ Copies' /\ Answers'
  <2> HIDE DEF new
  <2> QED
    BY <1>1, <1>3, <1>4, <1>5, VerdictInv DEF Settled
<1>7. Counting'
  <2>1. state[e] # "gone" /\ endCopy[w][e] \in Copy
    BY <1>1, <1>2, <1>3 DEF IInv, Rows, Unqueued
  <2> HIDE DEF new
  <2>2. /\ stale \subseteq stale'
        /\ \A x \in Endpoint \ {e} : state'[x] = state[x] /\ fails'[x] = fails[x]
        /\ e \notin stale' => /\ endCopy[w][e] = Loaded(e)
                            /\ state'[e] = new.state /\ fails'[e] = new.fails
    BY <1>1, <1>2, <1>4, <2>1, WriteInv
  <2> SUFFICES ASSUME NEW x \in Endpoint \ stale'
               PROVE  fails'[x] = streak'[x] /\ (state'[x] = "active" => fails'[x] < FailureLimit)
    BY DEF Counting
  <2>3. CASE x = e
    <3>1. fails[e] = streak[e] /\ endCopy[w][e].fails = fails[e]
      BY <2>2, <2>3, <1>2 DEF IInv, Counting, Loaded
    <3> QED
      BY <3>1, <2>2, <2>3, <1>1, <1>3, <1>4
  <2>4. CASE x # e
    BY <2>2, <2>4, <1>1, <1>3 DEF IInv, Counting
  <2> QED
    BY <2>3, <2>4
<1> QED
  BY <1>6, <1>7 DEF IInv

(* A retry has attempts left, and is put back into the schedule.           *)
LEMMA RetryInv == ASSUME IInv, NEW w \in Pass, ~ Idle(w), RecordRetry(w) PROVE IInv'
<1> DEFINE d == Current(w)
           e == EndpointAt(w)
<1>1. /\ MayRetry(w) /\ status[d] # "none"
      /\ attempts' = [attempts EXCEPT ![d] = rowCopy[w][d] + 1]
      /\ ripe' = KeptDue({d})
      /\ Advance(w, endCopy[w][e])
      /\ UNCHANGED <<status, endVars, jobs, obsVars, userVars, cuts>>
  BY DEF RecordRetry, EndpointAt
<1>2. /\ d \in Delivery /\ e \in Endpoint
      /\ rowCopy[w][d] \in Nat /\ rowCopy[w][d] + 1 < MaxAttempts
  BY <1>1, AtRow DEF MayRetry
<1>3. /\ line \in Seq(Delivery) /\ IsInjective(line) /\ ripe \in 0..Len(line)
      /\ attempts \in [Delivery -> 0..MaxAttempts]
      /\ tries \in [Delivery -> 0..MaxAttempts]
      /\ endCopy[w][e] \in Copy
  BY <1>2 DEF IInv, TypeOK
<1>4. /\ line' \in Seq(Delivery) /\ IsInjective(line)'
      /\ Range(line)' = Range(line) \cup {d}
      /\ ripe' \in 0..Len(line')
  <2>1. PICK others \in InOrder(Kept({d})) :
           \E i \in KeptDue({d}) + 1 .. Len(others) + 1 : line' = InsertAt(others, i, d)
    BY DEF RecordRetry
  <2>2. PICK i \in KeptDue({d}) + 1 .. Len(others) + 1 : line' = InsertAt(others, i, d)
    BY <2>1
  <2>3. /\ others \in Seq(Delivery) /\ IsInjective(others)
        /\ Range(others) = Range(line) \ {d}
        /\ KeptDue({d}) \in 0..Len(others)
    BY <1>2, <1>3, UnscheduleTakes
  <2>4. i \in 1 .. Len(others) + 1
    BY <2>3
  <2>5. /\ line' \in Seq(Delivery) /\ IsInjective(line')
        /\ Range(line') = Range(others) \cup {d}
        /\ Len(line') = Len(others) + 1
    BY <1>2, <2>2, <2>3, <2>4, InsertAdds
  <2>6. ripe' \in 0..Len(line')
    BY <1>1, <2>3, <2>5
  <2>7. Range(line') = Range(line) \cup {d}
    BY <2>3, <2>5
  <2> QED
    BY <2>5, <2>6, <2>7 DEF IsInjective, Range
<1>5. \A x \in Delivery : attempts'[x] <= tries[x]
  <2>1. rowCopy[w][d] + 1 <= tries[d]
    BY <1>1 DEF IInv, Answers, MayRetry
  <2> QED
    BY <2>1, <1>1, <1>2, <1>3 DEF IInv, Copies
<1>6. /\ todo' \in [Pass -> Seq(Delivery)]
      /\ rowCopy' \in [Pass -> [Delivery -> Nat]]
      /\ endCopy' \in [Pass -> [Endpoint -> Copy]]
      /\ reply' \in [Pass -> Replies]
      /\ Copies' /\ Answers'
  BY <1>1, <1>3, <1>5, AdvanceInv DEF obsVars
<1>7. TypeOK'
  <2>1. attempts' \in [Delivery -> 0..MaxAttempts]
    BY <1>1, <1>2, <1>3, LimitAssumption
  <2> QED
    BY <2>1, <1>1, <1>4, <1>6 DEF IInv, TypeOK, endVars, obsVars, userVars
<1>8. Rows'
  <2>1. /\ attempts'[d] = rowCopy[w][d] + 1
        /\ \A x \in Delivery \ {d} : attempts'[x] = attempts[x]
    BY <1>1, <1>2, <1>3
  <2> QED
    BY <2>1, <1>1, <1>2, <1>4
    DEF IInv, Rows, PendingIsScheduled, SettledOnEvidence, Unqueued, Pending, Range,
        endVars, obsVars
<1>9. Counting'
  BY <1>1 DEF IInv, Counting, endVars, obsVars
<1> QED
  BY <1>6, <1>7, <1>8, <1>9 DEF IInv

(* A pass that ends without a record keeps what is recorded.               *)
LEMMA EndInv ==
    ASSUME IInv, NEW w \in Pass, Close(w), cuts' \in 0..MaxCuts,
           UNCHANGED <<rowVars, ripe, endVars, jobs, obsVars, userVars>>
    PROVE  IInv'
<1>1. \A d \in Delivery : attempts'[d] <= tries[d]
  BY DEF IInv, Copies, rowVars
<1>2. /\ todo' \in [Pass -> Seq(Delivery)]
      /\ rowCopy' \in [Pass -> [Delivery -> Nat]]
      /\ endCopy' \in [Pass -> [Endpoint -> Copy]]
      /\ reply' \in [Pass -> Replies]
      /\ Copies' /\ Answers'
  BY <1>1, CloseInv DEF obsVars
<1>3. TypeOK'
  BY <1>2 DEF IInv, TypeOK, IsInjective, rowVars, endVars, obsVars, userVars
<1>4. Rows' /\ Counting'
  BY DEF IInv, Rows, PendingIsScheduled, SettledOnEvidence, Unqueued, Counting, Pending, Range,
         rowVars, endVars, obsVars
<1> QED
  BY <1>2, <1>3, <1>4 DEF IInv

(* What raised leaves its row as it was, and the pass goes on.             *)
LEMMA PassOverInv == ASSUME IInv, NEW w \in Pass, PassOver(w) PROVE IInv'
<1>1. /\ ~ Idle(w)
      /\ Advance(w, endCopy[w][EndpointAt(w)])
      /\ UNCHANGED <<rowVars, ripe, endVars, jobs, obsVars, userVars, cuts>>
  BY DEF PassOver
<1>2. endCopy[w][EndpointAt(w)] \in Copy
  BY <1>1, AtRow DEF IInv, TypeOK
<1>3. \A d \in Delivery : attempts'[d] <= tries[d]
  BY <1>1 DEF IInv, Copies, rowVars
<1>4. /\ todo' \in [Pass -> Seq(Delivery)]
      /\ rowCopy' \in [Pass -> [Delivery -> Nat]]
      /\ endCopy' \in [Pass -> [Endpoint -> Copy]]
      /\ reply' \in [Pass -> Replies]
      /\ Copies' /\ Answers'
  BY <1>1, <1>2, <1>3, AdvanceInv DEF obsVars
<1>5. TypeOK'
  BY <1>1, <1>4 DEF IInv, TypeOK, IsInjective, rowVars, endVars, obsVars, userVars
<1>6. Rows' /\ Counting'
  BY <1>1
  DEF IInv, Rows, PendingIsScheduled, SettledOnEvidence, Unqueued, Counting, Pending, Range,
      rowVars, endVars, obsVars
<1> QED
  BY <1>4, <1>5, <1>6 DEF IInv

(* Every step of a pass keeps the invariant.                               *)
LEMMA PassInv == ASSUME IInv, NEW w \in Pass, PassStep(w) \/ Cut(w) PROVE IInv'
<1>1. CASE (\E d \in Delivery : StartJob(w, d)) \/ StartSweep(w)
  BY <1>1, StartInv
<1>2. CASE Attempt(w)
  BY <1>2, AttemptInv
<1>3. CASE Record(w)
  BY <1>3, SuccessInv, RetryInv, FailureInv DEF Record
<1>4. CASE RecordGone(w) \/ Cut(w)
  <2>1. /\ Close(w) /\ cuts' \in 0..MaxCuts
        /\ UNCHANGED <<rowVars, ripe, endVars, jobs, obsVars, userVars>>
    BY <1>4, LimitAssumption DEF RecordGone, Cut, IInv, TypeOK
  <2> QED
    BY <2>1, EndInv
<1>5. CASE PassOver(w)
  BY <1>5, PassOverInv
<1> QED
  BY <1>1, <1>2, <1>3, <1>4, <1>5 DEF PassStep

-----------------------------------------------------------------------------
(* Users and time.                                                         *)

(* A request that flushes what it loaded, whenever that was, keeps the     *)
(* invariant if it restarts the count or leaves it alone.                  *)
LEMMA FlushInv ==
    ASSUME IInv, NEW u \in Request, NEW f \in edit[u], NEW new \in Copy, Flush(u, f, new),
           new.state # f.copy.state => new.state # "gone",
           \/ new.fails = 0 /\ Restarts(f.endpoint)
           \/ new.fails = f.copy.fails /\ new.state # "active" /\ UNCHANGED streak
    PROVE  IInv'
<1> DEFINE e == f.endpoint
<1>1. /\ e \in Endpoint /\ f.copy \in Copy
      /\ edit \in [Request -> SUBSET [endpoint : Endpoint, copy : Copy]]
      /\ streak \in [Endpoint -> Nat]
  BY DEF IInv, TypeOK
<1>2. /\ state[e] # "gone" /\ WriteEndpoint(f.copy, e, new)
      /\ edit' = [edit EXCEPT ![u] = {}]
      /\ UNCHANGED <<rowVars, ripe, jobs, passVars, accepted, tries, cuts, turns>>
  BY DEF Flush, Finish
<1>3. /\ state' \in [Endpoint -> States] /\ fails' \in [Endpoint -> Nat]
      /\ stale' \subseteq Endpoint /\ stale \subseteq stale'
      /\ \A x \in Endpoint : state'[x] = "gone" <=> state[x] = "gone"
      /\ \A x \in Endpoint \ {e} : state'[x] = state[x] /\ fails'[x] = fails[x]
      /\ e \notin stale' => /\ f.copy = Loaded(e)
                          /\ state'[e] = new.state /\ fails'[e] = new.fails
  BY <1>1, <1>2, WriteInv
<1>4. streak' \in [Endpoint -> Nat] /\ \A x \in Endpoint \ {e} : streak'[x] = streak[x]
  BY <1>1 DEF Restarts
<1>5. TypeOK'
  BY <1>1, <1>2, <1>3, <1>4 DEF IInv, TypeOK, IsInjective, rowVars, passVars
<1>6. Rows'
  BY <1>2, <1>3, EndpointAssumption
  DEF IInv, Rows, PendingIsScheduled, SettledOnEvidence, Unqueued, Pending, Range, rowVars
<1>7. Copies' /\ Answers'
  BY <1>2 DEF IInv, Copies, Answers, Current, Range, rowVars, passVars
<1>8. Counting'
  <2> SUFFICES ASSUME NEW x \in Endpoint \ stale'
               PROVE  fails'[x] = streak'[x] /\ (state'[x] = "active" => fails'[x] < FailureLimit)
    BY DEF Counting
  <2>1. CASE x # e
    BY <2>1, <1>3, <1>4 DEF IInv, Counting
  <2>2. CASE x = e
    <3>1. f.copy.fails = fails[e] /\ fails[e] = streak[e]
      BY <2>2, <1>1, <1>3 DEF IInv, Counting, Loaded
    <3> QED
      BY <2>2, <3>1, <1>1, <1>3, LimitAssumption DEF Restarts
  <2> QED
    BY <2>1, <2>2
<1> QED
  BY <1>5, <1>6, <1>7, <1>8 DEF IInv

(* A deletion takes its rows with it.                                      *)
LEMMA DeleteInv ==
    ASSUME IInv, NEW u \in Request, NEW f \in edit[u], DeleteEndpoint(u, f)
    PROVE  IInv'
<1> DEFINE e == f.endpoint
           its == {d \in Delivery : EndpointOf[d] = e}
<1>1. /\ e \in Endpoint /\ state \in [Endpoint -> States]
      /\ edit \in [Request -> SUBSET [endpoint : Endpoint, copy : Copy]]
  BY DEF IInv, TypeOK
<1>2. /\ state' = [state EXCEPT ![e] = "gone"]
      /\ status' = [d \in Delivery |-> IF EndpointOf[d] = e THEN "none" ELSE status[d]]
      /\ Unschedule(its)
      /\ edit' = [edit EXCEPT ![u] = {}]
      /\ UNCHANGED <<attempts, fails, jobs, passVars, obsVars, cuts, turns>>
  BY DEF DeleteEndpoint, Finish, obsVars
<1>3. /\ line' \in Seq(Delivery) /\ IsInjective(line)'
      /\ Range(line)' = Range(line) \ its
      /\ ripe' \in 0..Len(line')
  BY <1>2, UnscheduleInv
<1>4. TypeOK'
  BY <1>1, <1>2, <1>3 DEF IInv, TypeOK, States, passVars, obsVars
<1>5. Rows'
  BY <1>1, <1>2, <1>3, EndpointAssumption
  DEF IInv, TypeOK, Rows, PendingIsScheduled, SettledOnEvidence, Unqueued, Pending, Range, obsVars
<1>6. Copies' /\ Answers' /\ Counting'
  BY <1>1, <1>2
  DEF IInv, Copies, Answers, Counting, Current, Range, passVars, obsVars
<1> QED
  BY <1>4, <1>5, <1>6 DEF IInv

(* A request that loads, or is left without a write, keeps everything.     *)
LEMMA ReadInv ==
    ASSUME IInv, NEW u \in Request,
           (\E e \in Endpoint : LoadEndpoint(u, e)) \/ LeaveAsIs(u)
    PROVE  IInv'
<1>1. UNCHANGED <<rowVars, ripe, endVars, jobs, passVars, obsVars, cuts>>
  BY DEF LoadEndpoint, LeaveAsIs, Finish, obsVars
<1>2. /\ edit' \in [Request -> SUBSET [endpoint : Endpoint, copy : Copy]]
      /\ turns' \in 0..MaxTurns
  <2>1. /\ edit \in [Request -> SUBSET [endpoint : Endpoint, copy : Copy]]
        /\ state \in [Endpoint -> States] /\ fails \in [Endpoint -> Nat]
        /\ turns \in 0..MaxTurns
    BY DEF IInv, TypeOK
  <2>2. ASSUME NEW e \in Endpoint, LoadEndpoint(u, e)
        PROVE  /\ edit' \in [Request -> SUBSET [endpoint : Endpoint, copy : Copy]]
               /\ turns' \in 0..MaxTurns
    <3>1. [endpoint |-> e, copy |-> Loaded(e)] \in [endpoint : Endpoint, copy : Copy]
      BY <2>1 DEF Loaded, Copy
    <3> QED
      BY <2>1, <2>2, <3>1, LimitAssumption DEF LoadEndpoint
  <2>3. CASE LeaveAsIs(u)
    BY <2>1, <2>3 DEF LeaveAsIs, Finish
  <2> QED
    BY <2>2, <2>3
<1>3. TypeOK'
  BY <1>1, <1>2 DEF IInv, TypeOK, IsInjective, rowVars, endVars, passVars, obsVars
<1>4. Rows' /\ Counting'
  BY <1>1
  DEF IInv, Rows, PendingIsScheduled, SettledOnEvidence, Unqueued, Counting, Pending, Range,
      rowVars, endVars, obsVars
<1>5. Copies' /\ Answers'
  BY <1>1 DEF IInv, Copies, Answers, Current, Range, rowVars, passVars, obsVars
<1> QED
  BY <1>3, <1>4, <1>5 DEF IInv

(* Every step of a request keeps the invariant.                            *)
LEMMA UserInv == ASSUME IInv, NEW u \in Request, UserStep(u) PROVE IInv'
<1>1. CASE (\E e \in Endpoint : LoadEndpoint(u, e)) \/ \E f \in edit[u] : LeaveAsIs(u)
  BY <1>1, ReadInv
<1>2. ASSUME NEW f \in edit[u], DeleteEndpoint(u, f) PROVE IInv'
  BY <1>2, DeleteInv
<1>3. ASSUME NEW f \in edit[u], Enable(u, f) \/ Disable(u, f) \/ UpdateUrl(u, f) PROVE IInv'
  <2>1. f.copy \in Copy
    BY DEF IInv, TypeOK
  <2>2. CASE Enable(u, f)
    <3>1. [state |-> "active", fails |-> 0] \in Copy
      BY DEF Copy, States
    <3> QED
      BY <2>2, <3>1, FlushInv DEF Enable
  <2>3. CASE Disable(u, f)
    <3> DEFINE new == [f.copy EXCEPT !.state = "disabled_by_user"]
    <3>1. /\ new \in Copy /\ new.state = "disabled_by_user" /\ new.fails = f.copy.fails
          /\ Flush(u, f, new) /\ UNCHANGED streak
      BY <2>1, <2>3 DEF Disable, Copy, States
    <3> HIDE DEF new
    <3> QED
      BY <3>1, FlushInv
  <2>4. CASE UpdateUrl(u, f)
    <3> DEFINE new == [f.copy EXCEPT !.fails = 0]
    <3>1. /\ new \in Copy /\ new.state = f.copy.state /\ new.fails = 0
          /\ Flush(u, f, new) /\ Restarts(f.endpoint)
      BY <2>1, <2>4 DEF UpdateUrl, Copy
    <3> HIDE DEF new
    <3> QED
      BY <3>1, FlushInv
  <2> QED
    BY <1>3, <2>2, <2>3, <2>4
<1> QED
  BY <1>1, <1>2, <1>3 DEF UserStep

(* And so does every step.                                                 *)
LEMMA StepInv == IInv /\ [Next]_vars => IInv'
<1> SUFFICES ASSUME IInv, [Next]_vars PROVE IInv'
  OBVIOUS
<1>1. CASE \E d \in Delivery : QueueDelivery(d)
  BY <1>1, QueueInv
<1>2. CASE \E w \in Pass : PassStep(w) \/ Cut(w)
  BY <1>2, PassInv
<1>3. CASE \E u \in Request : UserStep(u)
  BY <1>3, UserInv
<1>4. CASE ComeDue \/ UNCHANGED vars
  <2>1. /\ ripe' \in 0..Len(line)
        /\ UNCHANGED <<rowVars, endVars, jobs, passVars, obsVars, userVars, cuts>>
    BY <1>4 DEF ComeDue, IInv, TypeOK, vars, rowVars, endVars, passVars, obsVars, userVars
  <2>2. TypeOK'
    BY <2>1 DEF IInv, TypeOK, IsInjective, rowVars, endVars, passVars, obsVars, userVars
  <2>3. Rows' /\ Counting'
    BY <2>1
    DEF IInv, Rows, PendingIsScheduled, SettledOnEvidence, Unqueued, Counting, Pending, Range,
        rowVars, endVars, obsVars
  <2>4. Copies' /\ Answers'
    BY <2>1 DEF IInv, Copies, Answers, Current, Range, rowVars, passVars, obsVars
  <2> QED
    BY <2>2, <2>3, <2>4 DEF IInv
<1> QED
  BY <1>1, <1>2, <1>3, <1>4 DEF Next

-----------------------------------------------------------------------------
(* The invariant holds throughout.                                         *)
THEOREM Invariance == Spec => []IInv
  BY InitInv, StepInv, PTL DEF Spec

(* Rows, schedule, endpoints and the copies of passes keep their types.    *)
THEOREM TypeCorrect == Spec => []TypeOK
<1>1. IInv => TypeOK
  BY DEF IInv
<1> QED
  BY <1>1, Invariance, PTL

(* A row still to be delivered has its next attempt scheduled, whatever    *)
(* jobs, sweeps and users do to it at once: nothing is forgotten.          *)
THEOREM NothingForgotten == Spec => []PendingIsScheduled
<1>1. IInv => PendingIsScheduled
  BY DEF IInv, Rows
<1> QED
  BY <1>1, Invariance, PTL

(* A delivered row was accepted, and a failed one refused or attempted as  *)
(* often as the settings say, by however many passes.                      *)
THEOREM VerdictsHaveEvidence == Spec => []SettledOnEvidence
<1>1. IInv => SettledOnEvidence
  BY DEF IInv, Rows
<1> QED
  BY <1>1, Invariance, PTL

(* An endpoint that neither a pass nor a request wrote from an outdated    *)
(* copy has counted its failures in a row, and is off once they reach the  *)
(* limit: the check a new URL waits for cannot cost it the restart unseen. *)
THEOREM FailuresAreCounted == Spec => []CountsConsecutive
<1>1. IInv => CountsConsecutive
  BY DEF IInv, Counting, CountsConsecutive
<1> QED
  BY <1>1, Invariance, PTL

-----------------------------------------------------------------------------
(* Destinations.                                                           *)

(* The addresses a delivery is in hand of are all reachable under the      *)
(* settings in force: a restart takes the delivery with it.                *)
DestInv ==
    /\ answers \in [Hosts -> Seq(Addresses)]
    /\ url \in Urls \cup {NoUrl}
    /\ delivery # NoDelivery =>
           /\ delivery.addresses \in Seq(Addresses) /\ delivery.addresses # <<>>
           /\ \A address \in Range(delivery.addresses) : Reachable(address)
    /\ PostsWhereAllowed

(* One that is allowed is reachable: a mapped address stands for the one   *)
(* in it, and an address in the operator's range is only taken as itself.  *)
LEMMA AllowedIsReachable ==
    ASSUME NEW address \in Addresses, address # "unreadable", AddressAllowed(address)
    PROVE  Reachable(address)
<1>1. IsPublic(address) => address \in {"public", "mapped public"}
  BY DEF IsPublic, Unmapped, Addresses
<1> QED BY <1>1 DEF AddressAllowed, Reachable

(* Names answer with a public address at first; nothing is registered.     *)
LEMMA DestInitInv == DestInit => DestInv
<1>1. <<"public">> \in Seq(Addresses)
  BY DEF Addresses
<1> QED BY <1>1 DEF DestInit, DestInv, PostsWhereAllowed

(* A URL that validates has an address, and all it has are reachable.      *)
LEMMA ValidatedIsReachable ==
    ASSUME DestInv, NEW u \in Urls, Validates(u)
    PROVE  /\ answers[u.host] \in Seq(Addresses) /\ answers[u.host] # <<>>
           /\ \A address \in Range(answers[u.host]) : Reachable(address)
<1> DEFINE seq == answers[u.host]
<1>1. seq \in Seq(Addresses) /\ seq # <<>>
  BY DEF DestInv, Urls, Validates
<1>2. seq \in [1..Len(seq) -> Addresses]
  BY <1>1, LenProperties
<1>3. ASSUME NEW address \in Range(seq) PROVE Reachable(address)
  <2>1. address \in Addresses
    BY <1>2 DEF Range
  <2>2. address # "unreadable" /\ AddressAllowed(address)
    BY DEF Validates
  <2> QED BY <2>1, <2>2, AllowedIsReachable
<1> QED BY <1>1, <1>3

(* Every step keeps the invariant.                                         *)
LEMMA DestStepInv == DestInv /\ [DestNext]_destVars => DestInv'
<1> SUFFICES ASSUME DestInv, [DestNext]_destVars PROVE DestInv'
  OBVIOUS
<1>1. ASSUME NEW h \in Hosts, NEW seq \in Seq(Addresses), Resolves(h, seq) PROVE DestInv'
  BY <1>1 DEF Resolves, DestInv, PostsWhereAllowed, Reachable
<1>2. ASSUME NEW u \in Urls, SetUrl(u) PROVE DestInv'
  BY <1>2 DEF SetUrl, DestInv, PostsWhereAllowed, Reachable
<1>3. CASE Validate
  <2>1. url \in Urls /\ delivery'.addresses = answers[url.host]
    BY <1>3 DEF Validate, DestInv
  <2>2. /\ answers[url.host] \in Seq(Addresses) /\ answers[url.host] # <<>>
        /\ \A address \in Range(answers[url.host]) : Reachable(address)
    BY <1>3, <2>1, ValidatedIsReachable DEF Validate
  <2> QED BY <1>3, <2>1, <2>2 DEF Validate, DestInv, PostsWhereAllowed, Reachable
<1>4. CASE Post
  <2> DEFINE seq == delivery.addresses
  <2>1. seq \in Seq(Addresses) /\ seq # <<>>
    BY <1>4 DEF Post, DestInv
  <2>2. Len(seq) \in Nat \ {0} /\ DOMAIN seq = 1..Len(seq)
    BY <2>1, EmptySeq, LenProperties
  <2>4. Pinned(delivery) \in Range(delivery.addresses)
    BY <2>2 DEF Pinned, Range
  <2>3. \A address \in Range(delivery.addresses) : Reachable(address)
    BY <1>4 DEF Post, DestInv
  <2>5. /\ posted' = {[to |-> Pinned(delivery), addresses |-> seq]}
        /\ delivery' = NoDelivery /\ UNCHANGED <<policy, answers, url>>
    BY <1>4 DEF Post
  <2>6. Reachable(Pinned(delivery))
    BY <2>3, <2>4
  <2>7. \A p \in posted' : /\ Reachable(p.to)'
                           /\ \A address \in Range(p.addresses) : Reachable(address)'
    <3>1. \A p \in posted' : p.to = Pinned(delivery) /\ p.addresses = seq
      BY <2>5
    <3> QED BY <2>3, <2>5, <2>6, <3>1 DEF Reachable
  <2> QED BY <2>5, <2>7 DEF DestInv, PostsWhereAllowed
<1>5. ASSUME NEW p \in Policies, Restart(p) PROVE DestInv'
  BY <1>5 DEF Restart, DestInv, PostsWhereAllowed
<1>6. CASE UNCHANGED destVars
  BY <1>6 DEF destVars, DestInv, PostsWhereAllowed, Reachable
<1>7. UNION {[1..n -> Addresses] : n \in 0..MaxAnswers} \subseteq Seq(Addresses)
  BY SeqDef, MaxAnswersAssumption
<1> QED BY <1>1, <1>2, <1>3, <1>4, <1>5, <1>6, <1>7 DEF DestNext

(* A request leaves only for an address the settings in force allow, and   *)
(* of a name all of whose addresses they allow.                            *)
THEOREM PostsStayAllowed == DestSpec => []PostsWhereAllowed
<1>1. DestInv => PostsWhereAllowed
  BY DEF DestInv
<1> QED BY <1>1, DestInitInv, DestStepInv, PTL DEF DestSpec

=============================================================================
