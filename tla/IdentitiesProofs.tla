--------------------------- MODULE IdentitiesProofs ---------------------------
(***************************************************************************)
(* Safety of Identities for every set of projects, values, accounts and    *)
(* requests, every assignment of accounts, and every number of starts and  *)
(* failures.                                                               *)
(*                                                                         *)
(* The inductive invariant, IInv, says beside the types what a request has *)
(* in hand at each place (Hands); that a row has at most one open          *)
(* transaction's lock, and is under it as that transaction loaded it       *)
(* (Locks); and, until something excuses it, that no two requests are      *)
(* about one value, that a request knows how SES and the rows stand        *)
(* (Clear), that a row's identity is at SES unless its removal has just    *)
(* dropped it (Kept), and that what is at SES has a row or is being added  *)
(* (Backed).                                                               *)
(***************************************************************************)
EXTENDS Identities, TLAPS

Adding == {"creating", "adopting", "finding"}
Removing == {"counting", "deleting", "dropping"}

(* What a request has in hand, by its kind and by where it is.             *)
InHand(r) ==
    LET o == op[r] IN
    /\ o \in Op
    /\ at[r] \in Adding => o.kind = "add"
    /\ at[r] = "reading" => o.kind = "refresh"
    /\ at[r] \in Removing => o.kind = "remove"
    /\ at[r] = "saving" => o.kind # "remove"
    /\ at[r] = "dropping" => o.got = Nothing
    /\ o.kind = "add" => o.id \in 1..MaxStarts
    /\ o.kind # "add" => o.saw \in Row
    /\ o.kind # "remove" /\ at[r] \in {"finding", "saving", "committing"} => o.got \in Statuses

Hands == /\ \A r \in Busy : InHand(r)
         /\ pass = "writing" => asking # Nothing

(* What is locked has one holder, and is as the holder loaded it.          *)
Locks ==
    /\ \A r, g \in Request : r # g => LockedBy(r) \cap LockedBy(g) = {}
    /\ \A r \in Request : LockedBy(r) \cap LockedByPass = {}
    /\ \A r \in Request :
          at[r] = "committing" /\ op[r].kind # "remove" => Same(op[r].key, op[r].saw)
    /\ \A w \in flushed : Same(w.key, w.saw)

(* A request that has made its identity, one that found itself the last to *)
(* name it, and one that has dropped it and not yet committed.             *)
Made(r) == op[r].kind = "add" /\ at[r] \in {"finding", "saving", "committing"}
Last(r) ==
    /\ op[r].kind = "remove" /\ op[r].got = Nothing
    /\ at[r] \in {"deleting", "dropping", "committing"}
Dropped(r) == Last(r) /\ at[r] = "committing"

(* Nobody else is at work on a value.                                      *)
Alone(r, v) == \A g \in Busy : op[g].key[2] = v => g = r

(* How SES and the rows stand, as far as a request depends on it.          *)
Clear(r) ==
    LET o == op[r]  k == op[r].key IN
    /\ o.kind # "add" \/ at[r] \in {"saving", "committing"} => Same(k, o.saw)
    /\ Made(r) \/ at[r] = "adopting" => AtSes(k) # "absent"
    /\ Last(r) => OtherReferences(o) = {}
    /\ o.kind = "remove" /\ at[r] \in {"deleting", "committing"} /\ o.got # Nothing =>
           OtherReferences(o) # {}
    /\ Dropped(r) => AtSes(k) = "absent"

Kept(k) == Held(k) => AtSes(k) # "absent" \/ \E r \in Busy : Dropped(r) /\ op[r].key = k

Backed(a, v) ==
    ses[a][v] # "absent" =>
        \/ \E p \in Project : AccountOf[p] = a /\ Held(<<p, v>>)
        \/ \E r \in Busy : Made(r) /\ op[r].key[2] = v /\ AccountOf[op[r].key[1]] = a

Agreed ==
    /\ \A r \in Busy : Alone(r, op[r].key[2]) /\ Clear(r)
    /\ \A k \in Key : Kept(k)
    /\ OneAccountForAll => \A a \in Account, v \in Value : Backed(a, v)

Sound == TypeOK /\ Hands /\ Locks

IInv == Sound /\ (~ excused => Agreed)

-----------------------------------------------------------------------------
(* Types, hands and locks.                                                 *)

(* The invariant holds initially: nothing is held, at SES or under way.    *)
LEMMA InitInv == Init => IInv
<1> SUFFICES ASSUME Init PROVE IInv
  OBVIOUS
<1> USE DEF Init, Busy, Ended
<1>1. TypeOK
  <2>1. rows \in [Key -> Row \cup {Nothing}]
    OBVIOUS
  <2>2. ses \in [Account -> [Value -> Statuses \cup {"absent"}]]
    OBVIOUS
  <2>3. /\ at \in [Request -> Places] /\ op \in [Request -> Op \cup {Nothing}]
        /\ pass \in Passing
    BY DEF Places, Passing
  <2>4. starts \in 0..MaxStarts /\ failures \in 0..MaxFailures
    BY BoundAssumption
  <2> QED BY <2>1, <2>2, <2>3, <2>4 DEF TypeOK
<1>2. Hands /\ Locks
  BY DEF Hands, Locks, LockedBy, LockedByPass
<1>3. Agreed
  BY DEF Agreed, Kept, Backed, Held, Key
<1> QED BY <1>1, <1>2, <1>3 DEF IInv, Sound

(* What a step of one request leaves alone.                                *)
LEMMA OneMoves ==
    ASSUME TypeOK, NEW r \in Request, NEW s \in Places, NEW o \in Op \cup {Nothing},
           at' = [at EXCEPT ![r] = s], op' = [op EXCEPT ![r] = o]
    PROVE  /\ at' \in [Request -> Places] /\ op' \in [Request -> Op \cup {Nothing}]
           /\ at'[r] = s /\ op'[r] = o
           /\ \A g \in Request \ {r} : at'[g] = at[g] /\ op'[g] = op[g]
  BY DEF TypeOK

(* A step of one request that writes no row keeps what is in hand and what *)
(* is locked.                                                              *)
LEMMA OneHolds ==
    ASSUME Sound, NEW r \in Request, NEW s \in Places, NEW o \in Op \cup {Nothing},
           at' = [at EXCEPT ![r] = s], op' = [op EXCEPT ![r] = o],
           s \notin Ended => InHand(r)',
           s \in {"dropping", "committing"} =>
               op[r] # Nothing /\ Free(r, o.key)
               /\ (s = "committing" /\ o.kind # "remove" => Same(o.key, o.saw)),
           UNCHANGED <<rows, passVars>>
    PROVE  /\ at' \in [Request -> Places] /\ op' \in [Request -> Op \cup {Nothing}]
           /\ Hands' /\ Locks'
<1>1. /\ at' \in [Request -> Places] /\ op' \in [Request -> Op \cup {Nothing}]
      /\ at'[r] = s /\ op'[r] = o
      /\ \A g \in Request \ {r} : at'[g] = at[g] /\ op'[g] = op[g]
  BY OneMoves DEF Sound
<1>2. Hands'
  BY <1>1 DEF Sound, Hands, Busy, InHand, passVars
<1>3. ASSUME NEW g \in Request \ {r} PROVE LockedBy(g)' = LockedBy(g)
  BY <1>1 DEF LockedBy
<1>4. LockedByPass' = LockedByPass
  BY DEF LockedByPass, passVars
<1>5. LockedBy(r)' \subseteq IF s \in {"dropping", "committing"} THEN {o.key} ELSE {}
  BY <1>1 DEF LockedBy
<1>6. \A g \in Request \ {r} : LockedBy(r)' \cap LockedBy(g)' = {}
  BY <1>3, <1>5 DEF Free
<1>7. LockedBy(r)' \cap LockedByPass' = {}
  BY <1>4, <1>5 DEF Free
<1>8. \A k, w : Same(k, w)' = Same(k, w)
  BY DEF Same, Held
<1>9. Locks'
  <2>1. \A g, h \in Request : g # h => LockedBy(g)' \cap LockedBy(h)' = {}
    <3> SUFFICES ASSUME NEW g \in Request, NEW h \in Request, g # h
                 PROVE  LockedBy(g)' \cap LockedBy(h)' = {}
      OBVIOUS
    <3>1. CASE g = r \/ h = r
      BY <1>6, <3>1
    <3>2. CASE g # r /\ h # r
      BY <1>3, <3>2 DEF Sound, Locks
    <3> QED BY <3>1, <3>2
  <2>2. \A g \in Request : LockedBy(g)' \cap LockedByPass' = {}
    BY <1>3, <1>4, <1>7 DEF Sound, Locks
  <2>3. \A g \in Request :
           at'[g] = "committing" /\ op'[g].kind # "remove" => Same(op[g].key, op[g].saw)'
    BY <1>1 DEF Sound, Locks, Same, Held
  <2>4. \A w \in flushed' : Same(w.key, w.saw)'
    BY <1>8 DEF Sound, Locks, passVars
  <2> QED BY <2>1, <2>2, <2>3, <2>4 DEF Locks
<1> QED BY <1>1, <1>2, <1>9

(* A request begins with what its kind asks for.                           *)
LEMMA RequestsSound == ASSUME Sound, Requests PROVE Sound'
<1> PICK r \in Request, k \in Key : Add(r, k) \/ Refresh(r, k) \/ RemoveIdentity(r, k)
  BY DEF Requests
<1>1. ASSUME NEW kind \in {"add", "refresh", "remove"}, NEW s \in {"creating", "reading", "counting"},
             Begin(r, kind, k), Go(r, s),
             kind = "add" <=> s = "creating", kind = "refresh" <=> s = "reading",
             kind # "add" => Held(k)
      PROVE  Sound'
  <2> DEFINE o == [kind |-> kind, key |-> k, saw |-> IF kind = "add" THEN Nothing ELSE rows[k],
                   got |-> Nothing, id |-> IF kind = "add" THEN starts' ELSE 0]
  <2>1. starts' \in 1..MaxStarts /\ starts' \in 0..MaxStarts
    <3>1. starts \in 0..MaxStarts /\ starts < MaxStarts /\ starts' = starts + 1
      BY <1>1 DEF Begin, Sound, TypeOK
    <3> QED BY <3>1, BoundAssumption
  <2>2. kind # "add" => rows[k] \in Row
    BY <1>1 DEF Held, Sound, TypeOK
  <2>3. o \in Op /\ (kind = "add" => o.id \in 1..MaxStarts) /\ (kind # "add" => o.saw \in Row)
    <3>1. o.saw \in Row \cup {Nothing} /\ o.id \in 0..MaxStarts
      BY <2>1, <2>2, BoundAssumption
    <3> QED BY <2>1, <2>2, <3>1 DEF Op
  <2>4. op' = [op EXCEPT ![r] = o] /\ at' = [at EXCEPT ![r] = s]
    BY <1>1 DEF Begin, Go
  <2>5. s \in Places
    BY DEF Places
  <2>6. op'[r] = o /\ at'[r] = s
    BY <2>4 DEF Sound, TypeOK
  <2>7. InHand(r)'
    BY <1>1, <2>3, <2>6 DEF InHand, Adding, Removing
  <2>8. UNCHANGED <<rows, due, ses, passVars, failures>>
    BY <1>1 DEF Begin
  <2>9. /\ at' \in [Request -> Places] /\ op' \in [Request -> Op \cup {Nothing}]
        /\ Hands' /\ Locks'
    <3> HIDE DEF o
    <3> QED BY <2>3, <2>4, <2>5, <2>7, <2>8, OneHolds
  <2>10. TypeOK'
    BY <1>1, <2>1, <2>8, <2>9 DEF Sound, TypeOK, Begin, passVars
  <2> QED BY <2>9, <2>10 DEF Sound
<1> QED BY <1>1 DEF Add, Refresh, RemoveIdentity

(* One that leaves has nothing in hand.                                    *)
LEMMA LeaveSound ==
    ASSUME Sound, NEW r \in Request, NEW s \in Ended, Leave(r, s),
           UNCHANGED <<rows, due, ses, passVars, starts, usable>>,
           failures' \in 0..MaxFailures, excused' \in BOOLEAN
    PROVE  Sound'
<1>1. s \in Places /\ s \notin {"dropping", "committing"}
  BY DEF Places, Ended
<1>2. /\ at' \in [Request -> Places] /\ op' \in [Request -> Op \cup {Nothing}]
      /\ Hands' /\ Locks'
  BY <1>1, OneHolds DEF Leave, Go
<1> QED BY <1>2 DEF Sound, TypeOK, passVars

(* A step of a request that goes on and writes no row.                     *)
GoesOn(r, s, o) ==
    /\ at' = [at EXCEPT ![r] = s] /\ op' = [op EXCEPT ![r] = o]
    /\ UNCHANGED <<rows, due, passVars, starts, usable, failures, excused>>

(* Every step of a request but its commit.                                 *)
Goes(r) ==
    Create(r) \/ Adopt(r) \/ Find(r) \/ Read(r) \/ Save(r) \/ CountReferences(r)
    \/ Delete(r) \/ DropAtSes(r)

(* Any of them but a refusal keeps the types, what is in hand and locked.  *)
LEMMA GoesSound ==
    ASSUME Sound, NEW r \in Request, Goes(r), at'[r] \notin Ended
    PROVE  Sound'
<1> DEFINE o == op[r]
<1>1. at[r] \notin Ended /\ InHand(r) /\ o \in Op
  BY DEF Goes, Create, Adopt, Find, Read, Save, CountReferences, Delete, DropAtSes, Ended,
         Sound, Hands, Busy, InHand
<1>2. o.key \in Key /\ AccountOf[o.key[1]] \in Account /\ o.key[2] \in Value
  BY <1>1, AccountAssumption DEF Op, Key
<1>3. AtSes(o.key) \in Statuses \cup {"absent"} /\ rows[o.key] \in Row \cup {Nothing}
  BY <1>2 DEF AtSes, Sound, TypeOK
<1>4. ASSUME NEW s \in Places \ Ended, NEW p \in Op, GoesOn(r, s, p), p.key = o.key,
             ses' \in [Account -> [Value -> Statuses \cup {"absent"}]],
             at'[r] = s /\ op'[r] = p => InHand(r)',
             s \in {"dropping", "committing"} =>
                Free(r, o.key) /\ (s = "committing" /\ p.kind # "remove" => Same(o.key, p.saw))
      PROVE  Sound'
  <2>1. at'[r] = s /\ op'[r] = p
    BY <1>4 DEF GoesOn, Sound, TypeOK
  <2>2. op[r] # Nothing
    BY <1>1, NothingAssumption
  <2>3. /\ at' \in [Request -> Places] /\ op' \in [Request -> Op \cup {Nothing}]
        /\ Hands' /\ Locks'
    <3>1. /\ at' = [at EXCEPT ![r] = s] /\ op' = [op EXCEPT ![r] = p]
          /\ UNCHANGED <<rows, passVars>>
      BY <1>4 DEF GoesOn
    <3>2. s \in {"dropping", "committing"} =>
             op[r] # Nothing /\ Free(r, p.key)
             /\ (s = "committing" /\ p.kind # "remove" => Same(p.key, p.saw))
      BY <1>4, <2>2
    <3>3. s \in Places /\ p \in Op \cup {Nothing} /\ InHand(r)'
      BY <1>4, <2>1
    <3> HIDE DEF o
    <3> QED BY <3>1, <3>2, <3>3, OneHolds
  <2>4. TypeOK'
    BY <1>4, <2>3 DEF Sound, TypeOK, GoesOn, passVars
  <2> QED BY <2>3, <2>4 DEF Sound
<1>5. /\ \A g \in Statuses \cup {Nothing} : [o EXCEPT !.got = g] \in Op
      /\ \A w \in Row \cup {Nothing} : [o EXCEPT !.saw = w] \in Op
  BY <1>1 DEF Op
<1>6. UNCHANGED op => op' = [op EXCEPT ![r] = o]
  BY DEF Sound, TypeOK
<1>7. \A g \in Statuses \cup {Nothing} :
          op' = [op EXCEPT ![r].got = g] => op' = [op EXCEPT ![r] = [o EXCEPT !.got = g]]
  BY DEF Sound, TypeOK
<1>8. CASE Create(r)
  <2>1. ses' \in [Account -> [Value -> Statuses \cup {"absent"}]]
    BY <1>2, <1>8 DEF Create, PutAtSes, Statuses, Sound, TypeOK
  <2>2. CASE AtSes(o.key) = "absent"
    <3> DEFINE p == [o EXCEPT !.got = "pending"]
    <3>1. p \in Op /\ p.key = o.key /\ p.kind = o.kind /\ p.id = o.id
      BY <1>1, <1>5 DEF Statuses, Op
    <3>2. GoesOn(r, "finding", p)
      BY <1>7, <1>8, <2>2 DEF Create, GoesOn, Go, Statuses
    <3>3. at'[r] = "finding" /\ op'[r] = p => InHand(r)'
      BY <1>1, <1>8, <3>1 DEF InHand, Adding, Removing, Create, Statuses, Op
    <3> QED BY <1>4, <2>1, <3>1, <3>2, <3>3 DEF Places, Ended
  <2>3. CASE AtSes(o.key) # "absent"
    <3>1. GoesOn(r, "adopting", o)
      BY <1>6, <1>8, <2>3 DEF Create, GoesOn, Go
    <3>2. at'[r] = "adopting" /\ op'[r] = o => InHand(r)'
      BY <1>1, <1>8 DEF InHand, Adding, Removing, Create
    <3> QED BY <1>1, <1>4, <2>1, <3>1, <3>2 DEF Places, Ended
  <2> QED BY <2>2, <2>3
<1>9. CASE Adopt(r)
  <2> DEFINE p == [o EXCEPT !.got = AtSes(o.key)]
  <2>1. AtSes(o.key) # "absent"
    BY <1>1, <1>9 DEF Adopt, Refuse, Leave, Go, Ended, Sound, TypeOK
  <2>2. p \in Op /\ p.key = o.key /\ p.kind = o.kind /\ p.id = o.id /\ p.got \in Statuses
    BY <1>1, <1>3, <1>5, <2>1 DEF Op
  <2>3. GoesOn(r, "finding", p) /\ UNCHANGED ses
    BY <1>3, <1>7, <1>9, <2>1 DEF Adopt, GoesOn, Go
  <2>4. at'[r] = "finding" /\ op'[r] = p => InHand(r)'
    BY <1>1, <1>9, <2>2 DEF InHand, Adding, Removing, Adopt
  <2> QED BY <1>4, <2>2, <2>3, <2>4 DEF Places, Ended, Sound, TypeOK
<1>10. CASE Find(r)
  <2> DEFINE p == [o EXCEPT !.saw = rows[o.key]]
  <2>1. p \in Op /\ p.key = o.key /\ p.kind = o.kind /\ p.id = o.id /\ p.got = o.got
    BY <1>1, <1>3, <1>5 DEF Op
  <2>2. GoesOn(r, "saving", p) /\ UNCHANGED ses
    BY <1>10 DEF Find, GoesOn, Go, Sound, TypeOK
  <2>3. at'[r] = "saving" /\ op'[r] = p => InHand(r)'
    BY <1>1, <1>10, <2>1 DEF InHand, Adding, Removing, Find
  <2> QED BY <1>4, <2>1, <2>2, <2>3 DEF Places, Ended, Sound, TypeOK
<1>11. CASE Read(r)
  <2> DEFINE g == IF AtSes(o.key) = "absent" THEN o.saw.status ELSE AtSes(o.key)
             p == [o EXCEPT !.got = g]
  <2>1. g \in Statuses
    <3>1. o.saw \in Row
      BY <1>1, <1>11 DEF InHand, Read
    <3>2. o.saw.status \in Statuses
      BY <3>1 DEF Row
    <3> QED BY <1>3, <3>2
  <2>2. /\ p \in Op /\ p.key = o.key /\ p.kind = o.kind /\ p.id = o.id /\ p.saw = o.saw
        /\ p.got \in Statuses
    BY <1>1, <1>5, <2>1 DEF Op
  <2>3. GoesOn(r, "saving", p) /\ UNCHANGED ses
    BY <1>7, <1>11, <2>1 DEF Read, GoesOn, Go
  <2>4. at'[r] = "saving" /\ op'[r] = p => InHand(r)'
    BY <1>1, <1>11, <2>2 DEF InHand, Adding, Removing, Read
  <2> QED BY <1>4, <2>2, <2>3, <2>4 DEF Places, Ended, Sound, TypeOK
<1>12. CASE Save(r)
  <2>1. Free(r, o.key) /\ Same(o.key, o.saw) /\ GoesOn(r, "committing", o) /\ UNCHANGED ses
    BY <1>1, <1>6, <1>12
    DEF Save, GoesOn, Go, Refuse, Leave, Ended, Sound, TypeOK
  <2>2. at'[r] = "committing" /\ op'[r] = o => InHand(r)'
    BY <1>1, <1>12 DEF InHand, Adding, Removing, Save
  <2> QED BY <1>1, <1>4, <2>1, <2>2 DEF Places, Ended, Sound, TypeOK
<1>13. CASE CountReferences(r)
  <2> DEFINE g == IF OtherReferences(o) = {} THEN Nothing ELSE "success"
             p == [o EXCEPT !.got = g]
  <2>1. /\ g \in Statuses \cup {Nothing} /\ p \in Op /\ p.key = o.key /\ p.kind = o.kind
        /\ p.saw = o.saw
    BY <1>1, <1>5 DEF Op, Statuses
  <2>2. GoesOn(r, "deleting", p) /\ UNCHANGED ses
    BY <1>7, <1>13, <2>1 DEF CountReferences, GoesOn, Go
  <2>3. at'[r] = "deleting" /\ op'[r] = p => InHand(r)'
    BY <1>1, <1>13, <2>1 DEF InHand, Adding, Removing, CountReferences
  <2> QED BY <1>4, <2>1, <2>2, <2>3 DEF Places, Ended, Sound, TypeOK
<1>14. CASE Delete(r)
  <2> DEFINE s == IF o.got = Nothing THEN "dropping" ELSE "committing"
  <2>1. Free(r, o.key) /\ GoesOn(r, s, o) /\ UNCHANGED ses
    BY <1>6, <1>14 DEF Delete, GoesOn, Go
  <2>2. o.kind = "remove" /\ (at'[r] = s /\ op'[r] = o => InHand(r)')
    BY <1>1, <1>14 DEF InHand, Adding, Removing, Delete
  <2> QED BY <1>1, <1>4, <2>1, <2>2 DEF Places, Ended, Sound, TypeOK
<1>15. CASE DropAtSes(r)
  <2>1. Free(r, o.key)
    BY <1>1, <1>15 DEF DropAtSes, Sound, Locks, Free, LockedBy
  <2>2. GoesOn(r, "committing", o)
    BY <1>6, <1>15 DEF DropAtSes, GoesOn, Go
  <2>3. o.kind = "remove" /\ (at'[r] = "committing" /\ op'[r] = o => InHand(r)')
    BY <1>1, <1>15 DEF InHand, Adding, Removing, DropAtSes
  <2>4. ses' \in [Account -> [Value -> Statuses \cup {"absent"}]]
    BY <1>2, <1>15 DEF DropAtSes, PutAtSes, Sound, TypeOK
  <2> QED BY <1>1, <1>4, <2>1, <2>2, <2>3, <2>4 DEF Places, Ended
<1> QED BY <1>8, <1>9, <1>10, <1>11, <1>12, <1>13, <1>14, <1>15 DEF Goes

(* A commit writes the row it has locked, and only that one.               *)
LEMMA CommitSound == ASSUME Sound, NEW r \in Request, Commit(r) PROVE Sound'
<1> DEFINE o == op[r]  k == op[r].key
<1>1. at[r] = "committing" /\ InHand(r) /\ o \in Op /\ k \in Key
  BY DEF Commit, Ended, Sound, Hands, Busy, InHand, Op
<1>2. Leave(r, "idle") /\ UNCHANGED <<ses, passVars, starts, usable, failures, excused>>
  BY DEF Commit
<1>3. /\ at' \in [Request -> Places] /\ op' \in [Request -> Op \cup {Nothing}]
      /\ at'[r] = "idle" /\ op'[r] = Nothing
      /\ \A g \in Request \ {r} : at'[g] = at[g] /\ op'[g] = op[g]
  BY <1>2 DEF Leave, Go, Places, Ended, Sound, TypeOK
(* What becomes of the row.                                                *)
<1>4. /\ rows' \in [Key -> Row \cup {Nothing}]
      /\ \A j \in Key \ {k} : rows'[j] = rows[j]
  <2>1. CASE o.kind = "remove"
    <3>1. UNCHANGED rows \/ rows' = [rows EXCEPT ![k] = Nothing]
      BY <2>1 DEF Commit
    <3> QED BY <1>1, <3>1 DEF Sound, TypeOK
  <2>2. CASE o.kind # "remove"
    <3>1. Same(k, o.saw) /\ o.got \in Statuses
      BY <1>1, <2>2 DEF InHand, Sound, Locks
    <3> DEFINE w == IF o.saw = Nothing THEN [id |-> o.id, status |-> o.got]
                    ELSE Answered(rows[k], o.saw, o.got)
    <3>4. w \in Row
      <4>1. o.saw = Nothing => w \in Row
        <5>1. ASSUME o.saw = Nothing PROVE o.id \in 1..MaxStarts
          BY <1>1, <2>2, <5>1, NothingAssumption DEF InHand
        <5> QED BY <3>1, <5>1 DEF Row
      <4>2. o.saw # Nothing => w \in Row
        <5>1. ASSUME o.saw # Nothing PROVE rows[k] \in Row
          BY <1>1, <3>1, <5>1 DEF Same, Held, Sound, TypeOK
        <5> QED BY <3>1, <5>1 DEF Answered, Row
      <4> QED BY <4>1, <4>2
    <3>5. rows' = [rows EXCEPT ![k] = w]
      BY <2>2 DEF Commit
    <3> HIDE DEF w
    <3> QED BY <1>1, <3>4, <3>5 DEF Sound, TypeOK
  <2> QED BY <2>1, <2>2
<1>5. due' \subseteq Key
  BY DEF Commit, Sound, TypeOK
<1>6. TypeOK'
  BY <1>2, <1>3, <1>4, <1>5 DEF Sound, TypeOK, passVars
<1>7. Hands'
  BY <1>2, <1>3 DEF Sound, Hands, Busy, InHand, passVars, Ended
<1>8. \A j \in Key \ {k}, w \in Row \cup {Nothing} : Same(j, w)' = Same(j, w)
  BY <1>4 DEF Same, Held
<1>9. /\ LockedBy(r)' = {} /\ LockedBy(r) = {k} /\ LockedByPass' = LockedByPass
      /\ \A g \in Request \ {r} : LockedBy(g)' = LockedBy(g)
  BY <1>1, <1>2, <1>3 DEF LockedBy, LockedByPass, passVars
<1>10. Locks'
  <2>1. \A g, h \in Request : g # h => LockedBy(g)' \cap LockedBy(h)' = {}
    <3> SUFFICES ASSUME NEW g \in Request, NEW h \in Request, g # h
                 PROVE  LockedBy(g)' \cap LockedBy(h)' = {}
      OBVIOUS
    <3>1. CASE g = r \/ h = r
      BY <1>9, <3>1
    <3>2. CASE g # r /\ h # r
      BY <1>9, <3>2 DEF Sound, Locks
    <3> QED BY <3>1, <3>2
  <2>2. \A g \in Request : LockedBy(g)' \cap LockedByPass' = {}
    BY <1>9 DEF Sound, Locks
  <2>3. ASSUME NEW g \in Request, at'[g] = "committing" /\ op'[g].kind # "remove"
        PROVE  Same(op[g].key, op[g].saw)'
    <3>1. g # r /\ at[g] = "committing" /\ op'[g] = op[g] /\ op[g].kind # "remove"
      BY <1>3, <2>3
    <3>2. op[g] \in Op
      BY <3>1 DEF Sound, Hands, Busy, Ended, InHand
    <3>3. op[g].key \in Key \ {k} /\ op[g].saw \in Row \cup {Nothing}
      <4>1. LockedBy(g) = {op[g].key} /\ LockedBy(g) \cap LockedBy(r) = {}
        BY <3>1 DEF Sound, Locks, LockedBy
      <4> QED BY <1>9, <3>2, <4>1 DEF Op
    <3>4. Same(op[g].key, op[g].saw)
      BY <3>1 DEF Sound, Locks
    <3> QED BY <1>4, <3>1, <3>3, <3>4 DEF Same, Held
  <2>4. ASSUME NEW w \in flushed' PROVE Same(w.key, w.saw)'
    <3>1. w \in flushed /\ w \in Check
      BY <1>2, <2>4 DEF passVars, Sound, TypeOK
    <3>2. w.key \in Key \ {k} /\ w.saw \in Row
      <4>1. w.key \in LockedByPass /\ LockedBy(r) \cap LockedByPass = {}
        BY <3>1 DEF LockedByPass, Sound, Locks
      <4> QED BY <1>9, <3>1, <4>1 DEF Check
    <3>3. Same(w.key, w.saw)
      BY <3>1 DEF Sound, Locks
    <3> QED BY <1>4, <3>2, <3>3 DEF Same, Held
  <2> QED BY <2>1, <2>2, <2>3, <2>4 DEF Locks
<1> QED BY <1>6, <1>7, <1>10 DEF Sound

(* What takes a request no further: it is refused or dies.                 *)
EndsRefused(r) ==
    /\ Leave(r, "refused")
    /\ UNCHANGED <<rows, due, ses, passVars, starts, usable>>
    /\ failures' \in 0..MaxFailures /\ excused' \in BOOLEAN /\ (excused => excused')

(* Every step of a request is a refusal, a commit, or goes on.             *)
LEMMA RequestSteps ==
    ASSUME Sound, NEW r \in Request, Steps(r) \/ SesRefuses(r) \/ RequestDies(r)
    PROVE  \/ /\ EndsRefused(r)
              /\ Save(r) \/ Adopt(r) \/ NoCredentials(r) \/ SesRefuses(r) \/ RequestDies(r)
           \/ Commit(r)
           \/ Goes(r) /\ at'[r] \notin Ended
<1>1. failures \in 0..MaxFailures /\ excused \in BOOLEAN
  BY DEF Sound, TypeOK
<1>2. CASE SesRefuses(r) \/ RequestDies(r)
  <2>1. failures < MaxFailures /\ failures' = failures + 1
    BY <1>2 DEF SesRefuses, RequestDies
  <2>2. failures' \in 0..MaxFailures
    BY <1>1, <2>1, BoundAssumption
  <2> QED BY <1>1, <1>2, <2>2 DEF SesRefuses, RequestDies, EndsRefused, Refuse
<1>3. CASE Adopt(r) \/ Save(r)
  <2>1. \/ Refuse(r) /\ UNCHANGED failures
        \/ \E s \in {"finding", "committing"} : Go(r, s)
    BY <1>3 DEF Adopt, Save
  <2>2. CASE Refuse(r) /\ UNCHANGED failures
    BY <1>1, <1>3, <2>2 DEF Refuse, EndsRefused
  <2>3. CASE \E s \in {"finding", "committing"} : Go(r, s)
    BY <1>3, <2>3 DEF Goes, Go, Ended, Sound, TypeOK
  <2> QED BY <2>1, <2>2, <2>3
<1>4. CASE Create(r) \/ Find(r) \/ Read(r) \/ CountReferences(r) \/ Delete(r) \/ DropAtSes(r)
  BY <1>4 DEF Create, Find, Read, CountReferences, Delete, DropAtSes, Goes, Go, Ended, Sound,
              TypeOK
<1>5. CASE NoCredentials(r)
  BY <1>1, <1>5 DEF NoCredentials, EndsRefused, Refuse
<1> QED BY <1>2, <1>3, <1>4, <1>5 DEF Steps

(* A request keeps types, hands and locks, whatever becomes of it.         *)
LEMMA RequestSound ==
    ASSUME Sound, NEW r \in Request, Steps(r) \/ SesRefuses(r) \/ RequestDies(r)
    PROVE  Sound'
<1>1. CASE EndsRefused(r)
  BY <1>1, LeaveSound DEF EndsRefused, Ended
<1> QED BY <1>1, RequestSteps, CommitSound, GoesSound

(* Losing the pass releases its locks.                                     *)
LEMMA LoseSound ==
    ASSUME Sound, LosePass, failures' \in 0..MaxFailures
    PROVE  Sound'
<1>1. TypeOK'
  BY DEF LosePass, Sound, TypeOK, Passing
<1>2. Hands'
  BY DEF LosePass, Sound, Hands, Busy, InHand
<1>3. Locks'
  BY DEF LosePass, Sound, Locks, LockedBy, LockedByPass, Same, Held
<1> QED BY <1>1, <1>2, <1>3 DEF Sound

(* Locks are kept when the pass takes a lock or moves on and no row moves. *)
LEMMA PassHolds ==
    ASSUME Sound, UNCHANGED <<rows, at, op>>, flushed' \subseteq Check,
           \A w \in flushed' \ flushed :
               Same(w.key, w.saw) /\ \A g \in Request : w.key \notin LockedBy(g)
    PROVE  Locks'
<1>1. \A g \in Request : LockedBy(g)' = LockedBy(g)
  BY DEF LockedBy
<1>2. \A k, w : Same(k, w)' = Same(k, w)
  BY DEF Same, Held
<1>3. \A g \in Request : LockedBy(g)' \cap LockedByPass' = {}
  BY <1>1 DEF LockedByPass, Sound, Locks
<1> QED BY <1>1, <1>2, <1>3 DEF Sound, Locks, Same, Held

(* The commit of the pass keeps every row that is there, by its id.        *)
LEMMA PassWrites ==
    ASSUME Sound, CommitPass
    PROVE  /\ rows' \in [Key -> Row \cup {Nothing}]
           /\ \A k \in Key : /\ Held(k)' <=> Held(k)
                             /\ Held(k) => rows'[k].id = rows[k].id
<1>1. ASSUME NEW k \in Key
      PROVE  /\ rows'[k] \in Row \cup {Nothing}
             /\ Held(k)' <=> Held(k)
             /\ Held(k) => rows'[k].id = rows[k].id
  <2>1. CASE k \in LockedByPass
    <3> DEFINE w == CHOOSE w \in flushed : w.key = k
    <3>1. w \in flushed /\ w.key = k
      BY <2>1 DEF LockedByPass
    <3>2. w \in Check /\ Same(k, w.saw) /\ w.saw # Nothing
      BY <3>1, NothingAssumption DEF Sound, TypeOK, Locks, Check
    <3>3. rows[k] \in Row /\ w.got \in Statuses
      BY <3>2 DEF Same, Held, Sound, TypeOK, Check
    <3>4. rows'[k] = Answered(rows[k], w.saw, w.got)
      BY <2>1 DEF CommitPass
    <3> HIDE DEF w
    <3>5. rows'[k] \in Row /\ rows'[k].id = rows[k].id
      BY <3>3, <3>4 DEF Answered, Row
    <3> QED BY <3>3, <3>5, NothingAssumption DEF Held
  <2>2. CASE k \notin LockedByPass
    BY <2>2 DEF CommitPass, Held, Sound, TypeOK
  <2> QED BY <2>1, <2>2
<1>2. rows' = [k \in Key |-> rows'[k]]
  BY DEF CommitPass
<1> QED BY <1>1, <1>2

(* The recheck pass keeps types, hands and locks.                          *)
LEMMA PassSound == ASSUME Sound, StartPass \/ PassStep \/ PassDies PROVE Sound'
<1>1. CASE StartPass
  <2>1. copies' \subseteq Copy
    BY <1>1 DEF StartPass, IdentitiesDue, Held, Sound, TypeOK, Copy
  <2>2. TypeOK'
    BY <1>1, <2>1 DEF StartPass, Sound, TypeOK, Passing
  <2>3. Hands' /\ Locks'
    BY <1>1, PassHolds DEF StartPass, Sound, TypeOK, Hands, Busy, InHand
  <2> QED BY <2>2, <2>3 DEF Sound
<1>2. CASE Ask
  <2>1. asking' \in Check /\ copies' \subseteq Copy
    <3>1. PICK c \in copies :
             /\ copies' = copies \ {c}
             /\ asking' = [key |-> c.key, saw |-> c.saw,
                           got |-> IF AtSes(c.key) = "absent" THEN c.saw.status ELSE AtSes(c.key)]
      BY <1>2 DEF Ask
    <3>2. c.key \in Key /\ c.saw \in Row /\ c.saw.status \in Statuses
      BY DEF Sound, TypeOK, Copy, Row
    <3>3. AccountOf[c.key[1]] \in Account /\ c.key[2] \in Value
      BY <3>2, AccountAssumption DEF Key
    <3>4. AtSes(c.key) \in Statuses \cup {"absent"}
      BY <3>3 DEF AtSes, Sound, TypeOK
    <3> QED BY <3>1, <3>2, <3>4 DEF Check, Sound, TypeOK
  <2>2. TypeOK'
    BY <1>2, <2>1 DEF Ask, Sound, TypeOK, Passing
  <2>3. Hands' /\ Locks'
    BY <1>2, <2>1, PassHolds, NothingAssumption DEF Ask, Sound, TypeOK, Hands, Busy, InHand
  <2> QED BY <2>2, <2>3 DEF Sound
<1>3. CASE WriteCheck
  <2>1. CASE Same(asking.key, asking.saw)
    <3>1. asking \in Check
      BY <1>3 DEF WriteCheck, Sound, TypeOK, Hands
    <3>2. TypeOK'
      BY <1>3, <2>1, <3>1 DEF WriteCheck, Sound, TypeOK, Passing
    <3>3. Locks'
      BY <1>3, <2>1, <3>1, PassHolds DEF WriteCheck, Sound, TypeOK
    <3>4. Hands'
      BY <1>3, <2>1 DEF WriteCheck, Sound, Hands, Busy, InHand
    <3> QED BY <3>2, <3>3, <3>4 DEF Sound
  <2>2. CASE ~ Same(asking.key, asking.saw)
    BY <1>3, <2>2, LoseSound DEF WriteCheck, Sound, TypeOK
  <2> QED BY <2>1, <2>2
<1>4. CASE CommitPass
  <2>1. TypeOK'
    BY <1>4, PassWrites DEF CommitPass, Sound, TypeOK, Passing
  <2>2. Hands'
    BY <1>4 DEF CommitPass, Sound, Hands, Busy, InHand
  <2>3. ASSUME NEW g \in Request, at'[g] = "committing" /\ op'[g].kind # "remove"
        PROVE  Same(op[g].key, op[g].saw)'
    <3>1. at[g] = "committing" /\ op[g].kind # "remove" /\ op'[g] = op[g]
      BY <1>4, <2>3 DEF CommitPass
    <3>2. Same(op[g].key, op[g].saw) /\ op[g].key \in Key
      BY <3>1 DEF Sound, Hands, Locks, Busy, Ended, InHand, Op
    <3> QED BY <1>4, <3>1, <3>2, PassWrites DEF Same
  <2>4. Locks'
    BY <1>4, <2>3 DEF CommitPass, Sound, Locks, LockedBy, LockedByPass
  <2> QED BY <2>1, <2>2, <2>4 DEF Sound
<1>5. CASE PassDies
  <2>1. failures < MaxFailures /\ failures' = failures + 1 /\ failures \in 0..MaxFailures
    BY <1>5 DEF PassDies, Sound, TypeOK
  <2>2. failures' \in 0..MaxFailures
    BY <2>1, BoundAssumption
  <2> QED BY <1>5, <2>2, LoseSound DEF PassDies
<1>6. CASE PassOver
  <2>1. /\ copies' \subseteq copies
        /\ UNCHANGED <<rows, due, ses, usable, at, op, pass, asking, flushed, starts, failures,
                       excused>>
    BY <1>6 DEF PassOver
  <2>2. TypeOK' /\ Hands'
    BY <2>1 DEF Sound, TypeOK, Hands, Busy, InHand
  <2>3. Locks'
    BY <2>1, PassHolds DEF Sound, TypeOK
  <2> QED BY <2>2, <2>3 DEF Sound
<1> QED BY <1>1, <1>2, <1>3, <1>4, <1>5, <1>6 DEF PassStep

(* What happens outside touches no request and no lock.                    *)
LEMMA OutsideSound == ASSUME Sound, Outside PROVE Sound'
<1>1. UNCHANGED <<rows, at, op, pass, copies, asking, flushed, starts>>
  BY DEF Outside, ComesDue, Verification, DeletedByHand, Connect, Disconnect, passVars
<1>2. failures' \in 0..MaxFailures
  <2>1. failures \in 0..MaxFailures
    BY DEF Sound, TypeOK
  <2>2. UNCHANGED failures \/ (failures < MaxFailures /\ failures' = failures + 1)
    BY DEF Outside, ComesDue, Verification, DeletedByHand, Connect, Disconnect
  <2> QED BY <2>1, <2>2, BoundAssumption
<1>3. due' \subseteq Key /\ excused' \in BOOLEAN
  BY DEF Outside, ComesDue, Verification, DeletedByHand, Connect, Disconnect, Sound, TypeOK
<1>4. ses' \in [Account -> [Value -> Statuses \cup {"absent"}]]
  BY DEF Outside, ComesDue, Verification, DeletedByHand, Connect, Disconnect, Sound, TypeOK
<1>5. usable' \subseteq Project
  BY DEF Outside, ComesDue, Verification, DeletedByHand, Connect, Disconnect, Sound, TypeOK
<1>6. Hands' /\ Locks'
  BY <1>1, PassHolds DEF Sound, TypeOK, Hands, Busy, InHand
<1> QED BY <1>1, <1>2, <1>3, <1>4, <1>5, <1>6 DEF Sound, TypeOK

(* Every step keeps types, hands and locks.                                *)
LEMMA SoundStep == ASSUME Sound, [Next]_vars PROVE Sound'
<1>1. CASE UNCHANGED vars
  <2>1. TypeOK' /\ Hands'
    BY <1>1 DEF Sound, TypeOK, Hands, Busy, InHand, vars, passVars
  <2>2. Locks'
    BY <1>1, PassHolds DEF Sound, TypeOK, vars, passVars
  <2> QED BY <2>1, <2>2 DEF Sound
<1>2. CASE Next
  BY <1>2, RequestsSound, RequestSound, PassSound, OutsideSound DEF Next, Failing
<1> QED BY <1>1, <1>2

-----------------------------------------------------------------------------
(* SES agrees with the rows.                                               *)

(* A step about one value, by the only request that is about it, leaves    *)
(* the other values as they were.                                          *)
LEMMA OneAgrees ==
    ASSUME Sound, Agreed, NEW r \in Request, NEW v \in Value,
           \A g \in Request \ {r} : at'[g] = at[g] /\ op'[g] = op[g],
           Alone(r, v), r \in Busy => op[r].key[2] = v,
           at'[r] \notin Ended => op'[r].key[2] = v /\ Clear(r)',
           \A k \in Key : k[2] # v => rows'[k] = rows[k],
           \A a \in Account, w \in Value : w # v => ses'[a][w] = ses[a][w],
           \A k \in Key : k[2] = v => Kept(k)',
           OneAccountForAll => \A a \in Account : Backed(a, v)'
    PROVE  Agreed'
<1>1. ASSUME NEW g \in Request \ {r}, at'[g] \notin Ended
      PROVE  /\ g \in Busy /\ op[g] \in Op /\ op[g].key \in Key /\ op[g].key[2] # v
             /\ Alone(g, op[g].key[2]) /\ Clear(g)
  BY <1>1 DEF Busy, Sound, Hands, InHand, Op, Alone, Agreed
<1>2. ASSUME NEW k \in Key, k[2] # v
      PROVE  (Held(k)' <=> Held(k)) /\ AtSes(k)' = AtSes(k) /\ rows'[k] = rows[k]
  <2>1. AccountOf[k[1]] \in Account /\ k[2] \in Value
    BY AccountAssumption DEF Key
  <2> QED BY <1>2, <2>1 DEF Held, AtSes
<1>3. ASSUME NEW g \in Request, at'[g] \notin Ended
      PROVE  (Alone(g, op[g].key[2]) /\ Clear(g))'
  <2>1. CASE g = r
    <3>1. ASSUME NEW h \in Request, at'[h] \notin Ended, op'[h].key[2] = v PROVE h = r
      BY <1>1, <3>1
    <3> QED BY <1>3, <2>1, <3>1 DEF Alone, Busy
  <2>2. CASE g # r
    <3>1. /\ op'[g] = op[g] /\ at'[g] = at[g] /\ op[g] \in Op
          /\ op[g].key \in Key /\ op[g].key[2] # v
          /\ Alone(g, op[g].key[2]) /\ Clear(g)
      BY <1>1, <1>3, <2>2
    <3>2. ASSUME NEW h \in Request, at'[h] \notin Ended, op'[h].key[2] = op[g].key[2]
          PROVE  h = g
      <4>1. h # r
        BY <1>3, <3>1, <3>2
      <4> QED BY <3>1, <3>2, <4>1 DEF Alone, Busy
    <3>3. Alone(g, op[g].key[2])'
      BY <3>1, <3>2 DEF Alone, Busy
    <3>4. OtherReferences(op[g])' = OtherReferences(op[g])
      BY <1>2, <3>1 DEF OtherReferences
    <3>5. Same(op[g].key, op[g].saw)' <=> Same(op[g].key, op[g].saw)
      BY <1>2, <3>1 DEF Same
    <3>6. AtSes(op[g].key)' = AtSes(op[g].key)
      BY <1>2, <3>1 DEF AtSes
    <3>7. Clear(g)'
      BY <3>1, <3>4, <3>5, <3>6 DEF Clear, Made, Last, Dropped
    <3> QED BY <3>3, <3>7
  <2> QED BY <2>1, <2>2
<1>4. ASSUME NEW k \in Key, k[2] # v PROVE Kept(k)'
  <2>1. Kept(k)
    BY DEF Agreed
  <2>2. ASSUME NEW g \in Busy, Dropped(g), op[g].key = k
        PROVE  g \in Busy' /\ Dropped(g)' /\ op'[g].key = k
    <3>1. g # r
      BY <1>4, <2>2
    <3> QED BY <2>2, <3>1 DEF Busy, Dropped, Last
  <2> QED BY <1>2, <1>4, <2>1, <2>2 DEF Kept
<1>5. ASSUME OneAccountForAll, NEW a \in Account, NEW w \in Value PROVE Backed(a, w)'
  <2>1. CASE w = v
    BY <1>5, <2>1
  <2>2. CASE w # v
    <3>1. Backed(a, w) /\ ses'[a][w] = ses[a][w]
      BY <1>5, <2>2 DEF Agreed
    <3>2. ASSUME NEW p \in Project, Held(<<p, w>>) PROVE Held(<<p, w>>)'
      <4>1. <<p, w>> \in Key /\ <<p, w>>[2] = w
        BY DEF Key
      <4> QED BY <1>2, <2>2, <3>2, <4>1
    <3>3. ASSUME NEW g \in Busy, Made(g), op[g].key[2] = w
          PROVE  g \in Busy' /\ Made(g)' /\ op'[g] = op[g]
      <4>1. g # r
        BY <2>2, <3>3
      <4> QED BY <3>3, <4>1 DEF Busy, Made
    <3> QED BY <3>1, <3>2, <3>3 DEF Backed
  <2> QED BY <2>1, <2>2
<1>6. OneAccountForAll' <=> OneAccountForAll
  BY DEF OneAccountForAll
<1>7. \A g \in Busy' : (Alone(g, op[g].key[2]) /\ Clear(g))'
  BY <1>3 DEF Busy
<1>8. \A k \in Key : Kept(k)'
  BY <1>4
<1>9. OneAccountForAll' => \A a \in Account, w \in Value : Backed(a, w)'
  BY <1>5, <1>6
<1> QED BY <1>7, <1>8, <1>9 DEF Agreed

(* Of the value a request is at work on, only that request knows anything. *)
LEMMA AtWork ==
    ASSUME Sound, Agreed, NEW r \in Busy
    PROVE  LET o == op[r]  v == op[r].key[2] IN
           /\ r \in Request /\ o \in Op /\ o.key \in Key /\ v \in Value
           /\ o.key[1] \in Project /\ AccountOf[o.key[1]] \in Account
           /\ InHand(r) /\ Alone(r, v) /\ Clear(r)
           /\ \A k \in Key : k[2] = v =>
                 (Held(k) => AtSes(k) # "absent" \/ (Dropped(r) /\ o.key = k))
           /\ OneAccountForAll => \A a \in Account : ses[a][v] # "absent" =>
                 \/ \E p \in Project : AccountOf[p] = a /\ Held(<<p, v>>)
                 \/ Made(r) /\ AccountOf[o.key[1]] = a
<1>1. /\ r \in Request /\ op[r] \in Op /\ op[r].key \in Key /\ op[r].key[2] \in Value
      /\ op[r].key[1] \in Project /\ AccountOf[op[r].key[1]] \in Account
      /\ InHand(r)
  BY AccountAssumption DEF Busy, Sound, Hands, InHand, Op, Key
<1>2. Alone(r, op[r].key[2]) /\ Clear(r)
  BY DEF Agreed
<1>3. \A k \in Key : k[2] = op[r].key[2] =>
          (Held(k) => AtSes(k) # "absent" \/ (Dropped(r) /\ op[r].key = k))
  BY <1>2 DEF Agreed, Kept, Alone
<1>4. OneAccountForAll => \A a \in Account : ses[a][op[r].key[2]] # "absent" =>
          \/ \E p \in Project : AccountOf[p] = a /\ Held(<<p, op[r].key[2]>>)
          \/ Made(r) /\ AccountOf[op[r].key[1]] = a
  BY <1>1, <1>2 DEF Agreed, Backed, Alone
<1> QED BY <1>1, <1>2, <1>3, <1>4

(* A request that only looks, or gives up before it has made anything.     *)
LEMMA LooksAgrees ==
    ASSUME Sound, Agreed, NEW r \in Busy, at[r] # "committing", UNCHANGED <<rows, ses>>,
           \A g \in Request \ {r} : at'[g] = at[g] /\ op'[g] = op[g],
           at'[r] \notin Ended => op'[r].key = op[r].key /\ Clear(r)',
           Made(r) => at'[r] \notin Ended /\ Made(r)'
    PROVE  Agreed'
<1> SUFFICES ASSUME NEW v, v = op[r].key[2], NEW o, o = op[r] PROVE Agreed'
  OBVIOUS
<1>1. /\ r \in Request /\ o \in Op /\ o.key \in Key /\ v \in Value /\ Alone(r, v)
      /\ \A k \in Key : k[2] = v =>
            (Held(k) => AtSes(k) # "absent" \/ (Dropped(r) /\ o.key = k))
      /\ OneAccountForAll => \A a \in Account : ses[a][v] # "absent" =>
            \/ \E p \in Project : AccountOf[p] = a /\ Held(<<p, v>>)
            \/ Made(r) /\ AccountOf[o.key[1]] = a
  BY AtWork
<1>2. /\ \A k : Held(k)' <=> Held(k)
      /\ \A k : AtSes(k)' = AtSes(k)
  BY DEF Held, AtSes
<1>3. ~ Dropped(r)
  BY DEF Dropped
<1>4. \A k \in Key : k[2] = v => Kept(k)'
  BY <1>1, <1>2, <1>3 DEF Kept
<1>5. OneAccountForAll => \A a \in Account : Backed(a, v)'
  <2>1. Made(r) => r \in Busy' /\ Made(r)' /\ op'[r].key = o.key
    BY <1>1 DEF Busy
  <2>2. \A p \in Project : Held(<<p, v>>)' <=> Held(<<p, v>>)
    BY <1>2
  <2> QED BY <1>1, <2>1, <2>2 DEF Backed
<1> QED BY <1>1, <1>4, <1>5, OneAgrees

(* What a request that goes on has in hand afterwards.                     *)
LEMMA GoesTo ==
    ASSUME Sound, NEW r \in Request, Goes(r), at'[r] \notin Ended
    PROVE  /\ r \in Busy /\ at[r] # "committing"
           /\ \A g \in Request \ {r} : at'[g] = at[g] /\ op'[g] = op[g]
           /\ UNCHANGED <<rows, excused>>
           /\ op'[r].key = op[r].key /\ op'[r].kind = op[r].kind
           /\ Find(r) \/ op'[r].saw = op[r].saw
<1>1. r \in Busy /\ op[r] \in Op /\ at[r] # "committing"
  BY DEF Goes, Create, Adopt, Find, Read, Save, CountReferences, Delete, DropAtSes, Ended,
         Sound, Hands, Busy, InHand
<1>2. Refuse(r) => at'[r] \in Ended
  BY DEF Refuse, Leave, Go, Ended, Sound, TypeOK
<1>3. UNCHANGED <<rows, excused>> /\ \E s \in Places : at' = [at EXCEPT ![r] = s]
  BY <1>2 DEF Goes, Create, Adopt, Find, Read, Save, CountReferences, Delete, DropAtSes, Go, Places
<1>4. \/ Find(r) /\ op' = [op EXCEPT ![r].saw = rows[op[r].key]]
      \/ UNCHANGED op
      \/ \E g : op' = [op EXCEPT ![r].got = g]
  BY <1>2 DEF Goes, Create, Adopt, Find, Read, Save, CountReferences, Delete, DropAtSes, Go
<1>5. /\ \A g \in Request \ {r} : op'[g] = op[g]
      /\ op'[r].key = op[r].key /\ op'[r].kind = op[r].kind
      /\ Find(r) \/ op'[r].saw = op[r].saw
  BY <1>1, <1>4 DEF Sound, TypeOK, Op
<1> QED BY <1>1, <1>3, <1>5 DEF Sound, TypeOK

(* Every step of a request but its commit keeps the agreement.             *)
LEMMA GoesAgrees ==
    ASSUME Sound, Sound', Agreed, NEW r \in Request, Goes(r), at'[r] \notin Ended
    PROVE  Agreed'
<1> SUFFICES ASSUME NEW o, o = op[r], NEW k, k = op[r].key, NEW v, v = op[r].key[2],
                    NEW a, a = AccountOf[op[r].key[1]]
             PROVE  Agreed'
  OBVIOUS
<1>1. /\ r \in Busy /\ at[r] # "committing"
      /\ \A g \in Request \ {r} : at'[g] = at[g] /\ op'[g] = op[g]
      /\ UNCHANGED <<rows, excused>>
      /\ op'[r].key = k /\ op'[r].kind = o.kind
      /\ Find(r) \/ op'[r].saw = o.saw
  BY GoesTo
<1>2. /\ o \in Op /\ k \in Key /\ v \in Value /\ a \in Account /\ k[1] \in Project
      /\ k[2] = v /\ AtSes(k) = ses[a][v]
      /\ InHand(r) /\ Alone(r, v) /\ Clear(r)
      /\ \A j \in Key : j[2] = v =>
            (Held(j) => AtSes(j) # "absent" \/ (Dropped(r) /\ k = j))
      /\ OneAccountForAll => \A b \in Account : ses[b][v] # "absent" =>
            \/ \E p \in Project : AccountOf[p] = b /\ Held(<<p, v>>)
            \/ Made(r) /\ a = b
  BY <1>1, AtWork DEF AtSes
<1>3. /\ \A j, w : Same(j, w)' <=> Same(j, w)
      /\ \A j : Held(j)' <=> Held(j)
      /\ OtherReferences(op[r])' = OtherReferences(op[r])
      /\ OtherReferences(op'[r]) = OtherReferences(op[r])
  BY <1>1 DEF Same, Held, OtherReferences
(* Steps that make and drop nothing.                                       *)
<1>4. ASSUME UNCHANGED ses, Clear(r)', Made(r) => Made(r)'
      PROVE  Agreed'
  BY <1>1, <1>4, LooksAgrees
<1>5. CASE Create(r) /\ AtSes(k) # "absent"
  <2>1. /\ at[r] = "creating" /\ at'[r] = "adopting" /\ UNCHANGED <<ses, op>>
        /\ o.kind = "add"
    BY <1>2, <1>5 DEF Create, Go, Sound, TypeOK, InHand, Adding
  <2>2. Clear(r)' /\ ~ Made(r)
    BY <1>2, <1>5, <2>1 DEF Clear, Made, Last, Dropped, AtSes
  <2> QED BY <1>4, <2>1, <2>2
<1>6. CASE Adopt(r)
  <2>1. /\ at[r] = "adopting" /\ at'[r] = "finding" /\ UNCHANGED ses /\ o.kind = "add"
    BY <1>2, <1>6 DEF Adopt, Refuse, Leave, Go, Ended, Sound, TypeOK, InHand, Adding
  <2>2. AtSes(k) # "absent"
    BY <1>2, <2>1 DEF Clear
  <2>3. Clear(r)' /\ ~ Made(r)
    BY <1>1, <2>1, <2>2 DEF Clear, Made, Last, Dropped, AtSes
  <2> QED BY <1>4, <2>1, <2>3
<1>7. CASE Find(r)
  <2>1. /\ at[r] = "finding" /\ at'[r] = "saving" /\ UNCHANGED ses /\ o.kind = "add"
        /\ op'[r].saw = rows[k]
    BY <1>2, <1>7 DEF Find, Go, Sound, TypeOK, InHand, Adding, Op
  <2>2. AtSes(k) # "absent" /\ Same(k, rows[k])
    BY <1>2, <2>1 DEF Clear, Made, Same, Held
  <2>3. Clear(r)' /\ Made(r)'
    BY <1>1, <2>1, <2>2 DEF Clear, Made, Last, Dropped, AtSes, Same, Held
  <2> QED BY <1>4, <2>1, <2>3
<1>8. CASE Read(r)
  <2>1. /\ at[r] = "reading" /\ at'[r] = "saving" /\ UNCHANGED ses /\ o.kind = "refresh"
        /\ op'[r].saw = o.saw
    BY <1>1, <1>2, <1>8 DEF Read, Find, Go, Sound, TypeOK, InHand
  <2>2. Same(k, o.saw)
    BY <1>2, <2>1 DEF Clear
  <2>3. Clear(r)' /\ ~ Made(r)
    BY <1>1, <2>1, <2>2 DEF Clear, Made, Last, Dropped, AtSes, Same, Held
  <2> QED BY <1>4, <2>1, <2>3
<1>9. CASE Save(r)
  <2>1. /\ at[r] = "saving" /\ at'[r] = "committing" /\ UNCHANGED <<ses, op>>
        /\ o.kind # "remove" /\ Same(k, o.saw)
    BY <1>2, <1>9 DEF Save, Refuse, Leave, Go, Ended, Sound, TypeOK, InHand
  <2>2. Made(r) => AtSes(k) # "absent"
    BY <1>2 DEF Clear
  <2>3. Clear(r)' /\ (Made(r) => Made(r)')
    BY <1>1, <2>1, <2>2 DEF Clear, Made, Last, Dropped, AtSes, Same, Held
  <2> QED BY <1>4, <2>1, <2>3
<1>10. CASE CountReferences(r)
  <2>1. /\ at[r] = "counting" /\ at'[r] = "deleting" /\ UNCHANGED ses /\ o.kind = "remove"
        /\ op'[r].got = IF OtherReferences(o) = {} THEN Nothing ELSE "success"
        /\ op'[r].saw = o.saw
    BY <1>1, <1>2, <1>10
    DEF CountReferences, Find, Go, Sound, TypeOK, InHand, Removing, Op
  <2>2. "success" # Nothing /\ Same(k, o.saw)
    BY <1>2, <2>1, NothingAssumption DEF Statuses, Clear
  <2>3. Clear(r)' /\ ~ Made(r)
    BY <1>1, <1>3, <2>1, <2>2 DEF Clear, Made, Last, Dropped, AtSes, Same, Held, OtherReferences
  <2> QED BY <1>4, <2>1, <2>3
<1>11. CASE Delete(r)
  <2>1. /\ at[r] = "deleting" /\ UNCHANGED <<ses, op>> /\ o.kind = "remove"
        /\ at'[r] = IF o.got = Nothing THEN "dropping" ELSE "committing"
    BY <1>2, <1>11 DEF Delete, Go, Sound, TypeOK, InHand, Removing
  <2>2. /\ Same(k, o.saw)
        /\ o.got = Nothing => OtherReferences(o) = {}
        /\ o.got # Nothing => OtherReferences(o) # {}
    BY <1>2, <2>1 DEF Clear, Last
  <2>3. Clear(r)' /\ ~ Made(r)
    BY <1>1, <1>3, <2>1, <2>2 DEF Clear, Made, Last, Dropped, AtSes, Same, Held, OtherReferences
  <2> QED BY <1>4, <2>1, <2>3
(* SES gets an identity.                                                   *)
<1>12. CASE Create(r) /\ AtSes(k) = "absent"
  <2>1. /\ at[r] = "creating" /\ at'[r] = "finding" /\ o.kind = "add"
        /\ ses' = [ses EXCEPT ![a][v] = "pending"]
    BY <1>2, <1>12 DEF Create, PutAtSes, Go, Sound, TypeOK, InHand, Adding
  <2>2. ses'[a][v] = "pending" /\ \A b \in Account, w \in Value :
                                    b # a \/ w # v => ses'[b][w] = ses[b][w]
    BY <1>2, <2>1 DEF Sound, TypeOK
  <2>3. Clear(r)'
    BY <1>1, <1>2, <2>1, <2>2 DEF Clear, Made, Last, Dropped, AtSes
  <2>4. ASSUME NEW j \in Key, j[2] = v PROVE Kept(j)'
    <3>1. Held(j) => AtSes(j) # "absent"
      BY <1>2, <2>1, <2>4 DEF Dropped
    <3>2. AccountOf[j[1]] \in Account /\ AtSes(j) = ses[AccountOf[j[1]]][v]
      BY <2>4, AccountAssumption DEF Key, AtSes
    <3>3. AtSes(j)' = ses'[AccountOf[j[1]]][v]
      BY <2>4 DEF AtSes
    <3>4. AtSes(j) # "absent" => AtSes(j)' # "absent"
      BY <1>2, <2>2, <3>2, <3>3
    <3>5. Held(j)' => AtSes(j)' # "absent"
      BY <1>3, <3>1, <3>4
    <3> QED BY <3>5 DEF Kept
  <2>5. ASSUME OneAccountForAll, NEW b \in Account PROVE Backed(b, v)'
    <3>1. r \in Busy' /\ Made(r)' /\ op'[r].key[2] = v /\ AccountOf[op'[r].key[1]] = a
      BY <1>1, <1>2, <2>1 DEF Busy, Made, Ended
    <3>2. ~ Made(r)
      BY <2>1 DEF Made
    <3>3. \A p \in Project : Held(<<p, v>>)' <=> Held(<<p, v>>)
      BY <1>3
    <3> QED BY <1>2, <2>2, <2>5, <3>1, <3>2, <3>3 DEF Backed
  <2> QED BY <1>1, <1>2, <2>2, <2>3, <2>4, <2>5, OneAgrees
(* SES loses one that nobody else names.                                   *)
<1>13. CASE DropAtSes(r)
  <2>1. /\ at[r] = "dropping" /\ at'[r] = "committing" /\ UNCHANGED op /\ o.kind = "remove"
        /\ o.got = Nothing
        /\ ses' = [ses EXCEPT ![a][v] = "absent"]
    BY <1>2, <1>13 DEF DropAtSes, PutAtSes, Go, Sound, TypeOK, InHand, Removing
  <2>2. ses'[a][v] = "absent" /\ \A b \in Account, w \in Value :
                                   b # a \/ w # v => ses'[b][w] = ses[b][w]
    BY <1>2, <2>1 DEF Sound, TypeOK
  <2>3. Same(k, o.saw) /\ OtherReferences(o) = {}
    BY <1>2, <2>1 DEF Clear, Last
  <2>4. Clear(r)' /\ Dropped(r)' /\ ~ Made(r)
    BY <1>1, <1>2, <1>3, <2>1, <2>2, <2>3
    DEF Clear, Made, Last, Dropped, AtSes, Same, Held, OtherReferences
  <2>5. ASSUME NEW j \in Key, j[2] = v PROVE Kept(j)'
    <3>1. Held(j) => j = k
      BY <1>2, <2>3, <2>5 DEF OtherReferences
    <3>2. r \in Busy' /\ op'[r].key = k
      BY <1>1, <2>1 DEF Busy, Ended
    <3>3. Held(j)' => Held(j)
      BY <1>3
    <3>4. ASSUME Held(j)' PROVE \E g \in Busy' : Dropped(g)' /\ op'[g].key = j
      BY <2>4, <3>1, <3>2, <3>3, <3>4
    <3> QED BY <3>4 DEF Kept
  <2>6. ASSUME OneAccountForAll, NEW b \in Account PROVE Backed(b, v)'
    <3>1. \A p \in Project : Held(<<p, v>>)' <=> Held(<<p, v>>)
      BY <1>3
    <3> QED BY <1>2, <2>2, <2>4, <2>6, <3>1 DEF Backed
  <2> QED BY <1>1, <1>2, <2>2, <2>4, <2>5, <2>6, OneAgrees
<1> QED
  BY <1>5, <1>6, <1>7, <1>8, <1>9, <1>10, <1>11, <1>12, <1>13 DEF Goes

(* So does its commit: what it added is at SES, and what it took away was  *)
(* dropped there, or somebody else names it.                               *)
LEMMA CommitAgrees ==
    ASSUME Sound, Sound', Agreed, NEW r \in Request, Commit(r)
    PROVE  Agreed'
<1> SUFFICES ASSUME NEW o, o = op[r], NEW k, k = op[r].key, NEW v, v = op[r].key[2],
                    NEW a, a = AccountOf[op[r].key[1]]
             PROVE  Agreed'
  OBVIOUS
<1>1. r \in Busy /\ at[r] = "committing" /\ UNCHANGED ses
  BY DEF Commit, Busy, Ended
<1>2. /\ o \in Op /\ k \in Key /\ v \in Value /\ a \in Account /\ k[1] \in Project
      /\ k[2] = v /\ k = <<k[1], v>> /\ AtSes(k) = ses[a][v]
      /\ InHand(r) /\ Alone(r, v) /\ Clear(r)
      /\ \A j \in Key : j[2] = v =>
            (Held(j) => AtSes(j) # "absent" \/ (Dropped(r) /\ k = j))
      /\ OneAccountForAll => \A b \in Account : ses[b][v] # "absent" =>
            \/ \E p \in Project : AccountOf[p] = b /\ Held(<<p, v>>)
            \/ Made(r) /\ a = b
  BY <1>1, AtWork DEF AtSes, Key
<1>3. /\ at'[r] = "idle"
      /\ \A g \in Request \ {r} : at'[g] = at[g] /\ op'[g] = op[g]
  BY DEF Commit, Leave, Go, Sound, TypeOK
<1>4. Same(k, o.saw)
  BY <1>1, <1>2 DEF Clear
<1>5. \A j \in Key \ {k} : rows'[j] = rows[j] /\ (Held(j)' <=> Held(j))
  <2>1. \/ UNCHANGED rows
        \/ \E w : rows' = [rows EXCEPT ![k] = w]
    BY DEF Commit
  <2> QED BY <2>1 DEF Held, Sound, TypeOK
<1>6. \A j : AtSes(j)' = AtSes(j)
  BY <1>1 DEF AtSes
(* What comes of the row.                                                  *)
<1>7. Held(k)' <=> o.kind # "remove"
  <2>1. CASE o.kind = "remove"
    <3>1. rows' = [rows EXCEPT ![k] = Nothing]
      BY <1>4, <2>1 DEF Commit
    <3> QED BY <1>2, <2>1, <3>1 DEF Held, Sound, TypeOK
  <2>2. CASE o.kind # "remove"
    <3>1. rows'[k] = IF o.saw = Nothing THEN [id |-> o.id, status |-> o.got]
                     ELSE Answered(rows[k], o.saw, o.got)
      BY <1>2, <2>2 DEF Commit, Sound, TypeOK
    <3>2. o.got \in Statuses
      BY <1>1, <1>2, <2>2 DEF InHand
    <3>3. CASE o.saw = Nothing
      <4>1. o.id \in 1..MaxStarts
        BY <1>2, <2>2, <3>3, NothingAssumption DEF InHand
      <4>2. [id |-> o.id, status |-> o.got] \in Row
        BY <3>2, <4>1 DEF Row
      <4> QED BY <2>2, <3>1, <3>3, <4>2, NothingAssumption DEF Held
    <3>4. CASE o.saw # Nothing
      <4>1. rows[k] \in Row
        BY <1>2, <1>4, <3>4 DEF Same, Held, Sound, TypeOK
      <4>2. Answered(rows[k], o.saw, o.got) \in Row
        BY <3>2, <4>1 DEF Answered, Row
      <4> QED BY <2>2, <3>1, <3>4, <4>2, NothingAssumption DEF Held
    <3> QED BY <3>3, <3>4
  <2> QED BY <2>1, <2>2
<1>8. ASSUME NEW j \in Key, j[2] = v PROVE Kept(j)'
  <2>1. CASE j # k
    BY <1>2, <1>5, <1>6, <1>8, <2>1 DEF Kept
  <2>2. CASE j = k
    <3>1. o.kind # "remove" => AtSes(k) # "absent"
      <4>1. CASE o.kind = "add"
        BY <1>1, <1>2, <4>1 DEF Clear, Made
      <4>2. CASE o.kind = "refresh"
        <5>1. o.saw \in Row
          BY <1>2, <4>2 DEF InHand
        <5>2. Held(k) /\ ~ Dropped(r)
          BY <1>4, <4>2, <5>1, NothingAssumption DEF Same, Dropped, Last
        <5> QED BY <1>2, <5>2
      <4> QED BY <1>2, <4>1, <4>2 DEF Op
    <3> QED BY <1>6, <1>7, <2>2, <3>1 DEF Kept
  <2> QED BY <2>1, <2>2
<1>9. ASSUME OneAccountForAll, NEW b \in Account PROVE Backed(b, v)'
  <2> SUFFICES ASSUME ses[b][v] # "absent"
               PROVE  \E p \in Project : AccountOf[p] = b /\ Held(<<p, v>>)'
    BY <1>1 DEF Backed
  <2>1. CASE o.kind # "remove"
    <3>1. CASE \E p \in Project : AccountOf[p] = b /\ Held(<<p, v>>)
      <4>1. PICK p \in Project : AccountOf[p] = b /\ Held(<<p, v>>)
        BY <3>1
      <4>2. <<p, v>> \in Key
        BY <1>2 DEF Key
      <4>3. Held(<<p, v>>)'
        BY <1>5, <1>7, <2>1, <4>1, <4>2
      <4> QED BY <4>1, <4>3
    <3>2. CASE a = b
      <4>1. k = <<k[1], v>> /\ Held(k)' /\ AccountOf[k[1]] = b /\ k[1] \in Project
        BY <1>2, <1>7, <2>1, <3>2
      <4>2. Held(<<k[1], v>>)'
        BY <4>1
      <4> QED BY <4>1, <4>2
    <3> QED BY <1>2, <1>9, <3>1, <3>2
  <2>2. CASE o.kind = "remove"
    <3>1. PICK p \in Project : AccountOf[p] = b /\ Held(<<p, v>>)
      BY <1>2, <1>9, <2>2 DEF Made
    <3>2. a = b
      BY <1>2, <1>9, <3>1 DEF OneAccountForAll
    <3>3. OtherReferences(o) # {}
      <4>1. ~ Dropped(r)
        BY <1>2, <3>2 DEF Clear
      <4> QED BY <1>1, <1>2, <2>2, <4>1 DEF Clear, Dropped, Last
    <3>4. PICK j \in Key : j[2] = v /\ j # k /\ Held(j)
      BY <1>2, <3>3 DEF OtherReferences
    <3>5. j = <<j[1], v>> /\ j[1] \in Project /\ AccountOf[j[1]] = b /\ Held(j)'
      <4>1. j = <<j[1], v>> /\ j[1] \in Project
        BY <3>4 DEF Key
      <4>2. AccountOf[j[1]] = b
        BY <1>2, <1>9, <3>2, <4>1 DEF OneAccountForAll
      <4>3. Held(j)'
        BY <1>5, <3>4
      <4> QED BY <4>1, <4>2, <4>3
    <3>6. Held(<<j[1], v>>)'
      BY <3>5
    <3> QED BY <3>5, <3>6
  <2> QED BY <2>1, <2>2
<1>10. /\ r \in Busy => op[r].key[2] = v
       /\ at'[r] \in Ended
       /\ \A j \in Key : j[2] # v => rows'[j] = rows[j]
       /\ \A b \in Account, w \in Value : w # v => ses'[b][w] = ses[b][w]
  BY <1>1, <1>2, <1>3, <1>5 DEF Ended
<1> QED BY <1>2, <1>3, <1>8, <1>9, <1>10, OneAgrees

(* A request that is refused has made nothing.                             *)
LEMMA RefusedAgrees ==
    ASSUME Sound, Agreed, NEW r \in Request, EndsRefused(r),
           Save(r) \/ Adopt(r) \/ NoCredentials(r) \/ SesRefuses(r)
    PROVE  Agreed'
<1>1. r \in Busy /\ at[r] \in {"saving", "creating", "adopting", "counting", "dropping"}
  BY DEF Save, Adopt, NoCredentials, SesRefuses, Busy, Ended
<1>2. at[r] # "saving"
  <2> SUFFICES ASSUME at[r] = "saving" PROVE FALSE
    OBVIOUS
  <2>1. Save(r) /\ Same(op[r].key, op[r].saw)
    BY <1>1, AtWork DEF Clear, Adopt, NoCredentials, SesRefuses
  <2>2. at'[r] = "committing" /\ at'[r] = "refused"
    BY <2>1 DEF Save, EndsRefused, Leave, Go, Sound, TypeOK
  <2> QED BY <2>2
<1>3. /\ at'[r] \in Ended /\ UNCHANGED <<rows, ses>>
      /\ \A g \in Request \ {r} : at'[g] = at[g] /\ op'[g] = op[g]
  BY DEF EndsRefused, Leave, Go, Ended, Sound, TypeOK
<1>4. at[r] # "committing" /\ ~ Made(r)
  BY <1>1, <1>2 DEF Made
<1> QED BY <1>1, <1>3, <1>4, LooksAgrees

(* A request that begins, and overlaps with none about its value.          *)
LEMMA RequestsAgrees == ASSUME Sound, Sound', Agreed, Requests, ~ excused' PROVE Agreed'
<1> PICK r \in Request, k \in Key : Add(r, k) \/ Refresh(r, k) \/ RemoveIdentity(r, k)
  BY DEF Requests
<1>1. ASSUME NEW kind \in {"add", "refresh", "remove"}, NEW s \in {"creating", "reading", "counting"},
             Begin(r, kind, k), Go(r, s), kind = "add" <=> s = "creating"
      PROVE  Agreed'
  <2>1. /\ at[r] \in Ended /\ at'[r] = s /\ op'[r].key = k /\ op'[r].kind = kind
        /\ kind # "add" => op'[r].saw = rows[k]
        /\ \A g \in Request \ {r} : at'[g] = at[g] /\ op'[g] = op[g]
        /\ UNCHANGED <<rows, ses>>
        /\ \A g \in Busy : op[g].key[2] # k[2]
    BY <1>1 DEF Begin, Go, Sound, TypeOK
  <2>2. k[2] \in Value /\ r \notin Busy /\ Alone(r, k[2])
    BY <2>1 DEF Key, Busy, Alone
  <2>3. Clear(r)'
    BY <1>1, <2>1 DEF Clear, Made, Last, Dropped, Same, Held
  <2>4. ASSUME NEW j \in Key, j[2] = k[2] PROVE Kept(j)'
    <3>1. Held(j) => AtSes(j) # "absent"
      BY <2>1, <2>4 DEF Agreed, Kept
    <3> QED BY <2>1, <3>1 DEF Kept, Held, AtSes
  <2>5. ASSUME OneAccountForAll, NEW a \in Account PROVE Backed(a, k[2])'
    <3>1. Backed(a, k[2])
      BY <2>2, <2>5 DEF Agreed
    <3> QED BY <2>1, <3>1 DEF Backed, Held
  <2> QED BY <2>1, <2>2, <2>3, <2>4, <2>5, OneAgrees
<1> QED BY <1>1 DEF Add, Refresh, RemoveIdentity

(* A step that moves no request, takes no row away and leaves at SES what  *)
(* is there.                                                               *)
LEMMA StillAgrees ==
    ASSUME Sound, Agreed, UNCHANGED <<at, op>>,
           \A k \in Key : /\ Held(k)' <=> Held(k)
                          /\ Held(k) => rows'[k].id = rows[k].id,
           \A a \in Account, v \in Value : ses'[a][v] = "absent" <=> ses[a][v] = "absent"
    PROVE  Agreed'
<1>1. \A k \in Key : AtSes(k)' = "absent" <=> AtSes(k) = "absent"
  BY AccountAssumption DEF AtSes, Key
<1>2. ASSUME NEW g \in Busy PROVE (Alone(g, op[g].key[2]) /\ Clear(g))'
  <2>1. op[g].key \in Key /\ Alone(g, op[g].key[2]) /\ Clear(g)
    BY AtWork
  <2>2. Alone(g, op[g].key[2])'
    BY <2>1 DEF Alone, Busy
  <2>3. OtherReferences(op[g])' = OtherReferences(op[g])
    BY DEF OtherReferences
  <2>4. Same(op[g].key, op[g].saw)' <=> Same(op[g].key, op[g].saw)
    BY <2>1 DEF Same
  <2>5. AtSes(op[g].key)' = "absent" <=> AtSes(op[g].key) = "absent"
    BY <1>1, <2>1 DEF AtSes
  <2>6. Clear(g)'
    BY <2>1, <2>3, <2>4, <2>5 DEF Clear, Made, Last, Dropped
  <2> QED BY <2>2, <2>6
<1>3. ASSUME NEW k \in Key PROVE Kept(k)'
  BY <1>1 DEF Agreed, Kept, Busy, Dropped, Last
<1>4. ASSUME OneAccountForAll, NEW a \in Account, NEW v \in Value PROVE Backed(a, v)'
  <2>1. Backed(a, v)
    BY <1>4 DEF Agreed
  <2>2. \A p \in Project : Held(<<p, v>>)' <=> Held(<<p, v>>)
    BY DEF Key
  <2> QED BY <2>1, <2>2 DEF Backed, Busy, Made
<1>5. (OneAccountForAll' <=> OneAccountForAll) /\ Busy' = Busy
  BY DEF OneAccountForAll, Busy
<1>6. \A g \in Busy' : (Alone(g, op[g].key[2]) /\ Clear(g))'
  BY <1>2, <1>5
<1>7. \A k \in Key : Kept(k)'
  BY <1>3
<1>8. OneAccountForAll' => \A a \in Account, v \in Value : Backed(a, v)'
  BY <1>4, <1>5
<1> QED BY <1>6, <1>7, <1>8 DEF Agreed

(* Until something excuses it, every step keeps the agreement.             *)
LEMMA AgreedStep == ASSUME Sound, Sound', Agreed, [Next]_vars, ~ excused' PROVE Agreed'
<1>1. CASE Requests
  BY <1>1, RequestsAgrees
<1>2. ASSUME NEW r \in Request, Steps(r) \/ SesRefuses(r) \/ RequestDies(r) PROVE Agreed'
  <2>1. ~ RequestDies(r)
    BY DEF RequestDies
  <2> QED BY <1>2, <2>1, RequestSteps, RefusedAgrees, CommitAgrees, GoesAgrees
<1>3. CASE CommitPass
  BY <1>3, PassWrites, StillAgrees DEF CommitPass
<1>4. CASE StartPass \/ Ask \/ PassOver \/ WriteCheck \/ PassDies \/ UNCHANGED vars
  <2>1. UNCHANGED <<rows, ses, at, op>>
    BY <1>4 DEF StartPass, Ask, PassOver, WriteCheck, PassDies, LosePass, vars
  <2> QED BY <2>1, StillAgrees DEF Held
<1>5. CASE \/ \E k \in Key : ComesDue(k)
          \/ \E p \in Project : Connect(p) \/ Disconnect(p)
  <2>1. UNCHANGED <<rows, ses, at, op>>
    BY <1>5 DEF ComesDue, Connect, Disconnect
  <2> QED BY <2>1, StillAgrees DEF Held
<1>6. ASSUME NEW a \in Account, NEW v \in Value, Verification(a, v) PROVE Agreed'
  <2>1. UNCHANGED <<rows, at, op>>
    BY <1>6 DEF Verification
  <2>2. \A b \in Account, w \in Value : ses'[b][w] = "absent" <=> ses[b][w] = "absent"
    BY <1>6 DEF Verification, Statuses, Sound, TypeOK
  <2> QED BY <2>1, <2>2, StillAgrees DEF Held
<1>7. \A a \in Account, v \in Value : ~ DeletedByHand(a, v)
  BY DEF DeletedByHand
<1> QED BY <1>1, <1>2, <1>3, <1>4, <1>5, <1>6, <1>7 DEF Next, PassStep, Failing, Outside

(* Every step keeps the invariant: what is excused stays excused.          *)
LEMMA StepInv == IInv /\ [Next]_vars => IInv'
<1> SUFFICES ASSUME IInv, [Next]_vars PROVE IInv'
  OBVIOUS
<1>1. Sound /\ Sound'
  BY SoundStep DEF IInv
<1>2. excused => excused'
  BY DEF Next, vars, Requests, Add, Refresh, RemoveIdentity, Begin, Steps, Create, Adopt, Find,
         Read, Save, CountReferences, NoCredentials, Delete, DropAtSes, Commit, StartPass,
         PassStep, Ask, PassOver, WriteCheck, CommitPass, LosePass, Failing, PassDies, SesRefuses,
         RequestDies, Refuse, Outside, ComesDue, Verification, DeletedByHand, Connect, Disconnect
<1> QED BY <1>1, <1>2, AgreedStep DEF IInv

(* IInv holds throughout every behaviour.                                  *)
THEOREM Invariance == Spec => []IInv
<1> QED BY InitInv, StepInv, PTL DEF Spec

-----------------------------------------------------------------------------
(* Every variable keeps its type.                                          *)
THEOREM TypeCorrect == Spec => []TypeOK
<1>1. IInv => TypeOK
  BY DEF IInv, Sound
<1> QED BY <1>1, Invariance, PTL

(* Between requests SES has every identity a row names, and on one account *)
(* none that no row names: count_other_references, asked before the row    *)
(* goes, and the order of the SES call and the commit suffice for that.    *)
THEOREM SesAgrees == Spec => []SesAgreesWithRows
<1>1. IInv => SesAgreesWithRows
  BY DEF IInv, Agreed, Kept, Backed, SesAgreesWithRows
<1> QED BY <1>1, Invariance, PTL
=============================================================================
