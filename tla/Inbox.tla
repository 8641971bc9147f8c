-------------------------------- MODULE Inbox --------------------------------
(***************************************************************************)
(* What the worker promises of whatever SES tells it, with none of the     *)
(* machinery.                                                              *)
(*                                                                         *)
(* A notice is about one item: an event in the life of a message, or a     *)
(* message that came in.  Several notices may be about the same item, and  *)
(* each is delivered again and again until it is removed.  An item is      *)
(* recorded at most once, and a notice is removed only when its item has   *)
(* been recorded or somebody has found that it needs no record; or else    *)
(* the queue goes, and whatever is on it.                                  *)
(***************************************************************************)
EXTENDS Naturals

CONSTANTS
    Notice,  \* notices, by what SNS calls them
    Item,    \* what can be recorded
    ItemOf   \* the item of each notice

VARIABLES
    place,   \* "unsent", "waiting" or "gone"
    times,   \* how often each item has been recorded
    excused  \* notices found to need no record

vars == <<place, times, excused>>

Sent == {n \in Notice : place[n] # "unsent"}
Waiting == {n \in Notice : place[n] = "waiting"}
Settled(n) == n \in excused \/ times[ItemOf[n]] > 0

Init ==
    /\ place = [n \in Notice |-> "unsent"]
    /\ times = [i \in Item |-> 0]
    /\ excused = {}

Send(n) ==
    /\ place[n] = "unsent"
    /\ place' = [place EXCEPT ![n] = "waiting"]
    /\ UNCHANGED <<times, excused>>

(* By whoever has a notice of it, removed since or not.                    *)
RecordItem(n) ==
    /\ n \in Sent
    /\ times[ItemOf[n]] = 0
    /\ times' = [times EXCEPT ![ItemOf[n]] = 1]
    /\ UNCHANGED <<place, excused>>

(* One that nobody knows the message of, or several at once that came to   *)
(* nothing together.                                                       *)
Excuse ==
    /\ \E some \in SUBSET Sent : excused' = excused \cup some
    /\ UNCHANGED <<place, times>>

Remove(n) ==
    /\ n \in Waiting
    /\ Settled(n)
    /\ place' = [place EXCEPT ![n] = "gone"]
    /\ UNCHANGED <<times, excused>>

LoseQueue ==
    /\ place' = [n \in Notice |-> IF n \in Waiting THEN "gone" ELSE place[n]]
    /\ excused' = excused \cup Waiting
    /\ UNCHANGED times

Next ==
    \/ \E n \in Notice : Send(n) \/ RecordItem(n) \/ Remove(n)
    \/ Excuse \/ LoseQueue

Spec == Init /\ [][Next]_vars
=============================================================================
