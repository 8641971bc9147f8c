------------------------------- MODULE Listing -----------------------------
(***************************************************************************)
(* Reading a list page by page, newest first: /v1/emails, /v1/inbound and  *)
(* the inbox.  Rows arrive meanwhile; their ids are drawn before they are  *)
(* committed, so that one may appear below rows that are there already.    *)
(* No row is ever removed.                                                 *)
(***************************************************************************)
EXTENDS Naturals, FiniteSets, FiniteSetsExt

CONSTANTS
    MaxId,      \* bound: ids
    MaxLimit    \* bound: rows asked for at once

ASSUME IdAssumption == MaxId \in Nat /\ MaxLimit \in Nat \ {0}

VARIABLES
    committed,  \* ids of the rows a query sees
    reader      \* what one reader has been given

listingVars == <<committed, reader>>

(* more: has_more of the last page, or that there was none yet.  there:    *)
(* what was committed when the first page was asked for.                   *)
NotReading == [pages |-> 0, given |-> {}, twice |-> FALSE, last |-> 0, more |-> TRUE, there |-> {}]

ListingInit ==
    /\ committed = {}
    /\ reader = NotReading

Arrives(id) ==
    /\ id \notin committed
    /\ committed' = committed \cup {id}
    /\ UNCHANGED reader

(* Mutant: one row too few is read to know whether there are more.         *)
PageShort(limit) ==
    LET rows == {id \in committed : reader.pages > 0 => id < reader.last}
        Newest(n) == {id \in rows : Cardinality({o \in rows : o > id}) < n}
    IN [data |-> Newest(limit), more |-> Cardinality(Newest(limit)) > limit]

(* list_emails, list_inbound, list_received: after the last id given, one  *)
(* more than was asked for.                                                *)
Page(limit) ==
    LET rows == {id \in committed : reader.pages > 0 => id < reader.last}
        Newest(n) == {id \in rows : Cardinality({o \in rows : o > id}) < n}
    IN [data |-> Newest(limit), more |-> Cardinality(Newest(limit + 1)) > limit]

(* A client follows the pages while there are more, each of its own size.  *)
ReadPage(limit) ==
    LET page == Page(limit) IN
    /\ reader.more
    /\ reader' = [pages |-> reader.pages + 1,
                  given |-> reader.given \cup page.data,
                  twice |-> reader.twice \/ reader.given \cap page.data # {},
                  last |-> IF page.data = {} THEN reader.last ELSE Min(page.data),
                  more |-> page.more,
                  there |-> IF reader.pages = 0 THEN committed ELSE reader.there]
    /\ UNCHANGED committed

StopReading ==
    /\ reader # NotReading
    /\ reader' = NotReading
    /\ UNCHANGED committed

ListingNext ==
    \/ \E id \in 1..MaxId : Arrives(id)
    \/ \E limit \in 1..MaxLimit : ReadPage(limit)
    \/ StopReading

ListingSpec == ListingInit /\ [][ListingNext]_listingVars

-----------------------------------------------------------------------------
(* Whatever arrives between two pages, and wherever it sorts, a reader is  *)
(* given no row twice, none out of order, and by the last page every row   *)
(* that was there when it began; a last page is never followed by an       *)
(* invitation to read an empty one ("an offset would silently skip the     *)
(* message that moved across the boundary").                               *)
EachOnce ==
    /\ ~reader.twice
    /\ ~reader.more => reader.there \subseteq reader.given
    /\ reader.pages > 0 =>
           /\ \A id \in reader.there : id > reader.last => id \in reader.given
           /\ \A id \in reader.given : id >= reader.last
           /\ reader.more => \E id \in committed : id < reader.last
=============================================================================
