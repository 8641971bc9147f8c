---------------------------- MODULE Destinations ----------------------------
(***************************************************************************)
(* Where a webhook may be posted to.  A name is checked when it is         *)
(* registered and again at each delivery, by the addresses it answers with *)
(* at that moment; the post then goes to the address that was checked.     *)
(* Names change what they answer with at any time, users change the URL,   *)
(* and the instance is restarted with other settings.                      *)
(***************************************************************************)
EXTENDS Naturals, Sequences, FiniteSets, Functions

CONSTANTS
    Hosts,      \* names a URL may have
    MaxAnswers  \* bound: addresses a name answers with

ASSUME MaxAnswersAssumption == MaxAnswers \in Nat \ {0}

VARIABLES
    policy,    \* policy_from the settings the process was started with
    answers,   \* what each name answers with
    url,       \* webhook_endpoints.url
    delivery,  \* the attempt in progress: the Destination it validated
    posted     \* the request the last step made, if it made one

destVars == <<policy, answers, url, delivery, posted>>

(* ipaddress: an address by what decides; "unreadable" does not parse.     *)
(* "inside" is private and in the range an operator allows; "mapped inside" *)
(* is the same address as IPv4-mapped IPv6, which is in no IPv4 network.   *)
Addresses == {"public", "mapped public", "private", "mapped private", "inside", "mapped inside",
              "unreadable"}

(* An IPv4-mapped IPv6 address is judged by the IPv4 address in it.        *)
Unmapped(address) ==
    CASE address = "mapped public" -> "public"
      [] address = "mapped private" -> "private"
      [] address = "mapped inside" -> "inside"
      [] OTHER -> address

IsPublic(address) == Unmapped(address) = "public"

(* WEBHOOK_ALLOWED_CIDRS: nothing, the range of "inside", or a typo.       *)
Networks == {"none", "inside", "malformed"}

Policies == {[allow_private |-> local, require_https |-> ~local, allowed_networks |-> networks] :
                local \in BOOLEAN, networks \in Networks}

NoUrl == [scheme |-> "none", login |-> FALSE, host |-> "none"]

(* What urlparse makes of a URL; over-long and empty ones have no host.    *)
Urls == [scheme : {"http", "https"}, login : BOOLEAN, host : Hosts]

NoDelivery == [host |-> "none", addresses |-> <<>>]

DestInit ==
    /\ policy \in {p \in Policies : p.allowed_networks # "malformed"}
    /\ answers = [h \in Hosts |-> <<"public">>]
    /\ url = NoUrl
    /\ delivery = NoDelivery
    /\ posted = {}

AddressAllowed(address) ==
    \/ policy.allowed_networks = "inside" /\ address = "inside"
    \/ IsPublic(address)
    \/ policy.allow_private

CheckUrl(u) == (policy.require_https => u.scheme = "https") /\ ~u.login

(* validate: every answer is read and every one of them has to be allowed. *)
(* A range that does not parse raises before anything is asked.            *)
Validates(u) ==
    /\ policy.allowed_networks # "malformed"
    /\ CheckUrl(u)
    /\ answers[u.host] # <<>>
    /\ \A address \in Range(answers[u.host]) :
           address # "unreadable" /\ AddressAllowed(address)

Resolves(h, seq) ==
    /\ answers[h] # seq
    /\ answers' = [answers EXCEPT ![h] = seq]
    /\ posted' = {}
    /\ UNCHANGED <<policy, url, delivery>>

(* create_endpoint, update_endpoint_url.                                   *)
SetUrl(u) ==
    /\ url # u
    /\ Validates(u)
    /\ url' = u
    /\ posted' = {}
    /\ UNCHANGED <<policy, answers, delivery>>

(* deliver_one, up to the request.  A refusal records a failed delivery.   *)
Validate ==
    /\ url # NoUrl
    /\ delivery = NoDelivery
    /\ Validates(url)
    /\ delivery' = [host |-> url.host, addresses |-> answers[url.host]]
    /\ posted' = {}
    /\ UNCHANGED <<policy, answers, url>>

(* Mutant: the client resolves the name again.                             *)
PinnedByName(d) == IF answers[d.host] = <<>> THEN d.addresses[1] ELSE answers[d.host][1]

(* Destination.pinned, which pinned_url writes into the URL.               *)
Pinned(d) == d.addresses[1]

(* _post: to the pinned address, under the name's certificate, following   *)
(* no redirect.                                                            *)
Post ==
    /\ delivery # NoDelivery
    /\ posted' = {[to |-> Pinned(delivery), addresses |-> delivery.addresses]}
    /\ delivery' = NoDelivery
    /\ UNCHANGED <<policy, answers, url>>

(* Other settings; a delivery in progress dies with its process.           *)
Restart(p) ==
    /\ p # policy
    /\ policy' = p
    /\ delivery' = NoDelivery
    /\ posted' = {}
    /\ UNCHANGED <<answers, url>>

DestNext ==
    \/ \E h \in Hosts :
           \E seq \in UNION {[1..n -> Addresses] : n \in 0..MaxAnswers} : Resolves(h, seq)
    \/ \E u \in Urls : SetUrl(u)
    \/ Validate
    \/ Post
    \/ \E p \in Policies : Restart(p)

DestSpec == DestInit /\ [][DestNext]_destVars

-----------------------------------------------------------------------------
(* However a name changes its answers between registration, the check and  *)
(* the connection, and whatever settings it was registered under, a        *)
(* request leaves only for a public address, or where the settings in      *)
(* force allow an internal one; a name that answered with one address that *)
(* is not allowed is not posted to at all ("the second time is the one     *)
(* that counts").                                                          *)
Reachable(address) ==
    \/ address \in {"public", "mapped public"}
    \/ policy.allow_private /\ address # "unreadable"
    \/ policy.allowed_networks = "inside" /\ address = "inside"

PostsWhereAllowed ==
    \A p \in posted :
        /\ Reachable(p.to)
        /\ \A address \in Range(p.addresses) : Reachable(address)
=============================================================================
