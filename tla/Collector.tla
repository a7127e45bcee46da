------------------------------ MODULE Collector ------------------------------
(***************************************************************************)
(* One HTTP collection (src/http.py): HttpCollector.collect() follows a     *)
(* chain of redirects one hop at a time.  Every hop is checked against the  *)
(* allowed origins, resolved, given a slot of the target's RequestBudget    *)
(* and requested; a redirect is followed or recorded as blocked.            *)
(*                                                                         *)
(* The web is the environment: a hop is refused by the address policy or    *)
(* fails at any moment, and answers anything.  Deadlines and pacing show    *)
(* only as failures.  The module is EXTENDed by the code that collects.     *)
(***************************************************************************)
EXTENDS Naturals, Sequences

CONSTANTS
  Urls, Origins,
  OriginOf,     \* [Urls -> Origins]
  Secure,       \* the origins with scheme https
  LinkLists,    \* the lists of links a document may hold
  None,         \* no URL, or one that no parser accepts
  Failed        \* the answer of a collection that raised

ASSUME CollectorAssumption ==
  /\ OriginOf \in [Urls -> Origins]
  /\ Secure \subseteq Origins
  /\ LinkLists \subseteq Seq(Urls \cup {None}) /\ <<>> \in LinkLists
  /\ None \notin Urls

VARIABLES
  slots,      \* requests counted by the budget
  allowed,    \* origins the collector may ask
  limit,      \* max_redirects of this call
  here,       \* URL about to be requested, None between calls
  trail,      \* URLs requested by this call
  answer      \* how the last call ended

collector == <<slots, allowed, limit, here, trail, answer>>

Reasons == {"", "invalid", "downgrade", "origin", "limit"}
Answers == [url : Urls, blocked : Reasons, links : LinkLists]

CollectorTypeOK ==
  /\ slots \in Nat /\ limit \in Nat
  /\ allowed \subseteq Origins
  /\ here \in Urls \cup {None}
  /\ trail \in Seq(Urls)
  /\ answer \in Answers \cup {None, Failed}

\* Mutant: the allowed origins are not looked at.
Anywhere(u) == TRUE
InScope(u) == OriginOf[u] \in allowed

Collect(u, l) ==
  /\ here = None /\ here' = u
  /\ limit' = l
  /\ trail' = <<>>
  /\ answer' = None
  /\ UNCHANGED <<slots, allowed>>

Ends(a) == here' = None /\ answer' = a /\ UNCHANGED <<allowed, limit>>

\* Mutant: the budget lets one request too many through.
OneMore(max) == slots <= max
HasSlot(max) == slots < max

\* The origin or an address is denied, or the budget is spent.
Refuse(max) ==
  /\ here # None
  /\ Ends(Failed)
  /\ UNCHANGED <<slots, trail>>

Claim(max) ==
  /\ here # None
  /\ InScope(here)
  /\ HasSlot(max)
  /\ slots' = slots + 1
  /\ trail' = Append(trail, here)

\* The slot stays counted when pacing or the request itself then fails.
Lose(max) == Claim(max) /\ Ends(Failed)

Answer(max, ls) ==
  /\ Claim(max)
  /\ Ends([url |-> here, blocked |-> "", links |-> ls])

\* Mutant: a redirect from HTTPS to HTTP is followed.
NoDowngrade(u, d) == FALSE
Downgrade(u, d) == OriginOf[u] \in Secure /\ OriginOf[d] \notin Secure

AtLimit == Len(trail) >= limit

\* Why a redirect to d is not followed.  Only here is the limit looked at,
\* so that a chain of limit + 1 requests is allowed.
Blocked(d) ==
  IF d = None THEN "invalid"
  ELSE IF Downgrade(here, d) THEN "downgrade"
  ELSE IF ~InScope(d) THEN "origin"
  ELSE IF AtLimit THEN "limit"
  ELSE ""

Redirect(max, d) ==
  /\ Claim(max)
  /\ IF Blocked(d) = ""
     THEN here' = d /\ UNCHANGED <<allowed, limit, answer>>
     ELSE Ends([url |-> here, blocked |-> Blocked(d), links |-> <<>>])

Hop(max) ==
  \/ Refuse(max)
  \/ Lose(max)
  \/ \E ls \in LinkLists : Answer(max, ls)
  \/ \E d \in Urls \cup {None} : Redirect(max, d)
=============================================================================
