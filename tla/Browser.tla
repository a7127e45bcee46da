------------------------------- MODULE Browser -------------------------------
(***************************************************************************)
(* Chromium under control (src/visual.py, src/browser_discovery.py): one    *)
(* BrowserCapturer captures pages one after the other, for the rendered     *)
(* discovery of a security scan or for the single page of a visual target.  *)
(* What a page asks for goes to a route handler, which fetches it through   *)
(* HttpCollector.collect_one() in a thread of its own or aborts it.  A      *)
(* redirect that the handler gives as an answer is followed by Chromium     *)
(* itself, which asks no handler for what comes of it.  Threads are not     *)
(* stopped when their capture ends.                                         *)
(*                                                                         *)
(* The web, the DNS and the browser are the environment: names resolve to   *)
(* other addresses at any time, documents ask for anything, every call of   *)
(* the browser may fail.  Requests the handler aborts at sight (media,      *)
(* writes) change nothing here; the inventory of operations is left out.    *)
(***************************************************************************)
EXTENDS Naturals, Sequences, FiniteSets

CONSTANTS
  Urls, Origins,
  OriginOf,      \* [Urls -> Origins]
  Secure,        \* the origins with scheme https
  LinkLists,     \* the lists of links a rendered document may hold
  None,          \* a link no parser accepts, no result, no crop
  Raised,        \* the result of a capture() that an exception leaves
  Start,         \* the target
  Options        \* mode and ceilings; asks and moves bound the requests of a
                 \* page and the changes of the DNS

Modes == {"discovery", "analysis", "capture"}

ASSUME BrowserAssumption ==
  /\ OriginOf \in [Urls -> Origins] /\ Secure \subseteq Origins
  /\ LinkLists \subseteq Seq(Urls \cup {None}) /\ <<>> \in LinkLists
  /\ None \notin Urls /\ Start \in Urls
  /\ Options \subseteq [mode : Modes, pages : Nat \ {0}, depth : Nat, requests : Nat \ {0},
                        asks : Nat, moves : Nat]

VARIABLES
  options, scope,   \* scope: the origins that may be asked
  good, moved,      \* origins all of whose DNS answers are allowed by now; changes so far
  phase, outcome,   \* where the run is, and how it ended
  queue, depth, seen, errors, pages,   \* of discover_browser()
  number, url, final, main,            \* of capture(): final is page.url, main the document's fate
  links, kept, result,
  flying,           \* requests whose thread has resolved the name, not yet fetched
  slots,            \* requests counted by the budget of each capture
  given, accepted,  \* crop sent to the provider; was its answer accepted
  complete,
  sent, read        \* history: requests of the handler; links read from each page

walk    == <<queue, depth, seen, errors, pages>>
locals  == <<main, links, kept, result>>
page    == <<number, url, final, locals>>
web     == <<flying, slots, sent>>
verdict == <<given, accepted, complete>>
fixed   == <<options, scope>>
dns     == <<good, moved>>
vars    == <<fixed, dns, phase, outcome, walk, page, web, verdict, read>>

Item(u, d) == [url |-> u, depth |-> d]
Listed(us) == {us[i] : i \in 1..Len(us)}
Discovers == options.mode = "discovery"

Init ==
  /\ options \in Options
  /\ scope \in {S \in SUBSET Origins : OriginOf[Start] \in S}
  /\ good = Origins /\ moved = 0
  /\ phase = "launch" /\ outcome = "running"
  /\ queue = <<Item(Start, 0)>> /\ depth = 0 /\ seen = {} /\ errors = {} /\ pages = {}
  /\ number = 0 /\ url = Start /\ final = Start /\ main = "waiting"
  /\ links = <<>> /\ kept = {} /\ result = None
  /\ flying = {} /\ slots = [k \in 1..options.pages |-> 0]
  /\ given = None /\ accepted = FALSE /\ complete = FALSE
  /\ sent = {} /\ read = [u \in Urls |-> <<>>]

Ends(o) == phase' = "over" /\ outcome' = o
-----------------------------------------------------------------------------
(* The loop of discover_browser(). *)

\* A new context, a new budget and new lists for each capture.
Open(u) ==
  /\ phase' = "opened"
  /\ number' = number + 1 /\ url' = u /\ final' = u
  /\ UNCHANGED locals

\* What capture() knew is gone with it.
Forget ==
  /\ url' = Start /\ final' = Start
  /\ main' = "waiting" /\ links' = <<>> /\ kept' = {} /\ result' = None
  /\ UNCHANGED number

Launch ==
  /\ phase = "launch"
  /\ IF Discovers THEN phase' = "loop" /\ UNCHANGED page ELSE Open(Start)
  /\ UNCHANGED <<fixed, dns, outcome, walk, web, verdict, read>>

LaunchFails ==
  /\ phase = "launch" /\ Ends("raised")
  /\ UNCHANGED <<fixed, dns, walk, page, web, verdict, read>>

Wanted(u) == u # None /\ OriginOf[u] \in scope /\ u \notin seen
Spent == Cardinality(seen) >= options.pages

Take == phase = "loop" /\ queue # <<>> /\ queue' = Tail(queue)

Drop ==
  /\ Take /\ ~Wanted(Head(queue).url)
  /\ UNCHANGED <<fixed, dns, phase, outcome, depth, seen, errors, pages, page, web, verdict, read>>

\* The page ceiling or the deadline.
Exhaust(late) ==
  /\ Take /\ Wanted(Head(queue).url)
  /\ Spent \/ late
  /\ errors' = errors \cup {"budget"}
  /\ Ends("returned")
  /\ UNCHANGED <<fixed, dns, depth, seen, pages, page, web, verdict, read>>

Visit ==
  /\ Take /\ Wanted(Head(queue).url)
  /\ ~Spent
  /\ seen' = seen \cup {Head(queue).url} /\ depth' = Head(queue).depth
  /\ Open(Head(queue).url)
  /\ UNCHANGED <<fixed, dns, outcome, errors, pages, web, verdict, read>>

Finish ==
  /\ phase = "loop" /\ queue = <<>> /\ Ends("returned")
  /\ UNCHANGED <<fixed, dns, walk, page, web, verdict, read>>
-----------------------------------------------------------------------------
(* The route handler and collect_one(). *)

Capturing == {"opened", "loading", "settled", "read", "closing"}
Live(r) == r.of = number /\ phase \in Capturing
Awaited(r) == r.main /\ r.of = number /\ phase = "loading"
Loaded == {"ok", "other", "denied"}

\* Mutant: what is resolved last is dialled.
Dialled(r) == OriginOf[r.url] \in good
Pinned(r) == r.approved

Approved(u) == OriginOf[u] \in scope /\ OriginOf[u] \in good
Request(u, m) == [of |-> number, url |-> u, main |-> m, approved |-> OriginOf[u] \in good]

Rebind(o) ==
  /\ outcome = "running"
  /\ moved < options.moves /\ moved' = moved + 1
  /\ good' = IF o \in good THEN good \ {o} ELSE good \cup {o}
  /\ UNCHANGED <<fixed, phase, outcome, walk, page, web, verdict, read>>

\* page.goto() asks for the document.
GoTo ==
  /\ phase = "opened" /\ phase' = "loading"
  /\ IF Approved(url)
     THEN flying' = flying \cup {Request(url, TRUE)} /\ UNCHANGED main
     ELSE main' = "failed" /\ UNCHANGED flying
  /\ UNCHANGED <<fixed, dns, outcome, walk, number, url, final, links, kept, result,
                 slots, sent, verdict, read>>

\* The document asks for more; what is not approved is aborted.
Ask(u) ==
  /\ phase \in {"loading", "settled"} /\ main \in Loaded
  /\ Approved(u)
  /\ Cardinality({r \in flying : r.of = number}) + slots[number] < options.asks
  /\ flying' = flying \cup {Request(u, FALSE)}
  /\ UNCHANGED <<fixed, dns, phase, outcome, walk, page, slots, sent, verdict, read>>

HasSlot(k) == slots[k] < options.requests

Claim(r) ==
  /\ HasSlot(r.of)
  /\ slots' = [slots EXCEPT ![r.of] = @ + 1]
  /\ sent' = sent \cup {[origin |-> OriginOf[r.url], approved |-> Pinned(r)]}

Lands(r) == r \in flying /\ UNCHANGED <<fixed, dns, phase, outcome, walk, number, url, links,
                                        result, verdict, read>>
Document(r, fate) == main' = IF Awaited(r) THEN fate ELSE main

\* No room in the budget, no connection, or too long an answer.
Abort(r) ==
  /\ Lands(r) /\ flying' = flying \ {r}
  /\ Claim(r) \/ UNCHANGED <<slots, sent>>
  /\ Document(r, "failed")
  /\ UNCHANGED <<final, kept>>

\* Only what a capture still under way has asked for reaches its lists.
Answer(r, fate) ==
  /\ Lands(r) /\ flying' = flying \ {r}
  /\ Claim(r)
  /\ Document(r, fate)
  /\ kept' = IF fate = "ok" /\ Live(r) THEN kept \cup {r.url} ELSE kept
  /\ UNCHANGED final

Downgrade(u, d) == OriginOf[u] \in Secure /\ OriginOf[d] \notin Secure

\* A redirect is released when its destination is approved.
Redirect(r, d) ==
  /\ Lands(r) /\ flying' = flying \ {r}
  /\ Approved(d) /\ ~Downgrade(r.url, d)
  /\ Claim(r)
  /\ Document(r, "followed")
  /\ final' = IF Awaited(r) THEN d ELSE final
  /\ UNCHANGED kept

\* Then Chromium asks for the document: it is led on, to anywhere, or gets an
\* answer over a connection of its own, be its address allowed or not.
Follows == phase = "loading" /\ main = "followed" /\
           UNCHANGED <<fixed, dns, phase, outcome, walk, number, url, links, kept, result,
                       web, verdict, read>>

Follow(d) == Follows /\ final' = d /\ UNCHANGED main

Arrive(fate) ==
  /\ Follows /\ main' = fate /\ UNCHANGED final
  /\ fate = "denied" => OriginOf[final] \notin good
-----------------------------------------------------------------------------
(* capture(). *)

Same == UNCHANGED <<fixed, dns, walk, number, url, final, main, web, verdict>>
Capture(error, ok, ls) == [error |-> error, ok |-> ok, links |-> ls]
Results == [error : BOOLEAN, ok : BOOLEAN, links : LinkLists]

Settle ==
  /\ phase = "loading" /\ main \in Loaded /\ phase' = "settled"
  /\ Same /\ UNCHANGED <<outcome, links, kept, result, read>>

Returns(c) == phase' = "closing" /\ result' = c /\ UNCHANGED outcome

\* The address of the page is checked once more, and the one it was fetched
\* from; an answer given by the handler has none.
Deny ==
  /\ phase = "settled"
  /\ ~Approved(final) \/ main = "denied"
  /\ Returns(Capture(TRUE, FALSE, <<>>))
  /\ Same /\ UNCHANGED <<links, kept, read>>

NotFound ==
  /\ phase = "settled" /\ Approved(final) /\ main = "other"
  /\ Returns(Capture(FALSE, FALSE, <<>>))
  /\ Same /\ UNCHANGED <<links, kept, read>>

ReadPage(ls) ==
  /\ phase = "settled" /\ Approved(final) /\ main = "ok"
  /\ phase' = "read" /\ links' = ls
  /\ read' = [read EXCEPT ![url] = ls]
  /\ Same /\ UNCHANGED <<outcome, kept, result>>

\* With a screenshot, unless this is a discovery.
Captured ==
  /\ phase = "read" /\ Returns(Capture(FALSE, TRUE, links))
  /\ Same /\ UNCHANGED <<links, kept, read>>

\* The handler of exceptions reads a variable that has no value until the
\* links are read: its own exception leaves capture().
BrowserFails ==
  /\ phase \in Capturing \ {"closing"}
  /\ phase = "read" => ~Discovers
  /\ Returns(IF phase = "read" THEN Capture(TRUE, FALSE, links) ELSE Raised)
  /\ Same /\ UNCHANGED <<links, kept, read>>

\* Mutant: new links come first.
Stacked(ls) == [i \in 1..Len(ls) |-> Item(ls[i], depth + 1)] \o queue
Extended(ls) == queue \o [i \in 1..Len(ls) |-> Item(ls[i], depth + 1)]

\* What capture() raises, or close() in place of a result, is caught by nobody
\* up to the worker.
Escape ==
  /\ phase = "closing" /\ Ends("raised") /\ Forget
  /\ UNCHANGED <<fixed, dns, walk, web, verdict, read>>

Collect ==
  /\ phase = "closing" /\ result # Raised /\ Discovers
  /\ phase' = "loop"
  /\ IF result.error
     THEN errors' = errors \cup {"page"} /\ UNCHANGED <<pages, queue>>
     ELSE /\ pages' = IF result.ok THEN pages \cup kept ELSE pages
          /\ queue' = IF depth < options.depth THEN Extended(result.links) ELSE queue
          /\ UNCHANGED errors
  /\ Forget
  /\ UNCHANGED <<fixed, dns, outcome, depth, seen, web, verdict, read>>

\* asyncio.wait_for() gives up; the context is closed on the way out.
GiveUp ==
  /\ phase \in Capturing
  /\ IF Discovers
     THEN Ends("exhausted") /\ Forget
     ELSE /\ phase' = "judge" /\ result' = Capture(TRUE, FALSE, <<>>)
          /\ UNCHANGED <<outcome, number, url, final, main, links, kept>>
  /\ UNCHANGED <<fixed, dns, walk, web, verdict, read>>
-----------------------------------------------------------------------------
(* A visual target: process(), _analyze() and _parse_analysis(). *)

Present ==
  /\ phase = "closing" /\ result # Raised /\ ~Discovers
  /\ phase' = "judge"
  /\ UNCHANGED <<fixed, dns, outcome, walk, page, web, verdict, read>>

Analysed == options.mode = "analysis"

\* Mutant: that there is nothing to analyse is no error.
Excused == result.error
\* Without an analysis the status of the page does not count.
Failed == result.error \/ (Analysed /\ ~result.ok)

Judged(failed) ==
  /\ complete' = (~failed /\ Analysed)
  /\ errors' = IF failed THEN {"page"} ELSE {}
  /\ Ends("returned")

Judge ==
  /\ phase = "judge"
  /\ result.error \/ ~Analysed \/ ~result.ok
  /\ Judged(Failed)
  /\ UNCHANGED <<fixed, dns, queue, depth, seen, pages, page, web, given, accepted, read>>

\* The operator's crop may be missing, no picture, or the screenshot itself.
\* Only another picture is sent, and only a well-formed answer is accepted.
Usable(crop) == crop = "other"

Analyse(crop, answer) ==
  /\ phase = "judge"
  /\ ~result.error /\ Analysed /\ result.ok
  /\ given' = IF Usable(crop) THEN crop ELSE None
  /\ accepted' = (Usable(crop) /\ answer)
  /\ Judged(~accepted')
  /\ UNCHANGED <<fixed, dns, queue, depth, seen, pages, page, web, read>>
-----------------------------------------------------------------------------
Lookup ==
  \/ \E o \in Origins : Rebind(o)
  \/ \E r \in flying :
       \/ Abort(r)
       \/ \E fate \in {"ok", "other"} : Answer(r, fate)
       \/ \E d \in Urls : Redirect(r, d)
  \/ \E d \in Urls : Follow(d)
  \/ \E fate \in Loaded \cup {"failed"} : Arrive(fate)

Loop ==
  \/ Launch \/ LaunchFails
  \/ Drop \/ Visit \/ Finish
  \/ \E late \in BOOLEAN : Exhaust(late)

Page ==
  \/ GoTo \/ Settle
  \/ \E u \in Urls : Ask(u)
  \/ Deny \/ NotFound \/ Captured
  \/ \E ls \in LinkLists : ReadPage(ls)
  \/ BrowserFails \/ Escape \/ GiveUp
  \/ Collect \/ Present

Next ==
  \/ Loop \/ Page \/ Lookup
  \/ Judge
  \/ \E crop \in {"missing", "bad", "same", "other"}, answer \in BOOLEAN : Analyse(crop, answer)

Spec == Init /\ [][Next]_vars
-----------------------------------------------------------------------------
\* What the handler has asked for.
Handled ==
  /\ \A s \in sent : s.origin \in scope /\ s.approved
  /\ \A k \in DOMAIN slots : slots[k] <= options.requests

\* The page at hand is read, or captured.
Shown == \/ phase = "read"
         \/ phase \in {"closing", "judge"} /\ result # Raised /\ result.ok

\* Whatever names resolve to meanwhile, and however many threads outlive their
\* capture, no request of the handler leaves the allowed origins, dials an
\* address that was not approved, or goes over the budget of its page.  What
\* Chromium follows by itself is under none of these (nothing in the code
\* stands in its way); but wherever it is led, no page is read or captured
\* whose address is out of scope.
RequestsAreApproved == Handled /\ (Shown => OriginOf[final] \in scope)

\* What links, as they were read, lead to within n steps.
Further(r, sc, S) ==
  S \cup {v \in Urls : OriginOf[v] \in sc /\ \E u \in S : v \in Listed(r[u])}
Within[n \in Nat] == IF n = 0 THEN {Start} ELSE Further(read, scope, Within[n - 1])

\* A discovery without errors has captured all that is within the depth, the
\* shortest way counting, and keeps no evidence of another site.
QuietMeansRendered ==
  outcome = "returned" /\ Discovers =>
    /\ errors = {} => Within[options.depth] = seen
    /\ \A u \in pages : OriginOf[u] \in scope
    /\ Cardinality(seen) <= options.pages

\* A visual target is complete only if its page answered 200 and the provider
\* accepted a crop that is not the screenshot; nothing else is ever sent to
\* it, and a success that was to be analysed is complete.
CompleteIsAnalysed ==
  /\ complete => accepted /\ given = "other" /\ result.ok /\ ~result.error
  /\ given # None => Analysed /\ given = "other" /\ result.ok
  /\ outcome = "returned" /\ Analysed => (errors = {} <=> complete)

\* The inductive invariant of RequestsAreApproved: an address was approved
\* before its request got a thread.
FlightInv ==
  /\ options \in Options
  /\ \A r \in flying : OriginOf[r.url] \in scope /\ r.approved
  /\ slots \in [1..options.pages -> Nat]
  /\ Handled

\* The inductive invariant of CompleteIsAnalysed: before the end nothing was
\* sent, and only a discovery loops.
VerdictInv ==
  /\ options \in Options
  /\ phase = "over" <=> outcome # "running"
  /\ phase = "loop" => Discovers
  /\ phase = "judge" => ~Discovers
  /\ phase # "over" => given = None /\ ~accepted /\ ~complete
  /\ complete \in BOOLEAN /\ accepted \in BOOLEAN
  /\ CompleteIsAnalysed

-----------------------------------------------------------------------------
(* The inductive invariant of QuietMeansRendered: a breadth-first search.  *)

Current == IF phase \in Capturing THEN {url} ELSE {}
Queued(u) == \E i \in 1..Len(queue) : queue[i].url = u
QueuedAt(u, d) == \E i \in 1..Len(queue) : queue[i] = Item(u, d)

\* Types, and the ceiling of pages.
WalkInv ==
  /\ options \in Options /\ scope \subseteq Origins /\ OriginOf[Start] \in scope
  /\ queue \in Seq([url : Urls \cup {None}, depth : Nat])
  /\ depth \in 0..options.depth
  /\ seen \subseteq Urls /\ IsFiniteSet(seen) /\ Cardinality(seen) <= options.pages
  /\ \A u \in pages \cup kept : OriginOf[u] \in scope
  /\ url \in Urls /\ links \in LinkLists /\ read \in [Urls -> LinkLists]

\* A page is read once, and what a capture returns was read from its page.
ReadInv ==
  Discovers =>
    /\ phase \in Capturing => url \in seen
    /\ \A u \in Urls \ seen : read[u] = <<>>
    /\ phase \in {"opened", "loading", "settled"} => read[url] = <<>>
    /\ phase = "read" => links = read[url]
    /\ phase = "closing" /\ result # Raised =>
         result \in Results /\ (~result.error => result.links = read[url])

\* The queue holds the rest of one level and then the begin of the next.
LevelInv ==
  /\ \A i \in 1..Len(queue) : queue[i].depth \in depth..(depth + 1) /\ queue[i].depth <= options.depth
  /\ \A i, j \in 1..Len(queue) : i <= j => queue[i].depth <= queue[j].depth

\* What is seen or queued is within its depth; and nothing is left out: what
\* is within the present depth is seen or queued for it, what is within less
\* is seen and done with, and so are the links of all pages done with.
Quiet == Discovers /\ errors = {} /\ outcome \in {"running", "returned"}
LinksOf(u) == {v \in Urls : OriginOf[v] \in scope /\ v \in Listed(read[u])}
SearchInv ==
  Quiet =>
    /\ seen \subseteq Within[depth]
    /\ \A i \in 1..Len(queue) :
         LET u == queue[i].url IN u # None /\ OriginOf[u] \in scope => u \in Within[queue[i].depth]
    /\ \A u \in Within[depth] : u \in seen \/ QueuedAt(u, depth)
    /\ depth > 0 => Within[depth - 1] \subseteq seen \ Current
    /\ depth < options.depth =>
         \A u \in seen \ Current : \A v \in LinksOf(u) : v \in seen \/ Queued(v)
    /\ outcome = "returned" => queue = <<>> /\ phase = "over"

RenderInv == WalkInv /\ ReadInv /\ LevelInv /\ SearchInv
=============================================================================
