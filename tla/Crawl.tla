-------------------------------- MODULE Crawl --------------------------------
(***************************************************************************)
(* The crawl of one target (src/crawler.py): crawl() takes URLs from a      *)
(* queue, drops those out of scope or already seen, and collects the rest   *)
(* until the queue is empty or a ceiling is reached.  It begins after the   *)
(* root document was collected with the same budget.                        *)
(***************************************************************************)
EXTENDS Collector, FiniteSets

CONSTANTS
  Root,             \* URL of the document collected first
  Seeds,            \* sequence: paths taken from an API description
  Metadata,         \* sequence: robots.txt and sitemap.xml
  Options           \* records [pages, depth, requests]: the ceilings

ASSUME CrawlAssumption ==
  /\ None \notin Answers /\ Failed \notin Answers \cup {None}
  /\ Root \in Urls
  /\ Seeds \in Seq(Urls) /\ Metadata \in Seq(Urls)
  /\ Options \subseteq [pages : Nat \ {0}, depth : Nat, requests : Nat \ {0}]

VARIABLES
  options,
  state,        \* "root", "loop", "collect", then the verdict
  queue,        \* sequence of items still to be looked at
  item,         \* the item being collected
  seen, pages, requests, errors,
  owed, fetched \* history: pages linked from documents; those that answered

loop == <<seen, pages, requests, errors, owed, fetched>>
vars == <<collector, options, state, queue, item, loop>>

Verdicts == {"complete", "incomplete", "raised"}
Item(u, d, m) == [url |-> u, depth |-> d, metadata |-> m]
Items == [url : Urls \cup {None}, depth : Nat, metadata : BOOLEAN]

TypeOK ==
  /\ CollectorTypeOK
  /\ options \in Options
  /\ state \in {"root", "loop", "collect"} \cup Verdicts
  /\ queue \in Seq(Items) /\ item \in Items
  /\ seen \subseteq Urls
  /\ pages \in Seq(Urls) /\ requests \in Nat
  /\ errors \subseteq {"budget", "failed", "outside"}
  /\ owed \subseteq Urls /\ fetched \subseteq Urls

Wrapped(us, d, m) == [i \in 1..Len(us) |-> Item(us[i], d, m)]
Listed(us) == {us[i] : i \in 1..Len(us)}
Owes(us) == {u \in Listed(us) \ {None} : OriginOf[u] \in allowed}

\* The scope holds the target's own origin.  The root was collected within
\* it; requests made before the crawl are counted already.
Init ==
  /\ options \in Options
  /\ allowed \in {s \in SUBSET Origins : OriginOf[Root] \in s}
  /\ slots \in 1..options.requests
  /\ limit = 0 /\ here = None /\ trail = <<>> /\ answer = None
  /\ state = "root"
  /\ queue = <<>> /\ item = Item(None, 0, FALSE)
  /\ seen = {Root} /\ pages = <<Root>> /\ requests = 0 /\ errors = {}
  /\ owed = {} /\ fetched = {Root}

\* Links of the root, then the seeds, then robots.txt and the sitemap.
Begin(ls) ==
  /\ state = "root" /\ state' = "loop"
  /\ queue' = Wrapped(ls, 1, FALSE) \o Wrapped(Seeds, 1, FALSE) \o Wrapped(Metadata, 0, TRUE)
  /\ owed' = owed \cup Owes(ls \o Seeds)
  /\ UNCHANGED <<collector, options, item, seen, pages, requests, errors, fetched>>

Wanted(u) == u # None /\ InScope(u) /\ u \notin seen

\* Mutant: the item is looked at but stays in the queue.
Peek == state = "loop" /\ queue # <<>> /\ queue' = queue
Take == state = "loop" /\ queue # <<>> /\ queue' = Tail(queue)

Drop ==
  /\ Take
  /\ ~Wanted(Head(queue).url)
  /\ UNCHANGED <<collector, options, state, item, loop>>

Visit == Take /\ Wanted(Head(queue).url) /\ seen' = seen \cup {Head(queue).url}

TooDeep == Head(queue).depth > options.depth
PagesFull == Len(pages) >= options.pages
Full == PagesFull \/ requests >= options.requests

\* Too deep, or metadata that could only add pages there is no room for.
PassBy ==
  /\ Visit
  /\ TooDeep \/ (PagesFull /\ Head(queue).metadata)
  /\ UNCHANGED <<collector, options, state, item, pages, requests, errors, owed, fetched>>

Stop ==
  /\ Visit
  /\ ~TooDeep /\ Full /\ ~(PagesFull /\ Head(queue).metadata)
  /\ state' = "incomplete"
  /\ errors' = {"budget"}
  /\ UNCHANGED <<collector, options, item, pages, requests, owed, fetched>>

\* A page may be reached over as many redirects as requests are left.
Fetch ==
  /\ Visit
  /\ ~TooDeep /\ ~Full
  /\ item' = Head(queue)
  /\ Collect(Head(queue).url, options.requests - requests - 1)
  /\ state' = "collect"
  /\ UNCHANGED <<options, pages, requests, errors, owed, fetched>>

Request ==
  /\ state = "collect"
  /\ Hop(options.requests)
  /\ UNCHANGED <<options, state, queue, item, loop>>

Collected == state = "collect" /\ here = None

\* Mutant: a page that fails is forgotten.
Forgiven(i) == {}
FailureOf(i) == IF i.metadata THEN {} ELSE {"failed"}

\* However many requests a failed collection made, it counts as one.
PageFails ==
  /\ Collected /\ answer = Failed
  /\ state' = "loop"
  /\ requests' = requests + 1
  /\ errors' = errors \cup FailureOf(item)
  /\ UNCHANGED <<collector, options, queue, item, seen, pages, owed, fetched>>

Answered == Collected /\ answer # Failed /\ requests' = requests + Len(trail)

ChainTooLong ==
  /\ Answered
  /\ answer.blocked = "limit"
  /\ state' = "incomplete"
  /\ errors' = {"budget"}
  /\ UNCHANGED <<collector, options, queue, item, seen, pages, owed, fetched>>

Follows == item.metadata \/ item.depth < options.depth

NextDepth == IF item.metadata THEN 1 ELSE item.depth + 1

\* A document that was redirected out of scope ends here too, with an error
\* (its collector refuses that redirect first).
PageArrives ==
  /\ Answered
  /\ answer.blocked # "limit"
  /\ state' = "loop"
  /\ IF ~InScope(answer.url)
     THEN errors' = errors \cup {"outside"} /\ UNCHANGED <<queue, pages, owed, fetched>>
     ELSE /\ pages' = IF item.metadata THEN pages ELSE Append(pages, answer.url)
          /\ fetched' = fetched \cup {item.url}
          /\ IF Follows
             THEN /\ queue' = queue \o Wrapped(answer.links, NextDepth, FALSE)
                  /\ owed' = owed \cup Owes(answer.links)
             ELSE UNCHANGED <<queue, owed>>
          /\ UNCHANGED errors
  /\ UNCHANGED <<collector, options, item, seen>>

\* urljoin() raises for a reference no URL parser accepts, and nothing around
\* _links() catches that.
LinkRaises ==
  /\ \/ state = "root" /\ UNCHANGED requests
     \/ Answered /\ answer.blocked = "" /\ InScope(answer.url) /\ Follows
  /\ state' = "raised"
  /\ UNCHANGED <<collector, options, queue, item, seen, pages, errors, owed, fetched>>

Finish ==
  /\ state = "loop" /\ queue = <<>>
  /\ state' = IF errors = {} THEN "complete" ELSE "incomplete"
  /\ UNCHANGED <<collector, options, queue, item, loop>>

Next ==
  \/ \E ls \in LinkLists : Begin(ls)
  \/ Drop \/ PassBy \/ Stop \/ Fetch
  \/ Request \/ PageFails \/ ChainTooLong \/ PageArrives \/ LinkRaises
  \/ Finish

Spec == Init /\ [][Next]_vars
\* The worker is one thread that nothing waits for.
FairSpec == Spec /\ WF_vars(Next)
-----------------------------------------------------------------------------
\* Whatever redirects say, and whatever origins documents link to, a request
\* goes to an allowed origin (HttpCollector._check_origin on every hop).
StaysInScope == \A i \in 1..Len(trail) : OriginOf[trail[i]] \in allowed

\* Once a chain of redirects has used HTTPS it never goes back to HTTP, in
\* one hop or in several (HttpCollector.collect).
NeverDowngraded ==
  \A i, j \in 1..Len(trail) :
    i < j /\ OriginOf[trail[i]] \in Secure => OriginOf[trail[j]] \in Secure

\* Two counters with different rules bound a crawl: RequestBudget counts each
\* hop, crawl() counts what collections returned.  Neither passes the ceiling,
\* and a chain that failed half way does not win requests.
RequestsAreBounded ==
  /\ slots <= options.requests
  /\ requests <= options.requests
  /\ Len(pages) <= options.pages

\* A crawl that calls itself complete left nothing out: every page that a
\* followed document or a seed named, within scope and depth, was visited and
\* answered.  (The metadata documents themselves are optional to the crawl:
\* if one fails, a later link to it is dropped as seen.)
CompleteIsClosed ==
  state = "complete" /\ options.depth > 0 =>
    owed \ Listed(Metadata) \subseteq fetched

\* No URL is taken up twice, so that the crawl ends on any web, however its
\* documents link to each other.
CrawlEnds == <>(state \in Verdicts)

\* The inductive invariant of the bounds and of the chain.  While a page is
\* collected there is room for it, the chain of redirects cannot use more
\* requests than are left, and what is asked next is as secure as the chain.
UsedSecure == \E i \in 1..Len(trail) : OriginOf[trail[i]] \in Secure
ChainInv ==
  state = "collect" =>
    /\ item.url \in Urls
    /\ requests < options.requests /\ Len(pages) < options.pages
    /\ limit = options.requests - requests - 1
    /\ Len(trail) <= limit + 1
    /\ here # None => Len(trail) <= limit
    /\ here = None => answer # None
    /\ here # None /\ UsedSecure => OriginOf[here] \in Secure
IInv == TypeOK /\ RequestsAreBounded /\ NeverDowngraded /\ ChainInv

\* Why a complete crawl is closed.  What waits in the queue is never too deep
\* (when depth allows links at all), what was taken up is a document that
\* answered, one of the metadata, or the one being collected, and every page
\* owed was taken up or still waits.
Shallow(i) == i.depth <= options.depth /\ (i.metadata => i.url \in Listed(Metadata))
QueueInv ==
  options.depth > 0 =>
    /\ \A i \in 1..Len(queue) : Shallow(queue[i])
    /\ state = "collect" => Shallow(item)
Waiting == {queue[i].url : i \in 1..Len(queue)}
Underway == IF state = "collect" THEN {item.url} ELSE {}
OwedInv ==
  options.depth > 0 /\ errors = {} /\ state \notin {"incomplete", "raised"} =>
    /\ \A u \in owed : OriginOf[u] \in allowed
    /\ seen \subseteq fetched \cup Listed(Metadata) \cup Underway
    /\ owed \subseteq seen \cup Waiting
DoneInv ==
  /\ state \in {"root", "complete"} => queue = <<>>
  /\ state = "complete" => errors = {}
ClosureInv == QueueInv /\ OwedInv /\ DoneInv
=============================================================================
