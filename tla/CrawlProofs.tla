----------------------------- MODULE CrawlProofs -----------------------------
(* Theorems about Crawl, for every site, every scope and all ceilings.        *)
EXTENDS Crawl, SequenceTheorems, TLAPS

\* The items made of a list of links have the type of the queue.
LEMMA WrappedType ==
  ASSUME NEW us \in Seq(Urls \cup {None}), NEW d \in Nat, NEW m \in BOOLEAN
  PROVE  Wrapped(us, d, m) \in Seq(Items)
<1>1. \A i \in 1..Len(us) : us[i] \in Urls \cup {None}
  OBVIOUS
<1>2. \A i \in 1..Len(us) : Item(us[i], d, m) \in Items
  BY <1>1 DEF Item, Items
<1>3. QED
  BY <1>2 DEF Wrapped

\* Lists of links and their concatenations name URLs.
LEMMA OwesType ==
  ASSUME NEW us \in Seq(Urls \cup {None})
  PROVE  Owes(us) \subseteq Urls
BY DEF Owes, Listed

\* The first item of a queue that is not empty, and the rest of it.
LEMMA HeadType ==
  ASSUME NEW q \in Seq(Items), q # <<>>
  PROVE  /\ Head(q) \in Items /\ Tail(q) \in Seq(Items)
         /\ Head(q).url \in Urls \cup {None} /\ Head(q).depth \in Nat
         /\ Head(q).metadata \in BOOLEAN
<1>1. Head(q) \in Items /\ Tail(q) \in Seq(Items)
  OBVIOUS
<1>2. QED
  BY <1>1 DEF Items

\* The initial state satisfies the invariant.
LEMMA InitIInv == Init => IInv
<1> SUFFICES ASSUME Init PROVE IInv
  OBVIOUS
<1> USE CollectorAssumption, CrawlAssumption
<1>1. /\ options.pages \in Nat \ {0} /\ options.requests \in Nat \ {0} /\ options.depth \in Nat
  BY DEF Init
<1>2. TypeOK
  BY <1>1 DEF Init, TypeOK, CollectorTypeOK, Items, Item, Verdicts
<1>3. RequestsAreBounded /\ NeverDowngraded /\ ChainInv
  BY <1>1 DEF Init, RequestsAreBounded, NeverDowngraded, ChainInv
<1>4. QED
  BY <1>2, <1>3 DEF IInv

\* The ceilings are numbers, in every state.
LEMMA CeilingsType ==
  ASSUME TypeOK
  PROVE  options.pages \in Nat \ {0} /\ options.requests \in Nat \ {0} /\ options.depth \in Nat
BY CrawlAssumption DEF TypeOK

\* A hop keeps the types, stays within the budget and the limit of its chain,
\* and takes the chain nowhere less secure.
LEMMA HopKeeps ==
  ASSUME IInv, Request
  PROVE  IInv'
<1> USE CollectorAssumption, CrawlAssumption, CeilingsType
<1>1. /\ slots \in Nat /\ limit \in Nat /\ trail \in Seq(Urls) /\ requests \in Nat
      /\ here \in Urls \cup {None} /\ answer \in Answers \cup {None, Failed}
      /\ pages \in Seq(Urls) /\ allowed \subseteq Origins
      /\ options.requests \in Nat /\ state = "collect"
      /\ slots <= options.requests
  BY DEF IInv, TypeOK, CollectorTypeOK, Request, RequestsAreBounded
<1>2. UNCHANGED <<options, state, queue, item, seen, pages, requests, errors, owed, fetched, allowed, limit>>
  BY DEF Request, Hop, Refuse, Lose, Answer, Redirect, Claim, Collect, Ends, loop
<1>3. CASE Refuse(options.requests)
  <2>1. slots' = slots /\ trail' = trail /\ here' = None /\ answer' = Failed
    BY <1>3 DEF Refuse, Ends
  <2>2. TypeOK'
    BY <1>1, <1>2, <2>1 DEF IInv, TypeOK, CollectorTypeOK
  <2>3. RequestsAreBounded' /\ NeverDowngraded'
    BY <1>2, <2>1 DEF IInv, RequestsAreBounded, NeverDowngraded
  <2>4. ChainInv'
    BY <1>1, <1>2, <2>1 DEF IInv, ChainInv
  <2>5. QED
    BY <2>2, <2>3, <2>4 DEF IInv
<1>4. ASSUME Claim(options.requests)
      PROVE  /\ slots' \in Nat /\ slots' <= options.requests
             /\ trail' \in Seq(Urls) /\ Len(trail') = Len(trail) + 1 /\ Len(trail') <= limit + 1
             /\ \A i \in 1..Len(trail) : trail'[i] = trail[i]
             /\ trail'[Len(trail) + 1] = here /\ here \in Urls
             /\ NeverDowngraded'
  <2>1. /\ here \in Urls /\ slots < options.requests /\ slots' = slots + 1
        /\ trail' = Append(trail, here)
    BY <1>1, <1>4 DEF Claim, HasSlot
  <2>2. Len(trail) <= limit
    BY <1>1, <2>1 DEF IInv, ChainInv
  <2>3. /\ trail' \in Seq(Urls) /\ Len(trail') = Len(trail) + 1
        /\ \A i \in 1..Len(trail) : trail'[i] = trail[i]
        /\ trail'[Len(trail) + 1] = here
    BY <1>1, <2>1
  <2>4. \A i \in 1..Len(trail) : OriginOf[trail[i]] \in Secure => OriginOf[here] \in Secure
    BY <1>1, <2>1 DEF IInv, ChainInv, UsedSecure
  <2>5. NeverDowngraded'
    <3>1. SUFFICES ASSUME NEW i \in 1..Len(trail'), NEW j \in 1..Len(trail'), i < j,
                          OriginOf[trail'[i]] \in Secure
                   PROVE  OriginOf[trail'[j]] \in Secure
      BY DEF NeverDowngraded
    <3>2. i \in 1..Len(trail) /\ trail'[i] = trail[i]
      BY <1>1, <2>3, <3>1
    <3>3. CASE j \in 1..Len(trail)
      BY <1>1, <2>3, <3>1, <3>2, <3>3 DEF IInv, NeverDowngraded
    <3>4. CASE j = Len(trail) + 1
      BY <2>3, <2>4, <3>1, <3>2, <3>4
    <3>5. QED
      BY <1>1, <2>3, <3>1, <3>3, <3>4
  <2>6. QED
    BY <1>1, <2>1, <2>2, <2>3, <2>5
<1>5. ASSUME Claim(options.requests), NEW a \in Answers \cup {Failed}, Ends(a)
      PROVE  IInv'
  <2>1. here' = None /\ answer' = a
    BY <1>5 DEF Ends
  <2>2. TypeOK'
    BY <1>1, <1>2, <1>4, <1>5, <2>1 DEF IInv, TypeOK, CollectorTypeOK
  <2>3. RequestsAreBounded'
    BY <1>2, <1>4, <1>5 DEF IInv, RequestsAreBounded
  <2>4. a # None
    BY CrawlAssumption
  <2>5. ChainInv'
    BY <1>1, <1>2, <1>4, <1>5, <2>1, <2>4 DEF IInv, ChainInv
  <2>6. QED
    BY <1>4, <1>5, <2>2, <2>3, <2>5 DEF IInv
<1>6. CASE Lose(options.requests)
  BY <1>5, <1>6 DEF Lose
<1>7. ASSUME NEW ls \in LinkLists, Answer(options.requests, ls)
      PROVE  IInv'
  <2>1. [url |-> here, blocked |-> "", links |-> ls] \in Answers
    BY <1>1, <1>4, <1>7 DEF Answer, Answers, Reasons
  <2>2. QED
    BY <1>5, <1>7, <2>1 DEF Answer
<1>8. ASSUME NEW d \in Urls \cup {None}, Redirect(options.requests, d)
      PROVE  IInv'
  <2>1. CASE Blocked(d) # ""
    <3>1. [url |-> here, blocked |-> Blocked(d), links |-> <<>>] \in Answers
      BY <1>1, <1>4, <1>8 DEF Redirect, Answers, Reasons, Blocked
    <3>2. QED
      BY <1>5, <1>8, <2>1, <3>1 DEF Redirect
  <2>2. CASE Blocked(d) = ""
    <3>1. /\ d \in Urls /\ ~Downgrade(here, d) /\ Len(trail) < limit
      BY <1>1, <2>2 DEF Blocked, AtLimit
    <3> Claim(options.requests)
      BY <1>8 DEF Redirect
    <3>2. here' = d /\ answer' = answer
      BY <1>8, <2>2 DEF Redirect
    <3>3. TypeOK'
      BY <1>1, <1>2, <1>4, <1>8, <3>1, <3>2 DEF IInv, TypeOK, CollectorTypeOK, Redirect
    <3>4. RequestsAreBounded'
      BY <1>2, <1>4, <1>8 DEF IInv, RequestsAreBounded, Redirect
    <3>5. (\E i \in 1..Len(trail') : OriginOf[trail'[i]] \in Secure) => OriginOf[d] \in Secure
      <4>1. OriginOf[here] \in Secure => OriginOf[d] \in Secure
        BY <3>1 DEF Downgrade
      <4>2. \A i \in 1..Len(trail) : OriginOf[trail[i]] \in Secure => OriginOf[here] \in Secure
        BY <1>1, <1>4, <1>8 DEF IInv, ChainInv, UsedSecure, Redirect
      <4>3. QED
        <5>1. SUFFICES ASSUME NEW i \in 1..Len(trail'), OriginOf[trail'[i]] \in Secure
                       PROVE  OriginOf[here] \in Secure
          BY <4>1
        <5>2. CASE i \in 1..Len(trail)
          BY <1>4, <4>2, <5>1, <5>2
        <5>3. CASE i = Len(trail) + 1
          BY <1>4, <5>1, <5>3
        <5>4. QED
          BY <1>1, <1>4, <5>1, <5>2, <5>3
    <3>6. /\ item.url \in Urls /\ requests < options.requests /\ Len(pages) < options.pages
          /\ limit = options.requests - requests - 1
      BY <1>1 DEF IInv, ChainInv
    <3>7. Len(trail') <= limit
      BY <1>1, <1>4, <3>1
    <3>8. ChainInv'
      <4>1. /\ item' = item /\ requests' = requests /\ options' = options
            /\ pages' = pages /\ limit' = limit
        BY <1>2, <1>8, <2>2 DEF Redirect
      <4>2. UsedSecure' => OriginOf[here'] \in Secure
        BY <3>2, <3>5 DEF UsedSecure
      <4>3. here' # None
        BY <3>1, <3>2
      <4>4. QED
        BY <3>6, <3>7, <4>1, <4>2, <4>3, <1>1, <1>4 DEF ChainInv
    <3>9. QED
      BY <1>4, <1>8, <3>3, <3>4, <3>8 DEF IInv, Redirect
  <2>3. QED
    BY <2>1, <2>2
<1>9. QED
  BY <1>3, <1>6, <1>7, <1>8 DEF Request, Hop

\* Every other step of the crawl keeps the invariant.
LEMMA StepKeeps ==
  ASSUME IInv, [Next]_vars
  PROVE  IInv'
<1> USE CollectorAssumption, CrawlAssumption, CeilingsType
<1>1. /\ TypeOK /\ RequestsAreBounded /\ NeverDowngraded /\ ChainInv
      /\ options.pages \in Nat \ {0} /\ options.requests \in Nat \ {0} /\ options.depth \in Nat
  BY DEF IInv
<1>2. ASSUME NEW ls \in LinkLists, Begin(ls)
      PROVE  IInv'
  <2>1. ls \in Seq(Urls \cup {None}) /\ Seeds \in Seq(Urls \cup {None}) /\ Metadata \in Seq(Urls \cup {None})
    OBVIOUS
  <2>2. queue' \in Seq(Items)
    <3>1. /\ Wrapped(ls, 1, FALSE) \in Seq(Items) /\ Wrapped(Seeds, 1, FALSE) \in Seq(Items)
          /\ Wrapped(Metadata, 0, TRUE) \in Seq(Items)
      BY <2>1, WrappedType
    <3>2. queue' = Wrapped(ls, 1, FALSE) \o Wrapped(Seeds, 1, FALSE) \o Wrapped(Metadata, 0, TRUE)
      BY <1>2 DEF Begin
    <3>3. Wrapped(ls, 1, FALSE) \o Wrapped(Seeds, 1, FALSE) \in Seq(Items)
      BY <3>1, ConcatProperties
    <3>4. QED
      BY <3>1, <3>2, <3>3, ConcatProperties
  <2>3. owed' \subseteq Urls
    <3>1. ls \o Seeds \in Seq(Urls \cup {None})
      BY <2>1
    <3>2. QED
      BY <1>1, <1>2, <3>1, OwesType DEF Begin, TypeOK
  <2>4. TypeOK'
    BY <1>1, <1>2, <2>2, <2>3 DEF Begin, TypeOK, CollectorTypeOK, collector
  <2>5. RequestsAreBounded' /\ NeverDowngraded' /\ ChainInv'
    BY <1>1, <1>2 DEF Begin, collector, RequestsAreBounded, NeverDowngraded, ChainInv
  <2>6. QED
    BY <2>4, <2>5 DEF IInv
<1>3. ASSUME Take
      PROVE  /\ queue \in Seq(Items) /\ queue # <<>> /\ queue' \in Seq(Items)
             /\ Head(queue) \in Items /\ Head(queue).url \in Urls \cup {None}
             /\ Head(queue).depth \in Nat /\ Head(queue).metadata \in BOOLEAN
             /\ state = "loop"
  BY <1>1, <1>3, HeadType DEF Take, TypeOK
<1>4. CASE Drop
  <2>1. queue' \in Seq(Items) /\ state = "loop"
    BY <1>3, <1>4 DEF Drop
  <2>2. TypeOK'
    BY <1>1, <1>4, <2>1 DEF Drop, TypeOK, CollectorTypeOK, collector, loop
  <2>3. RequestsAreBounded' /\ NeverDowngraded' /\ ChainInv'
    BY <1>1, <1>4, <2>1 DEF Drop, collector, loop, RequestsAreBounded, NeverDowngraded, ChainInv
  <2>4. QED
    BY <2>2, <2>3 DEF IInv
<1>5. ASSUME Visit
      PROVE  /\ queue' \in Seq(Items) /\ Head(queue) \in Items /\ Head(queue).url \in Urls
             /\ seen' \subseteq Urls /\ state = "loop"
  <2>1. Head(queue).url # None /\ Take
    BY <1>5 DEF Visit, Wanted
  <2>2. QED
    BY <1>1, <1>3, <1>5, <2>1 DEF Visit, TypeOK
<1>6. CASE PassBy
  <2>1. Visit
    BY <1>6 DEF PassBy
  <2>2. TypeOK'
    BY <1>1, <1>5, <1>6, <2>1 DEF PassBy, TypeOK, CollectorTypeOK, collector
  <2>3. RequestsAreBounded' /\ NeverDowngraded' /\ ChainInv'
    BY <1>1, <1>5, <1>6, <2>1 DEF PassBy, collector, RequestsAreBounded, NeverDowngraded, ChainInv
  <2>4. QED
    BY <2>2, <2>3 DEF IInv
<1>7. CASE Stop
  <2>1. Visit
    BY <1>7 DEF Stop
  <2>2. TypeOK'
    BY <1>1, <1>5, <1>7, <2>1 DEF Stop, TypeOK, CollectorTypeOK, collector, Verdicts
  <2>3. RequestsAreBounded' /\ NeverDowngraded' /\ ChainInv'
    BY <1>1, <1>5, <1>7, <2>1 DEF Stop, collector, RequestsAreBounded, NeverDowngraded, ChainInv
  <2>4. QED
    BY <2>2, <2>3 DEF IInv
<1>8. CASE Fetch
  <2>1. Visit
    BY <1>8 DEF Fetch
  <2>2. Len(pages) < options.pages /\ requests < options.requests
        /\ Len(pages) \in Nat /\ requests \in Nat
    BY <1>1, <1>8 DEF Fetch, Full, PagesFull, TypeOK
  <2>3. /\ here' \in Urls /\ item' \in Items /\ item'.url \in Urls /\ limit' = options.requests - requests - 1 /\ limit' \in Nat
        /\ trail' = <<>> /\ answer' = None /\ slots' = slots /\ allowed' = allowed
        /\ options' = options /\ pages' = pages /\ requests' = requests /\ state' = "collect"
    BY <1>1, <1>5, <1>8, <2>1, <2>2 DEF Fetch, Collect
  <2>4. TypeOK'
    BY <1>1, <1>5, <1>8, <2>1, <2>3 DEF Fetch, TypeOK, CollectorTypeOK
  <2>5. RequestsAreBounded'
    BY <1>1, <2>3 DEF RequestsAreBounded
  <2>6. NeverDowngraded' /\ ChainInv'
    BY <2>2, <2>3 DEF NeverDowngraded, ChainInv, UsedSecure
  <2>7. QED
    BY <2>4, <2>5, <2>6 DEF IInv
<1>9. CASE Request
  BY <1>9, HopKeeps
<1>10. ASSUME Collected
       PROVE  /\ requests < options.requests /\ Len(pages) < options.pages
              /\ requests + Len(trail) <= options.requests /\ requests + Len(trail) \in Nat
              /\ answer \in Answers \cup {Failed} /\ requests \in Nat /\ Len(pages) \in Nat
  <2>1. /\ trail \in Seq(Urls) /\ requests \in Nat /\ pages \in Seq(Urls) /\ limit \in Nat
        /\ answer \in Answers \cup {None, Failed}
    BY <1>1 DEF TypeOK, CollectorTypeOK
  <2>2. QED
    BY <1>1, <1>10, <2>1 DEF Collected, ChainInv
<1>11. CASE PageFails
  <2>1. Collected /\ state' = "loop" /\ requests' = requests + 1
    BY <1>11 DEF PageFails
  <2>2. errors' \subseteq {"budget", "failed", "outside"}
    BY <1>1, <1>11 DEF PageFails, FailureOf, TypeOK
  <2>3. TypeOK'
    BY <1>1, <1>10, <1>11, <2>1, <2>2 DEF PageFails, TypeOK, CollectorTypeOK, collector
  <2>4. RequestsAreBounded' /\ NeverDowngraded' /\ ChainInv'
    BY <1>1, <1>10, <1>11, <2>1 DEF PageFails, collector, RequestsAreBounded, NeverDowngraded, ChainInv, UsedSecure
  <2>5. QED
    BY <2>3, <2>4 DEF IInv
<1>12. CASE ChainTooLong
  <2>1. Collected /\ state' = "incomplete" /\ requests' = requests + Len(trail)
    BY <1>12 DEF ChainTooLong, Answered
  <2>2. TypeOK'
    BY <1>1, <1>10, <1>12, <2>1 DEF ChainTooLong, TypeOK, CollectorTypeOK, collector, Verdicts
  <2>3. RequestsAreBounded' /\ NeverDowngraded' /\ ChainInv'
    BY <1>1, <1>10, <1>12, <2>1
       DEF ChainTooLong, collector, RequestsAreBounded, NeverDowngraded, ChainInv
  <2>4. QED
    BY <2>2, <2>3 DEF IInv
<1>13. CASE PageArrives
  <2>1. /\ Collected /\ state' = "loop" /\ requests' = requests + Len(trail) /\ answer # Failed
        /\ UNCHANGED <<collector, options, item, seen>>
    BY <1>13 DEF PageArrives, Answered
  <2>2. /\ answer \in Answers /\ answer.url \in Urls /\ answer.links \in Seq(Urls \cup {None})
    BY <1>10, <2>1 DEF Answers
  <2>3. /\ pages' \in Seq(Urls) /\ Len(pages') <= options.pages
    <3>1. pages \in Seq(Urls)
      BY <1>1 DEF TypeOK
    <3>2. pages' = pages \/ pages' = Append(pages, answer.url)
      BY <1>13 DEF PageArrives
    <3>3. CASE pages' = pages
      BY <1>1, <1>10, <2>1, <3>1, <3>3 DEF RequestsAreBounded
    <3>4. CASE pages' = Append(pages, answer.url)
      <4>1. Append(pages, answer.url) \in Seq(Urls) /\ Len(Append(pages, answer.url)) = Len(pages) + 1
        BY <2>2, <3>1
      <4>2. Len(pages) < options.pages /\ Len(pages) \in Nat
        BY <1>10, <2>1
      <4>3. QED
        BY <1>1, <3>4, <4>1, <4>2
    <3>5. QED
      BY <3>2, <3>3, <3>4
  <2>4. NextDepth \in Nat /\ item.url \in Urls
    BY <1>1, <2>1 DEF NextDepth, TypeOK, Items, Collected, ChainInv
  <2>5. queue' \in Seq(Items)
    <3>1. Wrapped(answer.links, NextDepth, FALSE) \in Seq(Items)
      BY <2>2, <2>4, WrappedType
    <3>2. queue \in Seq(Items)
      BY <1>1 DEF TypeOK
    <3>3. queue' = queue \/ queue' = queue \o Wrapped(answer.links, NextDepth, FALSE)
      BY <1>13 DEF PageArrives
    <3>4. queue \o Wrapped(answer.links, NextDepth, FALSE) \in Seq(Items)
      BY <3>1, <3>2, ConcatProperties
    <3>5. QED
      BY <3>2, <3>3, <3>4
  <2>6. owed' \subseteq Urls
    BY <1>1, <1>13, <2>2, OwesType DEF PageArrives, TypeOK
  <2>7. fetched' \subseteq Urls /\ errors' \subseteq {"budget", "failed", "outside"}
    BY <1>1, <1>13, <2>4 DEF PageArrives, TypeOK
  <2>8. TypeOK'
    BY <1>1, <1>10, <2>1, <2>3, <2>5, <2>6, <2>7 DEF TypeOK, CollectorTypeOK, collector
  <2>9. RequestsAreBounded' /\ NeverDowngraded' /\ ChainInv'
    BY <1>1, <1>10, <2>1, <2>3 DEF collector, RequestsAreBounded, NeverDowngraded, ChainInv
  <2>10. QED
    BY <2>8, <2>9 DEF IInv
<1>14. CASE LinkRaises
  <2>1. state' = "raised" /\ (requests' = requests \/ (Collected /\ requests' = requests + Len(trail)))
    <3>1. CASE state = "root" /\ UNCHANGED requests
      BY <1>14, <3>1 DEF LinkRaises, Answered, Collected
    <3>2. CASE Answered
      BY <1>14, <3>2 DEF LinkRaises, Answered
    <3>3. QED
      BY <1>14, <3>1, <3>2 DEF LinkRaises
  <2>2. requests' \in Nat /\ requests' <= options.requests
    BY <1>1, <1>10, <2>1 DEF TypeOK, RequestsAreBounded
  <2>3. TypeOK'
    BY <1>1, <1>14, <2>1, <2>2 DEF LinkRaises, TypeOK, CollectorTypeOK, collector, Verdicts
  <2>4. RequestsAreBounded' /\ NeverDowngraded' /\ ChainInv'
    BY <1>1, <1>14, <2>1, <2>2
       DEF LinkRaises, collector, RequestsAreBounded, NeverDowngraded, ChainInv
  <2>5. QED
    BY <2>3, <2>4 DEF IInv
<1>15. CASE Finish
  <2>1. state' \in {"complete", "incomplete"}
    BY <1>15 DEF Finish
  <2>2. TypeOK'
    BY <1>1, <1>15, <2>1 DEF Finish, TypeOK, CollectorTypeOK, collector, loop, Verdicts
  <2>3. RequestsAreBounded' /\ NeverDowngraded' /\ ChainInv'
    BY <1>1, <1>15, <2>1 DEF Finish, collector, loop, RequestsAreBounded, NeverDowngraded, ChainInv
  <2>4. QED
    BY <2>2, <2>3 DEF IInv
<1>16. CASE UNCHANGED vars
  <2>1. TypeOK'
    BY <1>1, <1>16 DEF vars, TypeOK, CollectorTypeOK, collector, loop
  <2>2. RequestsAreBounded' /\ NeverDowngraded' /\ ChainInv'
    BY <1>1, <1>16 DEF vars, collector, loop, RequestsAreBounded, NeverDowngraded, ChainInv, UsedSecure
  <2>3. QED
    BY <2>1, <2>2 DEF IInv
<1>17. QED
  BY <1>2, <1>4, <1>6, <1>7, <1>8, <1>9, <1>11, <1>12, <1>13, <1>14, <1>15, <1>16 DEF Next

\* A chain of requests grows only by a URL that was checked.
LEMMA ScopeKeeps ==
  ASSUME IInv, StaysInScope, [Next]_vars
  PROVE  StaysInScope'
<1>1. trail \in Seq(Urls) /\ here \in Urls \cup {None} /\ None \notin Urls
  BY CollectorAssumption DEF IInv, TypeOK, CollectorTypeOK
<1>2. allowed' = allowed
  BY DEF Next, vars, collector, Begin, Drop, PassBy, Stop, Fetch, Collect, Request, Hop, Refuse, Lose,
         Answer, Redirect, Claim, Ends, PageFails, ChainTooLong, PageArrives, LinkRaises, Finish
<1>3. CASE trail' = trail
  BY <1>2, <1>3 DEF StaysInScope
<1>4. CASE trail' = <<>>
  BY <1>4 DEF StaysInScope
<1>5. CASE trail' = Append(trail, here) /\ here # None /\ InScope(here)
  <2>1. SUFFICES ASSUME NEW i \in 1..Len(trail')
                 PROVE  OriginOf[trail'[i]] \in allowed
    BY <1>2 DEF StaysInScope
  <2>2. CASE i \in 1..Len(trail)
    BY <1>1, <1>5, <2>2 DEF StaysInScope
  <2>3. CASE i = Len(trail) + 1
    BY <1>1, <1>5, <2>3 DEF InScope
  <2>4. QED
    BY <1>1, <1>5, <2>1, <2>2, <2>3
<1>6. \/ trail' = trail
      \/ trail' = <<>>
      \/ trail' = Append(trail, here) /\ here # None /\ InScope(here)
  BY DEF Next, vars, collector, Begin, Drop, PassBy, Stop, Fetch, Collect, Request, Hop, Refuse, Lose,
         Answer, Redirect, Claim, PageFails, ChainTooLong, PageArrives, LinkRaises, Finish
<1>7. QED
  BY <1>3, <1>4, <1>5, <1>6

\* The URLs of a queue, by its parts.
UrlsIn(q) == {q[i].url : i \in 1..Len(q)}
AllShallow(q) == \A i \in 1..Len(q) : Shallow(q[i])

\* A queue holds its first item and the rest.
LEMMA HeadAndTail ==
  ASSUME NEW q \in Seq(Items), q # <<>>
  PROVE  /\ UrlsIn(q) = {Head(q).url} \cup UrlsIn(Tail(q))
         /\ AllShallow(q) => Shallow(Head(q)) /\ AllShallow(Tail(q))
<1>1. /\ Len(q) \in Nat \ {0} /\ Len(Tail(q)) = Len(q) - 1 /\ Head(q) = q[1]
      /\ \A i \in 1..Len(Tail(q)) : Tail(q)[i] = q[i + 1]
  OBVIOUS
<1>2. \A i \in 1..Len(q) : i = 1 \/ (i - 1 \in 1..Len(Tail(q)) /\ q[i] = Tail(q)[i - 1])
  BY <1>1
<1>3. \A i \in 1..Len(Tail(q)) : i + 1 \in 1..Len(q)
  BY <1>1
<1>4. UrlsIn(q) \subseteq {Head(q).url} \cup UrlsIn(Tail(q))
  <2>1. SUFFICES ASSUME NEW i \in 1..Len(q)
                 PROVE  q[i].url \in {Head(q).url} \cup UrlsIn(Tail(q))
    BY DEF UrlsIn
  <2>2. CASE i = 1
    BY <1>1, <2>2
  <2>3. CASE i - 1 \in 1..Len(Tail(q)) /\ q[i] = Tail(q)[i - 1]
    BY <2>3 DEF UrlsIn
  <2>4. QED
    BY <1>2, <2>2, <2>3
<1>5. {Head(q).url} \cup UrlsIn(Tail(q)) \subseteq UrlsIn(q)
  BY <1>1, <1>3 DEF UrlsIn
<1>6. AllShallow(q) => Shallow(Head(q)) /\ AllShallow(Tail(q))
  BY <1>1, <1>3 DEF AllShallow
<1>7. QED
  BY <1>4, <1>5, <1>6

\* Two queues, one after the other.
LEMMA Joined ==
  ASSUME NEW q \in Seq(Items), NEW r \in Seq(Items)
  PROVE  /\ UrlsIn(q \o r) = UrlsIn(q) \cup UrlsIn(r)
         /\ AllShallow(q) /\ AllShallow(r) => AllShallow(q \o r)
<1>1. /\ Len(q) \in Nat /\ Len(r) \in Nat /\ Len(q \o r) = Len(q) + Len(r)
      /\ \A i \in 1..Len(q) : (q \o r)[i] = q[i]
      /\ \A i \in 1..Len(r) : (q \o r)[Len(q) + i] = r[i]
  BY ConcatProperties
<1>2. \A i \in 1..Len(q \o r) : \/ i \in 1..Len(q) /\ (q \o r)[i] = q[i]
                                \/ i - Len(q) \in 1..Len(r) /\ (q \o r)[i] = r[i - Len(q)]
  <2>1. SUFFICES ASSUME NEW i \in 1..Len(q \o r), i \notin 1..Len(q)
                 PROVE  i - Len(q) \in 1..Len(r) /\ (q \o r)[i] = r[i - Len(q)]
    BY <1>1
  <2>2. i - Len(q) \in 1..Len(r) /\ i = Len(q) + (i - Len(q))
    BY <1>1, <2>1
  <2>3. QED
    BY <1>1, <2>2
<1>3. UrlsIn(q \o r) \subseteq UrlsIn(q) \cup UrlsIn(r)
  BY <1>2 DEF UrlsIn
<1>4. \A i \in 1..Len(q) : i \in 1..Len(q \o r)
  BY <1>1
<1>5. \A i \in 1..Len(r) : Len(q) + i \in 1..Len(q \o r)
  BY <1>1
<1>6. UrlsIn(q) \subseteq UrlsIn(q \o r)
  BY <1>1, <1>4 DEF UrlsIn
<1>7. UrlsIn(r) \subseteq UrlsIn(q \o r)
  BY <1>1, <1>5 DEF UrlsIn
<1>8. AllShallow(q) /\ AllShallow(r) => AllShallow(q \o r)
  BY <1>2 DEF AllShallow
<1>9. QED
  BY <1>3, <1>6, <1>7, <1>8

\* The items made of a list of links: all at one depth, for its URLs.
LEMMA WrappedItems ==
  ASSUME NEW us \in Seq(Urls \cup {None}), NEW d \in Nat, NEW m \in BOOLEAN
  PROVE  /\ UrlsIn(Wrapped(us, d, m)) = Listed(us)
         /\ d <= options.depth /\ (m => Listed(us) \subseteq Listed(Metadata)) => AllShallow(Wrapped(us, d, m))
<1>1. Len(us) \in Nat
  OBVIOUS
<1>2. Len(Wrapped(us, d, m)) = Len(us)
  BY <1>1 DEF Wrapped
<1>3. ASSUME NEW i \in 1..Len(us)
      PROVE  /\ Wrapped(us, d, m)[i].url = us[i]
             /\ Wrapped(us, d, m)[i].depth = d /\ Wrapped(us, d, m)[i].metadata = m
  BY DEF Wrapped, Item
<1>4. \A i \in 1..Len(us) : /\ Wrapped(us, d, m)[i].url = us[i]
                            /\ Wrapped(us, d, m)[i].depth = d /\ Wrapped(us, d, m)[i].metadata = m
  BY <1>3
<1> DEFINE W == Wrapped(us, d, m)
<1>5. Len(W) = Len(us) /\ \A i \in 1..Len(us) : W[i].url = us[i] /\ W[i].depth = d /\ W[i].metadata = m
  BY <1>2, <1>4
<1> HIDE DEF W
<1>6. UrlsIn(W) = Listed(us)
  BY <1>5 DEF UrlsIn, Listed
<1>7. ASSUME d <= options.depth, m => Listed(us) \subseteq Listed(Metadata)
      PROVE  AllShallow(W)
  <2>1. SUFFICES ASSUME NEW i \in 1..Len(W)
                 PROVE  Shallow(W[i])
    BY DEF AllShallow
  <2>2. W[i].url \in Listed(us)
    BY <1>5, <2>1 DEF Listed
  <2>3. QED
    BY <1>5, <1>7, <2>1, <2>2 DEF Shallow
<1>8. QED
  BY <1>6, <1>7 DEF W

\* A step of the crawl keeps what makes a complete one closed.
LEMMA ClosureKeeps ==
  ASSUME IInv, ClosureInv, [Next]_vars
  PROVE  ClosureInv'
<1> USE CollectorAssumption, CrawlAssumption, CeilingsType
<1>1. /\ TypeOK /\ ChainInv /\ QueueInv /\ OwedInv /\ DoneInv
      /\ options.depth \in Nat /\ queue \in Seq(Items) /\ item \in Items
  BY DEF IInv, ClosureInv, TypeOK
<1>2. options' = options /\ allowed' = allowed
  BY DEF Next, vars, collector, Begin, Drop, PassBy, Stop, Fetch, Collect, Request, Hop, Refuse, Lose,
         Answer, Redirect, Claim, Ends, PageFails, ChainTooLong, PageArrives, LinkRaises, Finish
<1>3. Waiting = UrlsIn(queue) /\ Waiting' = UrlsIn(queue')
  BY DEF Waiting, UrlsIn
<1>4. options.depth > 0 => AllShallow(queue)
  BY <1>1 DEF QueueInv, AllShallow
<1>5. ASSUME AllShallow(queue'), options.depth > 0 PROVE (\A i \in 1..Len(queue) : Shallow(queue[i]))'
  BY <1>2, <1>5 DEF AllShallow, Shallow
<1>6. ASSUME NEW us \in Seq(Urls \cup {None}), NEW u \in Owes(us)
      PROVE  OriginOf[u] \in allowed /\ u \in Listed(us)
  BY <1>6 DEF Owes
<1>7. ASSUME NEW ls \in LinkLists, Begin(ls)
      PROVE  ClosureInv'
  <2>1. /\ ls \in Seq(Urls \cup {None}) /\ Seeds \in Seq(Urls \cup {None})
        /\ Metadata \in Seq(Urls \cup {None}) /\ ls \o Seeds \in Seq(Urls \cup {None})
    OBVIOUS
  <2> DEFINE L == Wrapped(ls, 1, FALSE)
             S == Wrapped(Seeds, 1, FALSE)
             M == Wrapped(Metadata, 0, TRUE)
  <2>2. L \in Seq(Items) /\ S \in Seq(Items) /\ M \in Seq(Items)
    BY <2>1, WrappedType
  <2>3. UrlsIn(L) = Listed(ls) /\ UrlsIn(S) = Listed(Seeds) /\ UrlsIn(M) = Listed(Metadata)
    BY <2>1, WrappedItems
  <2>4. options.depth > 0 => AllShallow(L) /\ AllShallow(S) /\ AllShallow(M)
    <3>1. options.depth > 0 => 1 <= options.depth /\ 0 <= options.depth
      BY <1>1
    <3>2. Listed(Metadata) \subseteq Listed(Metadata)
      OBVIOUS
    <3>3. options.depth > 0 => AllShallow(L)
      BY <2>1, <3>1, WrappedItems
    <3>4. options.depth > 0 => AllShallow(S)
      BY <2>1, <3>1, WrappedItems
    <3>5. options.depth > 0 => AllShallow(M)
      BY <2>1, <3>1, <3>2, WrappedItems
    <3>6. QED
      BY <3>3, <3>4, <3>5
  <2>5. queue' = (L \o S) \o M
    BY <1>7 DEF Begin
  <2> HIDE DEF L, S, M
  <2>6. L \o S \in Seq(Items)
    BY <2>2, ConcatProperties
  <2>7. /\ UrlsIn(L \o S) = UrlsIn(L) \cup UrlsIn(S)
        /\ UrlsIn((L \o S) \o M) = UrlsIn(L \o S) \cup UrlsIn(M)
        /\ options.depth > 0 => AllShallow((L \o S) \o M)
    BY <2>2, <2>4, <2>6, Joined
  <2>8. Listed(ls \o Seeds) \subseteq Listed(ls) \cup Listed(Seeds)
    <3>1. SUFFICES ASSUME NEW i \in 1..Len(ls \o Seeds)
                   PROVE  (ls \o Seeds)[i] \in Listed(ls) \cup Listed(Seeds)
      BY DEF Listed
    <3>2. Len(ls) \in Nat /\ Len(Seeds) \in Nat /\ Len(ls \o Seeds) = Len(ls) + Len(Seeds)
      BY <2>1
    <3>3. CASE i \in 1..Len(ls)
      <4>1. (ls \o Seeds)[i] = ls[i]
        BY <2>1, <3>3
      <4>2. QED
        BY <3>3, <4>1 DEF Listed
    <3>4. CASE i - Len(ls) \in 1..Len(Seeds)
      <4>1. (ls \o Seeds)[i] = Seeds[i - Len(ls)]
        BY <2>1, <3>2, <3>4
      <4>2. QED
        BY <3>4, <4>1 DEF Listed
    <3>5. QED
      BY <3>2, <3>3, <3>4
  <2>9. state = "root" /\ state' = "loop" /\ UNCHANGED <<errors, seen, fetched, item>>
        /\ owed' = owed \cup Owes(ls \o Seeds)
    BY <1>7 DEF Begin
  <2>10. QueueInv'
    BY <1>2, <1>5, <2>5, <2>7, <2>9 DEF QueueInv
  <2>11. Owes(ls \o Seeds) \subseteq Waiting'
    BY <1>3, <1>6, <2>1, <2>3, <2>5, <2>7, <2>8
  <2>12. Waiting = {}
    BY <1>1, <2>9 DEF DoneInv, Waiting
  <2>13. OwedInv'
    BY <1>1, <1>2, <1>6, <2>1, <2>9, <2>11, <2>12 DEF OwedInv, Underway
  <2>14. QED
    BY <2>9, <2>10, <2>13 DEF ClosureInv, DoneInv
<1>8. ASSUME Take
      PROVE  /\ queue # <<>> /\ queue' = Tail(queue) /\ state = "loop"
             /\ Head(queue) \in Items /\ queue' \in Seq(Items)
             /\ Waiting = {Head(queue).url} \cup Waiting'
             /\ options.depth > 0 => Shallow(Head(queue)) /\ (\A i \in 1..Len(queue) : Shallow(queue[i]))'
  <2>1. queue # <<>> /\ queue' = Tail(queue) /\ state = "loop"
    BY <1>8 DEF Take
  <2>2. /\ Waiting = {Head(queue).url} \cup Waiting'
        /\ options.depth > 0 => Shallow(Head(queue)) /\ AllShallow(queue')
    BY <1>1, <1>3, <1>4, <2>1, HeadAndTail
  <2>3. Head(queue) \in Items /\ queue' \in Seq(Items)
    BY <1>1, <2>1
  <2>4. QED
    BY <1>5, <2>1, <2>2, <2>3
<1>9. CASE Drop
  <2>1. /\ Take /\ ~Wanted(Head(queue).url) /\ UNCHANGED <<state, item, seen, errors, owed, fetched>>
    BY <1>9 DEF Drop, loop
  <2>2. QueueInv'
    BY <1>8, <2>1, <1>2 DEF QueueInv
  <2>3. OwedInv'
    <3>1. SUFFICES ASSUME options.depth > 0, errors = {}
                   PROVE  /\ \A u \in owed : OriginOf[u] \in allowed
                          /\ seen \subseteq fetched \cup Listed(Metadata) \cup Underway
                          /\ owed \subseteq seen \cup Waiting'
      BY <1>2, <1>8, <2>1 DEF OwedInv, Underway
    <3>2. /\ \A u \in owed : OriginOf[u] \in allowed
          /\ seen \subseteq fetched \cup Listed(Metadata) \cup Underway
          /\ owed \subseteq seen \cup Waiting
      BY <1>1, <1>8, <2>1, <3>1 DEF OwedInv
    <3>3. Head(queue).url \in owed => Head(queue).url \in seen
      BY <1>1, <2>1, <3>2 DEF Wanted, InScope, TypeOK
    <3>4. QED
      BY <1>8, <2>1, <3>2, <3>3
  <2>4. QED
    BY <1>8, <2>1, <2>2, <2>3 DEF ClosureInv, DoneInv
<1>10. CASE PassBy
  <2>1. /\ Visit /\ Take /\ seen' = seen \cup {Head(queue).url}
        /\ UNCHANGED <<state, item, errors, owed, fetched>>
    BY <1>10 DEF PassBy, Visit
  <2>2. QueueInv'
    BY <1>8, <2>1, <1>2 DEF QueueInv
  <2>3. options.depth > 0 => Head(queue).url \in Listed(Metadata)
    <3>1. SUFFICES ASSUME options.depth > 0, Shallow(Head(queue))
                   PROVE  Head(queue).url \in Listed(Metadata)
      BY <1>8, <2>1
    <3>2. Head(queue).depth \in Nat
      BY <1>8, <2>1 DEF Items
    <3>3. QED
      BY <1>1, <1>10, <3>1, <3>2 DEF PassBy, TooDeep, Shallow
  <2>4. OwedInv'
    BY <1>1, <1>2, <1>8, <2>1, <2>3 DEF OwedInv, Underway
  <2>5. QED
    BY <1>8, <2>1, <2>2, <2>4 DEF ClosureInv, DoneInv
<1>11. CASE Stop
  <2>1. Take /\ item' = item /\ state' = "incomplete"
    BY <1>11 DEF Stop, Visit
  <2>2. QueueInv'
    BY <1>8, <2>1, <1>2 DEF QueueInv
  <2>3. QED
    BY <2>1, <2>2 DEF ClosureInv, DoneInv, OwedInv
<1>12. CASE Fetch
  <2>1. /\ Take /\ item' = Head(queue) /\ state' = "collect" /\ seen' = seen \cup {Head(queue).url}
        /\ UNCHANGED <<errors, owed, fetched>>
    BY <1>12 DEF Fetch, Visit
  <2>2. options.depth > 0 => Shallow(item)'
    BY <1>2, <1>8, <2>1 DEF Shallow
  <2>3. QueueInv'
    BY <1>2, <1>8, <2>1, <2>2 DEF QueueInv
  <2>4. OwedInv'
    BY <1>1, <1>2, <1>8, <2>1 DEF OwedInv, Underway
  <2>5. QED
    BY <2>1, <2>3, <2>4 DEF ClosureInv, DoneInv
<1>13. CASE UNCHANGED <<state, queue, item, seen, errors, owed, fetched>>
  BY <1>1, <1>2, <1>13 DEF ClosureInv, QueueInv, OwedInv, DoneInv, Shallow, Waiting, Underway
<1>14. CASE Request
  BY <1>13, <1>14 DEF Request, loop
<1>15. ASSUME state' \in {"incomplete", "raised"}, UNCHANGED <<queue, item>>
       PROVE  ClosureInv'
  BY <1>1, <1>2, <1>15 DEF ClosureInv, QueueInv, OwedInv, DoneInv, Shallow
<1>16. CASE ChainTooLong \/ LinkRaises
  BY <1>15, <1>16 DEF ChainTooLong, LinkRaises
<1>17. CASE PageFails
  <2>1. /\ state = "collect" /\ state' = "loop" /\ errors' = errors \cup FailureOf(item)
        /\ UNCHANGED <<queue, item, seen, owed, fetched>>
    BY <1>17 DEF PageFails, Collected
  <2>2. QueueInv'
    BY <1>1, <1>2, <2>1 DEF QueueInv, Shallow
  <2>3. options.depth > 0 /\ errors' = {} => item.url \in Listed(Metadata)
    BY <1>1, <2>1 DEF FailureOf, QueueInv, Shallow
  <2>4. OwedInv'
    BY <1>1, <1>2, <2>1, <2>3 DEF OwedInv, Underway, Waiting
  <2>5. QED
    BY <2>1, <2>2, <2>4 DEF ClosureInv, DoneInv
<1>18. CASE PageArrives
  <2>1. /\ state = "collect" /\ state' = "loop" /\ UNCHANGED <<item, seen>>
        /\ answer \in Answers
    BY <1>1, <1>18 DEF PageArrives, Answered, Collected, ChainInv, TypeOK, CollectorTypeOK
  <2>2. CASE ~InScope(answer.url)
    <3>1. errors' # {} /\ UNCHANGED <<queue, owed, fetched>>
      BY <1>18, <2>2 DEF PageArrives
    <3>2. QED
      BY <1>1, <1>2, <2>1, <3>1 DEF ClosureInv, QueueInv, OwedInv, DoneInv, Shallow
  <2>3. CASE InScope(answer.url)
    <3>1. errors' = errors /\ fetched' = fetched \cup {item.url}
      BY <1>18, <2>3 DEF PageArrives
    <3>2. ASSUME NEW us \in Seq(Urls \cup {None}),
                 Waiting' = Waiting \cup Listed(us), owed' = owed \cup Owes(us)
          PROVE  OwedInv'
      BY <1>1, <1>2, <1>6, <2>1, <3>1, <3>2 DEF OwedInv, Underway
    <3>3. CASE ~Follows
      <4>1. UNCHANGED <<queue, owed>>
        BY <1>18, <2>3, <3>3 DEF PageArrives
      <4>2. QueueInv'
        BY <1>1, <1>2, <2>1, <4>1 DEF QueueInv, Shallow
      <4>3. OwedInv'
        BY <1>1, <1>2, <2>1, <3>1, <4>1 DEF OwedInv, Underway, Waiting
      <4>4. QED
        BY <2>1, <4>2, <4>3 DEF ClosureInv, DoneInv
    <3>4. CASE Follows
      <4> DEFINE W == Wrapped(answer.links, NextDepth, FALSE)
      <4>1. queue' = queue \o W /\ owed' = owed \cup Owes(answer.links)
        BY <1>18, <2>3, <3>4 DEF PageArrives
      <4>2. answer.links \in Seq(Urls \cup {None})
        BY <2>1 DEF Answers
      <4>3. /\ NextDepth \in Nat
            /\ options.depth > 0 => NextDepth <= options.depth
        BY <1>1, <3>4 DEF NextDepth, Follows, Items
      <4>4. W \in Seq(Items)
        BY <4>2, <4>3, WrappedType
      <4>5. /\ UrlsIn(W) = Listed(answer.links)
            /\ options.depth > 0 => AllShallow(W)
        BY <4>2, <4>3, WrappedItems
      <4> HIDE DEF W
      <4>6. /\ Waiting' = Waiting \cup Listed(answer.links)
            /\ options.depth > 0 => AllShallow(queue')
        BY <1>1, <1>3, <1>4, <4>1, <4>4, <4>5, Joined
      <4>7. QueueInv'
        BY <1>2, <1>5, <2>1, <4>6 DEF QueueInv
      <4>8. QED
        BY <2>1, <3>2, <4>1, <4>2, <4>6, <4>7 DEF ClosureInv, DoneInv
    <3>5. QED
      BY <3>3, <3>4
  <2>4. QED
    BY <2>2, <2>3
<1>19. CASE Finish
  <2>1. /\ queue = <<>> /\ state = "loop" /\ (state' = "complete" => errors = {})
        /\ state' \in {"complete", "incomplete"}
        /\ UNCHANGED <<queue, item, seen, errors, owed, fetched>>
    BY <1>19 DEF Finish, loop
  <2>2. QED
    BY <1>1, <1>2, <2>1 DEF ClosureInv, QueueInv, OwedInv, DoneInv, Shallow, Waiting, Underway
<1>20. CASE UNCHANGED vars
  BY <1>13, <1>20 DEF vars, loop
<1>21. QED
  BY <1>7, <1>9, <1>10, <1>11, <1>12, <1>14, <1>16, <1>17, <1>18, <1>19, <1>20 DEF Next

\* The state of a crawl is well typed and its inductive invariant holds: the
\* argument of every theorem below.
THEOREM Invariance == Spec => []IInv
<1>1. Init => IInv
  BY InitIInv
<1>2. IInv /\ [Next]_vars => IInv'
  BY StepKeeps
<1>3. QED
  BY <1>1, <1>2, PTL DEF Spec

\* A crawl never makes, or counts, more requests than its ceiling, nor keeps
\* more pages (RequestBudget.claim and crawl()).
THEOREM Bounded == Spec => []RequestsAreBounded
<1>1. IInv => RequestsAreBounded
  BY DEF IInv
<1>2. QED
  BY <1>1, Invariance, PTL

\* No chain of redirects goes back from HTTPS to HTTP (HttpCollector.collect).
THEOREM NoDowngrades == Spec => []NeverDowngraded
<1>1. IInv => NeverDowngraded
  BY DEF IInv
<1>2. QED
  BY <1>1, Invariance, PTL

\* Every request of a crawl goes to an origin that was allowed
\* (HttpCollector._check_origin).
THEOREM Scoped == Spec => []StaysInScope
<1>1. Init => StaysInScope
  BY DEF Init, StaysInScope
<1>2. IInv /\ StaysInScope /\ [Next]_vars => StaysInScope'
  BY ScopeKeeps
<1>3. QED
  BY <1>1, <1>2, Invariance, PTL DEF Spec

\* A crawl that reports itself complete answered for every page that a followed
\* document or a seed named within scope (the verdict of crawl(), from the
\* queue, the depth rule and the error list together).
THEOREM CompleteCrawlsAreClosed == Spec => []CompleteIsClosed
<1>1. Init => ClosureInv
  BY CrawlAssumption
     DEF Init, ClosureInv, QueueInv, OwedInv, DoneInv, Waiting, Underway
<1>2. IInv /\ ClosureInv /\ [Next]_vars => ClosureInv'
  BY ClosureKeeps
<1>3. ClosureInv => CompleteIsClosed
  <2>1. SUFFICES ASSUME ClosureInv, state = "complete", options.depth > 0
                 PROVE  owed \ Listed(Metadata) \subseteq fetched
    BY DEF CompleteIsClosed
  <2>2. Waiting = {} /\ Underway = {} /\ errors = {}
    BY <2>1 DEF ClosureInv, DoneInv, Waiting, Underway
  <2>3. QED
    BY <2>1, <2>2 DEF ClosureInv, OwedInv
<1>4. QED
  BY <1>1, <1>2, <1>3, Invariance, PTL DEF Spec
=============================================================================
