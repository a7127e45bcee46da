---------------------------- MODULE BrowserProofs ----------------------------
(* Proofs about Browser, for every site, scope, ceiling and bound: what is     *)
(* requested was approved, what is complete was analysed, and a discovery      *)
(* without errors has captured all there is within the depth.                  *)
EXTENDS Browser, FiniteSetTheorems, WellFoundedInduction, TLAPS

LEMMA InitFlight == Init => FlightInv
<1> SUFFICES ASSUME Init PROVE FlightInv
  OBVIOUS
<1> USE BrowserAssumption DEF Init
<1>1. options \in Options /\ options.pages \in Nat /\ options.requests \in Nat
  OBVIOUS
<1>2. slots \in [1..options.pages -> Nat] /\ \A k \in DOMAIN slots : slots[k] <= options.requests
  BY <1>1
<1>3. QED  BY <1>1, <1>2 DEF FlightInv, Handled

\* A request that claims a slot was approved and had room.
LEMMA ClaimKept ==
  ASSUME FlightInv, NEW r \in flying, Claim(r), UNCHANGED fixed
  PROVE  slots' \in [1..options.pages -> Nat] /\ Handled'
<1> USE DEF FlightInv, fixed
<1>1. options.requests \in Nat  BY BrowserAssumption
<1>2. slots' \in [1..options.pages -> Nat]
  <2>1. slots' = [slots EXCEPT ![r.of] = @ + 1] /\ slots \in [1..options.pages -> Nat]
    BY DEF Claim
  <2>2. CASE r.of \in 1..options.pages
    BY <2>1, <2>2
  <2>3. CASE r.of \notin 1..options.pages
    <3>1. slots' = slots  BY <2>1, <2>3
    <3>2. QED  BY <2>1, <3>1
  <2>4. QED  BY <2>2, <2>3
<1>3. ASSUME NEW k \in DOMAIN slots' PROVE slots'[k] <= options'.requests
  <2>1. k \in DOMAIN slots /\ slots[k] \in Nat /\ slots[k] <= options.requests
    BY <1>2, <1>3 DEF Handled
  <2>2. CASE k = r.of
    BY <1>1, <2>1, <2>2 DEF Claim, HasSlot
  <2>3. CASE k # r.of
    BY <2>1, <2>3 DEF Claim
  <2>4. QED  BY <2>2, <2>3
<1>4. ASSUME NEW s \in sent' PROVE s.origin \in scope' /\ s.approved
  BY <1>4 DEF Claim, Handled, Pinned
<1>5. QED  BY <1>2, <1>3, <1>4 DEF Handled

\* Requests that start are approved at that moment.
LEMMA RequestApproved ==
  ASSUME NEW u, NEW m, Approved(u)
  PROVE  OriginOf[Request(u, m).url] \in scope /\ Request(u, m).approved
BY DEF Approved, Request

LEMMA FlightStep == FlightInv /\ [Next]_vars => FlightInv'
<1> SUFFICES ASSUME FlightInv, [Next]_vars PROVE FlightInv'
  OBVIOUS
<1> DEFINE Approval(r) == OriginOf[r.url] \in scope /\ r.approved
<1>1. ASSUME UNCHANGED <<fixed, web>> PROVE FlightInv'
  BY <1>1 DEF FlightInv, Handled, fixed, web
<1>2. ASSUME UNCHANGED fixed, UNCHANGED <<slots, sent>>, \A r \in flying' : Approval(r)
      PROVE  FlightInv'
  BY <1>2 DEF FlightInv, Handled, fixed
<1>3. ASSUME NEW r \in flying, UNCHANGED fixed, Claim(r), \A q \in flying' : Approval(q)
      PROVE  FlightInv'
  <2>1. slots' \in [1..options'.pages -> Nat] /\ Handled'
    BY <1>3, ClaimKept DEF fixed
  <2>2. QED  BY <1>3, <2>1 DEF FlightInv, fixed
<1>4. \A r \in flying : Approval(r)
  BY DEF FlightInv
<1>5. CASE GoTo
  <2>1. \A r \in flying' : Approval(r)
    <3>1. CASE Approved(url)
      <4>1. flying' = flying \cup {Request(url, TRUE)}  BY <1>5, <3>1 DEF GoTo
      <4>2. Approval(Request(url, TRUE))  BY <3>1, RequestApproved
      <4>3. QED  BY <1>4, <4>1, <4>2
    <3>2. CASE ~Approved(url)
      BY <1>4, <1>5, <3>2 DEF GoTo
    <3>3. QED  BY <3>1, <3>2
  <2>2. QED  BY <1>2, <1>5, <2>1 DEF GoTo
<1>6. ASSUME NEW u \in Urls, Ask(u) PROVE FlightInv'
  <2>1. \A r \in flying' : Approval(r)
    BY <1>4, <1>6, RequestApproved DEF Ask
  <2>2. QED  BY <1>2, <1>6, <2>1 DEF Ask
<1>7. ASSUME NEW r \in flying, Abort(r) PROVE FlightInv'
  <2>1. UNCHANGED fixed /\ \A q \in flying' : Approval(q)
    BY <1>4, <1>7 DEF Abort, Lands
  <2>2. CASE Claim(r)
    BY <1>3, <2>1, <2>2
  <2>3. CASE UNCHANGED <<slots, sent>>
    BY <1>2, <2>1, <2>3
  <2>4. QED  BY <1>7, <2>2, <2>3 DEF Abort
<1>8. ASSUME NEW r \in flying, NEW fate, Answer(r, fate) PROVE FlightInv'
  <2>1. UNCHANGED fixed /\ Claim(r) /\ \A q \in flying' : Approval(q)
    BY <1>4, <1>8 DEF Answer, Lands
  <2>2. QED  BY <1>3, <2>1
<1>9. ASSUME NEW r \in flying, NEW d \in Urls, Redirect(r, d) PROVE FlightInv'
  <2>1. UNCHANGED fixed /\ Claim(r) /\ Approved(d)
    BY <1>9 DEF Redirect, Lands
  <2>2. \A q \in flying' : Approval(q)
    BY <1>4, <1>9 DEF Redirect
  <2>3. QED  BY <1>3, <2>1, <2>2
<1>10. CASE UNCHANGED vars
  BY <1>1, <1>10 DEF vars
<1>11. CASE Loop
  BY <1>1, <1>11 DEF Loop, Launch, LaunchFails, Drop, Visit, Finish, Exhaust
<1>12. ASSUME NEW o \in Origins, Rebind(o) PROVE FlightInv'
  BY <1>1, <1>12 DEF Rebind
<1>13. CASE Judge
  BY <1>1, <1>13 DEF Judge
<1>14. ASSUME NEW c, NEW a, Analyse(c, a) PROVE FlightInv'
  BY <1>1, <1>14 DEF Analyse
<1>15. CASE Deny \/ NotFound \/ Captured \/ BrowserFails \/ Settle
  BY <1>1, <1>15 DEF Deny, NotFound, Captured, BrowserFails, Settle, Same
<1>16. CASE Escape \/ GiveUp \/ Collect \/ Present
  BY <1>1, <1>16 DEF Escape, GiveUp, Collect, Present
<1>17. ASSUME NEW ls, ReadPage(ls) PROVE FlightInv'
  BY <1>1, <1>17 DEF ReadPage, Same
<1>18. ASSUME NEW x, Follow(x) \/ Arrive(x) PROVE FlightInv'
  BY <1>1, <1>18 DEF Follow, Arrive, Follows
<1>19. CASE Lookup
  BY <1>7, <1>8, <1>9, <1>12, <1>18, <1>19 DEF Lookup
<1>20. CASE Page
  BY <1>5, <1>6, <1>15, <1>16, <1>17, <1>20 DEF Page
<1>21. QED
  BY <1>10, <1>11, <1>13, <1>14, <1>19, <1>20 DEF Next

\* Only what the scope allows is shown: the address is checked when the page is
\* loaded, and no redirect reaches it after that.
ShownInv == Shown => OriginOf[final] \in scope
LEMMA ShownStep ==
  ASSUME ShownInv, [Next]_vars
  PROVE  ShownInv'
<1>1. ASSUME UNCHANGED fixed, phase' # "read",
             phase' \in {"closing", "judge"} => result' = Raised \/ ~result'.ok
      PROVE  ShownInv'
  BY <1>1 DEF ShownInv, Shown
<1>2. ASSUME UNCHANGED <<fixed, phase, final, result>>
      PROVE  ShownInv'
  BY <1>2 DEF ShownInv, Shown, fixed
<1>3. CASE Launch \/ LaunchFails \/ Visit \/ Finish \/ \E late \in BOOLEAN : Exhaust(late)
  BY <1>1, <1>3 DEF Launch, LaunchFails, Visit, Finish, Exhaust, Open, Ends
<1>4. CASE Drop
  BY <1>2, <1>4 DEF Drop, page, locals
<1>5. CASE GoTo \/ Settle
  BY <1>1, <1>5 DEF GoTo, Settle, Same
<1>6. CASE \E u \in Urls : Ask(u)
  BY <1>2, <1>6 DEF Ask, page, locals
<1>7. CASE Deny \/ NotFound
  BY <1>1, <1>7 DEF Deny, NotFound, Returns, Capture, Same
<1>8. CASE \E ls \in LinkLists : ReadPage(ls)
  BY <1>8 DEF ReadPage, Approved, Same, fixed, ShownInv
<1>9. CASE Captured
  BY <1>9 DEF Captured, Returns, Same, fixed, ShownInv, Shown
<1>10. CASE BrowserFails
  BY <1>1, <1>10 DEF BrowserFails, Returns, Capture, Same
<1>11. CASE Escape \/ Collect
  BY <1>1, <1>11 DEF Escape, Collect, Ends
<1>12. CASE GiveUp
  BY <1>1, <1>12 DEF GiveUp, Ends, Capture
<1>13. CASE Present
  BY <1>13 DEF Present, page, locals, fixed, ShownInv, Shown
<1>14. CASE Judge \/ \E crop, answer : Analyse(crop, answer)
  BY <1>1, <1>14 DEF Judge, Analyse, Judged, Ends
<1>15. ASSUME NEW r \in flying, Abort(r) \/ \E fate : Answer(r, fate)
       PROVE  ShownInv'
  BY <1>2, <1>15 DEF Abort, Answer, Lands
<1>16. ASSUME NEW r \in flying, NEW d \in Urls, Redirect(r, d)
       PROVE  ShownInv'
  <2>1. UNCHANGED <<fixed, phase, result>> /\ (final' = final \/ phase = "loading")
    BY <1>16 DEF Redirect, Lands, Awaited
  <2>2. CASE final' = final
    BY <1>2, <2>1, <2>2
  <2>3. CASE phase = "loading"
    BY <1>1, <2>1, <2>3
  <2>4. QED  BY <2>1, <2>2, <2>3
<1>17. CASE (\E d \in Urls : Follow(d)) \/ \E fate \in Loaded \cup {"failed"} : Arrive(fate)
  BY <1>1, <1>17 DEF Follow, Arrive, Follows
<1>18. CASE (\E o \in Origins : Rebind(o)) \/ UNCHANGED vars
  BY <1>2, <1>18 DEF Rebind, vars, page, locals
<1>19. QED
  BY <1>3, <1>4, <1>5, <1>6, <1>7, <1>8, <1>9, <1>10, <1>11, <1>12, <1>13, <1>14, <1>15, <1>16,
     <1>17, <1>18 DEF Next, Loop, Page, Lookup

\* No request of the handler leaves the scope, dials an address that was not
\* approved or exceeds the budget of its page, for every site and ceiling, and
\* no page out of scope is shown, wherever Chromium is redirected.
THEOREM RequestsApproved == Spec => []RequestsAreApproved
<1>1. Init => ShownInv
  BY DEF Init, ShownInv, Shown
<1>2. FlightInv /\ ShownInv => RequestsAreApproved
  BY DEF FlightInv, ShownInv, RequestsAreApproved
<1>3. QED  BY <1>1, <1>2, InitFlight, FlightStep, ShownStep, PTL DEF Spec
-----------------------------------------------------------------------------
LEMMA InitVerdict == Init => VerdictInv
BY BrowserAssumption DEF Init, VerdictInv, CompleteIsAnalysed

\* Steps before the end that leave the verdict alone.
LEMMA VerdictStays ==
  ASSUME VerdictInv, UNCHANGED fixed, UNCHANGED verdict, phase # "over",
         phase' = "over" <=> outcome' # "running",
         phase' = "over" => (outcome' # "returned" \/ Discovers),
         phase' = "loop" => Discovers,
         phase' = "judge" => ~Discovers
  PROVE  VerdictInv'
<1>1. ~complete' /\ given' = None /\ ~accepted'
  BY DEF VerdictInv, verdict
<1>2. CompleteIsAnalysed'
  <2>1. outcome' = "returned" => ~(Analysed)'
    BY DEF VerdictInv, Discovers, Analysed, fixed
  <2>2. QED  BY <1>1, <2>1 DEF CompleteIsAnalysed
<1>3. QED  BY <1>1, <1>2 DEF VerdictInv, fixed, verdict, Discovers

LEMMA VerdictStep == VerdictInv /\ [Next]_vars => VerdictInv'
<1> SUFFICES ASSUME VerdictInv, [Next]_vars PROVE VerdictInv'
  OBVIOUS
<1>1. ASSUME UNCHANGED <<fixed, phase, outcome, errors, result, verdict>> PROVE VerdictInv'
  BY <1>1 DEF VerdictInv, CompleteIsAnalysed, fixed, verdict, Discovers, Analysed
<1>2. CASE Loop
  BY <1>2, VerdictStays
     DEF VerdictInv, Loop, Launch, LaunchFails, Drop, Visit, Finish, Exhaust, Take, Ends, Open,
         fixed, Discovers
<1>3. CASE GoTo \/ \E u \in Urls : Ask(u)
  BY <1>3, VerdictStays DEF VerdictInv, GoTo, Ask, fixed, walk, page, locals
<1>4. CASE Settle \/ \E ls \in LinkLists : ReadPage(ls)
  BY <1>4, VerdictStays DEF VerdictInv, Settle, ReadPage, Same
<1>5. CASE Deny \/ NotFound \/ Captured \/ BrowserFails
  <2>1. /\ UNCHANGED <<fixed, verdict, outcome>> /\ phase # "over" /\ phase' = "closing"
    BY <1>5 DEF Deny, NotFound, Captured, BrowserFails, Same, Returns, Capturing
  <2>2. QED  BY <2>1, VerdictStays DEF VerdictInv
<1>6. CASE Escape \/ GiveUp \/ Collect \/ Present
  BY <1>6, VerdictStays
     DEF VerdictInv, Escape, GiveUp, Collect, Present, Ends, Capturing
<1>7. CASE Lookup
  BY <1>1, <1>7 DEF Lookup, Rebind, Abort, Answer, Redirect, Follow, Arrive, Follows, Lands, walk, page, locals
<1>8. CASE Judge
  BY <1>8 DEF VerdictInv, CompleteIsAnalysed, Judge, Judged, Failed, Ends, Analysed, Discovers,
              fixed, page, locals
<1>9. ASSUME NEW crop, NEW answer \in BOOLEAN, Analyse(crop, answer) PROVE VerdictInv'
  BY <1>9 DEF VerdictInv, CompleteIsAnalysed, Analyse, Judged, Usable, Ends, Analysed, Discovers,
              fixed, page, locals
<1>10. CASE UNCHANGED vars
  BY <1>1, <1>10 DEF vars, walk, page, locals
<1>11. QED
  BY <1>2, <1>3, <1>4, <1>5, <1>6, <1>7, <1>8, <1>9, <1>10 DEF Next, Page

\* What counts as analysed was analysed, from a crop and not the screenshot.
THEOREM Analysis == Spec => []CompleteIsAnalysed
<1>1. VerdictInv => CompleteIsAnalysed  BY DEF VerdictInv
<1>2. QED  BY <1>1, InitVerdict, VerdictStep, PTL DEF Spec
-----------------------------------------------------------------------------
(* Within.  Induction is a statement about a set of numbers, and what is       *)
(* iterated is a function.                                                    *)

LEMMA Induction ==
  ASSUME NEW S \in SUBSET Nat, 0 \in S, \A n \in S : n + 1 \in S
  PROVE  S = Nat
<1> DEFINE Less == {ss \in Nat \X Nat : ss[1] < ss[2]}
<1>1. IsWellFoundedOn(Less, Nat)
  BY NatLessThanWellFounded DEF OpToRel
<1>2. ASSUME NEW x \in Nat \ S, \A y \in Nat \ S : <<y, x>> \notin Less PROVE FALSE
  <2>1. x # 0 /\ x - 1 \in Nat /\ x - 1 + 1 = x
    BY <1>2
  <2>2. x - 1 \notin S
    BY <1>2, <2>1
  <2>3. <<x - 1, x>> \in Less
    BY <2>1
  <2>4. QED
    BY <1>2, <2>1, <2>2, <2>3
<1> HIDE DEF Less
<1>3. Nat \ S # {} => \E x \in Nat \ S : \A y \in Nat \ S : <<y, x>> \notin Less
  BY <1>1, WFMin
<1>4. QED
  BY <1>2, <1>3

\* g starts at x and goes on with F.
Iterates(g, T, x, F) == g \in [Nat -> T] /\ g[0] = x /\ \A n \in Nat : g[n + 1] = F[g[n]]

LEMMA Iteration ==
  ASSUME NEW T, NEW x \in T, NEW F \in [T -> T]
  PROVE  \E g : Iterates(g, T, x, F)
<1> DEFINE Upto(n, h) == /\ h \in [0..n -> T] /\ h[0] = x
                         /\ \A i \in 0..(n - 1) : h[i + 1] = F[h[i]]
<1>1. \A n \in Nat : \E h : Upto(n, h)
  <2> DEFINE S == {n \in Nat : \E h : Upto(n, h)}
  <2>1. 0 \in S
    <3>1. Upto(0, [i \in 0..0 |-> x])
      OBVIOUS
    <3>2. QED
      BY <3>1
  <2>2. ASSUME NEW n \in S PROVE n + 1 \in S
    <3>1. PICK h : Upto(n, h)
      BY <2>2
    <3> DEFINE k == [i \in 0..(n + 1) |-> IF i = n + 1 THEN F[h[n]] ELSE h[i]]
    <3>2. n \in Nat /\ h[n] \in T
      BY <2>2, <3>1
    <3>3. k \in [0..(n + 1) -> T] /\ k[0] = x
      BY <3>1, <3>2
    <3>4. ASSUME NEW i \in 0..n PROVE k[i + 1] = F[k[i]]
      <4>1. CASE i = n
        BY <3>2, <4>1
      <4>2. CASE i # n
        <5>1. i \in 0..(n - 1) /\ i + 1 # n + 1 /\ i # n + 1 /\ i + 1 \in 0..(n + 1)
              /\ i \in 0..(n + 1)
          BY <3>2, <3>4, <4>2
        <5>2. k[i + 1] = h[i + 1] /\ k[i] = h[i]
          BY <5>1
        <5>3. QED
          BY <3>1, <5>1, <5>2
      <4>3. QED
        BY <4>1, <4>2
    <3> HIDE DEF k
    <3>5. Upto(n + 1, k)
      BY <3>2, <3>3, <3>4
    <3>6. QED
      BY <3>2, <3>5
  <2> HIDE DEF S
  <2>3. S = Nat
    <3>1. S \in SUBSET Nat
      BY DEF S
    <3>2. QED
      BY <2>1, <2>2, <3>1, Induction
  <2>4. QED
    BY <2>3 DEF S
<1>2. ASSUME NEW n \in Nat, NEW m \in Nat, n <= m, NEW h, NEW k, Upto(n, h), Upto(m, k)
      PROVE  h[n] = k[n]
  <2> DEFINE S == {i \in Nat : i <= n => h[i] = k[i]}
  <2>1. 0 \in S
    BY <1>2
  <2>2. ASSUME NEW i \in S PROVE i + 1 \in S
    <3>1. CASE i + 1 <= n
      <4>1. i \in 0..(n - 1) /\ i \in 0..(m - 1) /\ h[i] = k[i]
        BY <1>2, <2>2, <3>1
      <4>2. h[i + 1] = k[i + 1]
        BY <1>2, <4>1
      <4>3. QED
        BY <2>2, <4>2
    <3>2. CASE ~(i + 1 <= n)
      BY <2>2, <3>2
    <3>3. QED
      BY <3>1, <3>2
  <2> HIDE DEF S
  <2>3. S = Nat
    <3>1. S \in SUBSET Nat
      BY DEF S
    <3>2. QED
      BY <2>1, <2>2, <3>1, Induction
  <2>4. QED
    BY <2>3 DEF S
<1> DEFINE H(n) == CHOOSE h : Upto(n, h)
           g == [n \in Nat |-> H(n)[n]]
<1>3. \A n \in Nat : Upto(n, H(n))
  BY <1>1
<1> HIDE DEF H
<1>4. g \in [Nat -> T] /\ g[0] = x
  BY <1>3
<1>5. ASSUME NEW n \in Nat PROVE g[n + 1] = F[g[n]]
  <2>1. n + 1 \in Nat /\ n <= n + 1 /\ n \in 0..(n + 1 - 1)
    OBVIOUS
  <2>2. H(n + 1)[n + 1] = F[H(n + 1)[n]]
    BY <1>3, <2>1
  <2>3. H(n)[n] = H(n + 1)[n]
    <3>1. Upto(n, H(n)) /\ Upto(n + 1, H(n + 1))
      BY <1>3, <2>1
    <3> HIDE DEF Upto
    <3>2. QED
      BY <1>2, <2>1, <3>1
  <2>4. QED
    BY <2>1, <2>2, <2>3
<1>6. QED
  BY <1>4, <1>5 DEF Iterates

\* W[n] is what lies within n links, were the pages read as r says.
Layers(W, r, sc) ==
  /\ W \in [Nat -> SUBSET Urls] /\ W[0] = {Start}
  /\ \A n \in Nat : W[n + 1] = Further(r, sc, W[n])

LEMMA FurtherHas ==
  ASSUME NEW r, NEW sc, NEW S, NEW v
  PROVE  v \in Further(r, sc, S) <=>
           v \in S \/ (v \in Urls /\ OriginOf[v] \in sc /\ \E u \in S : v \in Listed(r[u]))
BY DEF Further

LEMMA FurtherIs ==
  ASSUME NEW r, NEW sc, NEW S, S \subseteq Urls
  PROVE  Further(r, sc, S) \subseteq Urls
BY DEF Further

LEMMA LayersWitness ==
  ASSUME NEW r, NEW sc
  PROVE  \E g : Layers(g, r, sc)
<1> DEFINE T == SUBSET Urls
           x == {Start}
           F == [S \in T |-> Further(r, sc, S)]
<1>1. F \in [T -> T] /\ x \in T
  BY FurtherIs, BrowserAssumption
<1>2. \A S \in T : F[S] = Further(r, sc, S)
  OBVIOUS
<1> HIDE DEF F, T, x
<1>3. PICK g : Iterates(g, T, x, F)
  BY <1>1, Iteration
<1>4. \A n \in Nat : g[n + 1] = Further(r, sc, g[n])
  BY <1>2, <1>3 DEF Iterates
<1>5. QED
  BY <1>3, <1>4 DEF Layers, Iterates, T, x

\* The equation that defines Within, for any reading of the pages.
Recurs(W, r, sc) == W = [n \in Nat |-> IF n = 0 THEN {Start} ELSE Further(r, sc, W[n - 1])]

LEMMA LayersFrom ==
  ASSUME NEW r, NEW sc, NEW W, Recurs(W, r, sc)
  PROVE  Layers(W, r, sc)
<1>a. \A n \in Nat : W[n] = IF n = 0 THEN {Start} ELSE Further(r, sc, W[n - 1])
  BY DEF Recurs
<1>b. W = [n \in Nat |-> W[n]]
  BY DEF Recurs
<1>1. W[0] = {Start}
  BY <1>a
<1>2. ASSUME NEW n \in Nat PROVE W[n + 1] = Further(r, sc, W[n])
  <2> DEFINE m == n + 1
  <2>1. m \in Nat /\ m # 0 /\ m - 1 = n
    OBVIOUS
  <2> HIDE DEF m
  <2>2. W[m] = Further(r, sc, W[n])
    BY <1>a, <2>1
  <2>3. QED
    BY <2>2 DEF m
<1> DEFINE S == {n \in Nat : W[n] \in SUBSET Urls}
<1>3. 0 \in S
  BY <1>1, BrowserAssumption
<1>4. ASSUME NEW n \in S PROVE n + 1 \in S
  <2>1. n \in Nat /\ W[n] \subseteq Urls /\ W[n + 1] = Further(r, sc, W[n])
    BY <1>2, <1>4
  <2>2. Further(r, sc, W[n]) \subseteq Urls
    BY <2>1, FurtherIs
  <2>3. QED
    BY <2>1, <2>2
<1>5. S \in SUBSET Nat
  OBVIOUS
<1> HIDE DEF S
<1>6. S = Nat
  BY <1>3, <1>4, <1>5, Induction
<1>7. \A n \in Nat : W[n] \in SUBSET Urls
  BY <1>6 DEF S
<1>8. W \in [Nat -> SUBSET Urls]
  BY <1>b, <1>7
<1>9. QED
  BY <1>1, <1>2, <1>8 DEF Layers

LEMMA LayersExist ==
  ASSUME NEW r, NEW sc, NEW W, W = CHOOSE V : Recurs(V, r, sc)
  PROVE  Layers(W, r, sc)
<1>1. PICK g : Layers(g, r, sc)
  BY LayersWitness
<1>2. ASSUME NEW n \in Nat PROVE g[n] = IF n = 0 THEN {Start} ELSE Further(r, sc, g[n - 1])
  <2>1. CASE n = 0
    BY <1>1, <2>1 DEF Layers
  <2>2. CASE n # 0
    <3>1. n - 1 \in Nat /\ n - 1 + 1 = n
      BY <2>2
    <3>2. QED
      BY <1>1, <2>2, <3>1 DEF Layers
  <2>3. QED
    BY <2>1, <2>2
<1>3. g = [n \in Nat |-> g[n]]
  BY <1>1 DEF Layers
<1>4. Recurs(g, r, sc)
  BY <1>2, <1>3 DEF Recurs
<1>5. Recurs(W, r, sc)
  BY <1>4
<1>6. QED
  BY <1>5, LayersFrom

\* The closure of the state, and of the next one.
LEMMA WithinIs == Layers(Within, read, scope) /\ Layers(Within', read', scope')
BY LayersExist DEF Within, Recurs

LEMMA LayersGrow ==
  ASSUME NEW W, NEW r, NEW sc, Layers(W, r, sc), NEW m \in Nat, NEW n \in Nat, m <= n
  PROVE  W[m] \subseteq W[n]
<1> DEFINE S == {k \in Nat : W[m] \subseteq W[m + k]}
<1>1. 0 \in S
  OBVIOUS
<1>2. ASSUME NEW k \in S PROVE k + 1 \in S
  <2>1. k \in Nat /\ m + k \in Nat /\ m + (k + 1) = m + k + 1
    BY <1>2
  <2>2. W[m + k + 1] = Further(r, sc, W[m + k])
    BY <2>1 DEF Layers
  <2>3. W[m + k] \subseteq W[m + (k + 1)]
    BY <2>1, <2>2, FurtherHas
  <2>4. QED
    BY <1>2, <2>1, <2>3
<1>3. S \in SUBSET Nat
  OBVIOUS
<1> HIDE DEF S
<1>4. S = Nat
  BY <1>1, <1>2, <1>3, Induction
<1>5. n - m \in Nat /\ m + (n - m) = n
  OBVIOUS
<1>6. W[m] \subseteq W[m + (n - m)]
  BY <1>4, <1>5 DEF S
<1>7. QED
  BY <1>5, <1>6

LEMMA LayersInScope ==
  ASSUME NEW W, NEW r, NEW sc, Layers(W, r, sc), OriginOf[Start] \in sc, NEW n \in Nat
  PROVE  \A u \in W[n] : u \in Urls /\ u # None /\ OriginOf[u] \in sc
<1> DEFINE S == {k \in Nat : \A u \in W[k] : OriginOf[u] \in sc}
<1>1. 0 \in S
  BY DEF Layers
<1>2. ASSUME NEW k \in S PROVE k + 1 \in S
  <2>1. k \in Nat /\ W[k + 1] = Further(r, sc, W[k])
    BY <1>2 DEF Layers
  <2>2. QED
    BY <1>2, <2>1, FurtherHas
<1>3. S \in SUBSET Nat
  OBVIOUS
<1> HIDE DEF S
<1>4. S = Nat
  BY <1>1, <1>2, <1>3, Induction
<1>5. QED
  BY <1>4, BrowserAssumption DEF S, Layers

\* A page that is read for the first time changes nothing up to its own level.
LEMMA LayersRead ==
  ASSUME NEW W, NEW V, NEW r, NEW q, NEW sc, NEW x, Layers(W, r, sc), Layers(V, q, sc),
         \A u \in Urls : u # x => q[u] = r[u],
         Listed(r[x]) = {}, NEW m \in Nat, m > 0 => x \notin W[m - 1]
  PROVE  /\ \A n \in Nat : W[n] \subseteq V[n]
         /\ \A n \in 0..m : V[n] = W[n]
<1>1. \A n \in Nat : W[n] \subseteq V[n]
  <2> DEFINE S == {k \in Nat : W[k] \subseteq V[k]}
  <2>1. 0 \in S
    BY DEF Layers
  <2>2. ASSUME NEW k \in S PROVE k + 1 \in S
    <3>1. /\ k \in Nat /\ k + 1 \in Nat /\ W[k] \subseteq V[k] /\ W[k] \subseteq Urls
          /\ W[k + 1] = Further(r, sc, W[k]) /\ V[k + 1] = Further(q, sc, V[k])
      BY <2>2 DEF Layers
    <3>2. ASSUME NEW v \in W[k + 1], v \notin W[k] PROVE v \in V[k + 1]
      <4>1. PICK u \in W[k] : v \in Listed(r[u])
        BY <3>1, <3>2, FurtherHas
      <4>2. u # x /\ q[u] = r[u] /\ u \in V[k]
        BY <3>1, <4>1
      <4>3. v \in Urls /\ OriginOf[v] \in sc
        BY <3>1, <3>2, FurtherHas
      <4>4. QED
        BY <3>1, <4>1, <4>2, <4>3, FurtherHas
    <3>3. V[k] \subseteq V[k + 1]
      BY <3>1, FurtherHas
    <3>4. QED
      BY <3>1, <3>2, <3>3
  <2>3. S \in SUBSET Nat
    OBVIOUS
  <2> HIDE DEF S
  <2>4. S = Nat
    BY <2>1, <2>2, <2>3, Induction
  <2>5. QED
    BY <2>4 DEF S
<1>2. \A n \in 0..m : V[n] = W[n]
  <2> DEFINE S == {k \in Nat : k <= m => V[k] = W[k]}
  <2>1. 0 \in S
    BY DEF Layers
  <2>2. ASSUME NEW k \in S PROVE k + 1 \in S
    <3>1. CASE ~(k + 1 <= m)
      BY <2>2, <3>1
    <3>2. CASE k + 1 <= m
      <4>1. /\ k \in Nat /\ k + 1 \in Nat /\ V[k] = W[k] /\ W[k] \subseteq Urls
            /\ W[k + 1] = Further(r, sc, W[k]) /\ V[k + 1] = Further(q, sc, V[k])
        BY <2>2, <3>2 DEF Layers
      <4>2. x \notin W[k]
        <5>1. m - 1 \in Nat /\ k <= m - 1 /\ m > 0
          BY <3>2, <4>1
        <5>2. W[k] \subseteq W[m - 1]
          BY <4>1, <5>1, LayersGrow
        <5>3. QED
          BY <5>1, <5>2
      <4>3. \A u \in W[k] : q[u] = r[u]
        BY <4>1, <4>2
      <4>4. ASSUME NEW v PROVE v \in Further(q, sc, W[k]) <=> v \in Further(r, sc, W[k])
        BY <4>3, FurtherHas
      <4>5. Further(q, sc, W[k]) = Further(r, sc, W[k])
        BY <4>4
      <4>6. QED
        BY <4>1, <4>5
    <3>3. QED
      BY <3>1, <3>2
  <2>3. S \in SUBSET Nat
    OBVIOUS
  <2> HIDE DEF S
  <2>4. S = Nat
    BY <2>1, <2>2, <2>3, Induction
  <2>5. QED
    BY <2>4 DEF S
<1>3. QED
  BY <1>1, <1>2

\* What is closed is all there is.
LEMMA LayersClosed ==
  ASSUME NEW W, NEW r, NEW sc, Layers(W, r, sc), NEW m \in Nat,
         \A u \in W[m] : \A v \in Listed(r[u]) \cap Urls : OriginOf[v] \in sc => v \in W[m],
         NEW n \in Nat, m <= n
  PROVE  W[n] = W[m]
<1> DEFINE S == {k \in Nat : W[m + k] = W[m]}
<1>1. 0 \in S
  OBVIOUS
<1>2. ASSUME NEW k \in S PROVE k + 1 \in S
  <2>1. k \in Nat /\ m + k \in Nat /\ m + (k + 1) = m + k + 1 /\ W[m + k] = W[m]
    BY <1>2
  <2>2. W[m + k + 1] = Further(r, sc, W[m])
    BY <2>1 DEF Layers
  <2>3. Further(r, sc, W[m]) = W[m]
    <3>1. ASSUME NEW v PROVE v \in Further(r, sc, W[m]) <=> v \in W[m]
      BY FurtherHas
    <3>2. QED
      BY <3>1
  <2>4. QED
    BY <2>1, <2>2, <2>3
<1>3. S \in SUBSET Nat
  OBVIOUS
<1> HIDE DEF S
<1>4. S = Nat
  BY <1>1, <1>2, <1>3, Induction
<1>5. n - m \in Nat /\ m + (n - m) = n
  OBVIOUS
<1>6. W[m + (n - m)] = W[m]
  BY <1>4, <1>5 DEF S
<1>7. QED
  BY <1>5, <1>6

LEMMA LayersUnique ==
  ASSUME NEW W, NEW V, NEW r, NEW sc, Layers(W, r, sc), Layers(V, r, sc)
  PROVE  W = V
<1> DEFINE S == {k \in Nat : W[k] = V[k]}
<1>1. 0 \in S
  BY DEF Layers
<1>2. ASSUME NEW k \in S PROVE k + 1 \in S
  BY <1>2 DEF Layers
<1>3. S \in SUBSET Nat
  OBVIOUS
<1> HIDE DEF S
<1>4. S = Nat
  BY <1>1, <1>2, <1>3, Induction
<1>5. \A k \in Nat : W[k] = V[k]
  BY <1>4 DEF S
<1>6. QED
  BY <1>5 DEF Layers

LEMMA WithinSame ==
  ASSUME read' = read, scope' = scope
  PROVE  Within' = Within
<1>1. Layers(Within, read, scope) /\ Layers(Within', read, scope)
  BY WithinIs
<1>2. QED
  BY <1>1, LayersUnique
-----------------------------------------------------------------------------
(* The queue. *)

Items == [url : Urls \cup {None}, depth : Nat]

LEMMA TailFacts ==
  ASSUME NEW q \in Seq(Items), q # <<>>
  PROVE  /\ Tail(q) \in Seq(Items) /\ Len(Tail(q)) = Len(q) - 1 /\ Len(q) \in Nat \ {0}
         /\ \A i \in 1..(Len(q) - 1) : Tail(q)[i] = q[i + 1]
         /\ Head(q) = q[1] /\ Head(q) \in Items
OBVIOUS

LEMMA ExtendedFacts ==
  ASSUME WalkInv, NEW ls \in LinkLists
  PROVE  /\ Extended(ls) \in Seq(Items) /\ Len(Extended(ls)) = Len(queue) + Len(ls)
         /\ Len(queue) \in Nat /\ Len(ls) \in Nat
         /\ \A i \in 1..Len(queue) : Extended(ls)[i] = queue[i]
         /\ \A i \in 1..Len(ls) : Extended(ls)[Len(queue) + i] = Item(ls[i], depth + 1)
<1> DEFINE new == [i \in 1..Len(ls) |-> Item(ls[i], depth + 1)]
<1>1. ls \in Seq(Urls \cup {None}) /\ Len(ls) \in Nat
  BY BrowserAssumption
<1>2. depth + 1 \in Nat
  BY BrowserAssumption DEF WalkInv
<1>3. ASSUME NEW i \in 1..Len(ls) PROVE Item(ls[i], depth + 1) \in Items
  BY <1>1, <1>2 DEF Item, Items
<1>4. new \in Seq(Items) /\ Len(new) = Len(ls) /\ \A i \in 1..Len(ls) : new[i] = Item(ls[i], depth + 1)
  BY <1>1, <1>3
<1>5. queue \in Seq(Items)
  BY DEF WalkInv, Items
<1>6. Extended(ls) = queue \o new
  BY DEF Extended
<1> HIDE DEF new
<1>7. /\ queue \o new \in Seq(Items) /\ Len(queue \o new) = Len(queue) + Len(new)
      /\ \A i \in 1..Len(queue) : (queue \o new)[i] = queue[i]
      /\ \A i \in 1..Len(new) : (queue \o new)[Len(queue) + i] = new[i]
  BY <1>4, <1>5
<1>8. QED
  BY <1>1, <1>4, <1>5, <1>6, <1>7

\* What is taken from the queue.
LEMMA TakeFacts ==
  ASSUME WalkInv, Take
  PROVE  /\ queue \in Seq(Items) /\ queue' = Tail(queue) /\ queue' \in Seq(Items)
         /\ Len(queue) \in Nat \ {0} /\ Len(queue') = Len(queue) - 1
         /\ \A i \in 1..Len(queue') : queue'[i] = queue[i + 1]
         /\ Head(queue) = queue[1] /\ Head(queue) \in Items
<1>1. queue \in Seq(Items) /\ queue # <<>> /\ queue' = Tail(queue)
  BY DEF WalkInv, Take, Items
<1>2. QED
  BY <1>1, TailFacts
-----------------------------------------------------------------------------
LEMMA InitRender == Init => RenderInv
<1> SUFFICES ASSUME Init PROVE RenderInv
  OBVIOUS
<1> USE BrowserAssumption
<1>1. options \in Options /\ options.pages \in Nat \ {0} /\ options.depth \in Nat
  BY DEF Init
<1>2. queue = <<Item(Start, 0)>> /\ Len(queue) = 1 /\ queue[1] = Item(Start, 0)
  BY DEF Init
<1>3. Item(Start, 0) \in Items /\ Item(Start, 0).url = Start /\ Item(Start, 0).depth = 0
  BY DEF Item, Items
<1>4. WalkInv
  <2>1. queue \in Seq(Items)
    BY <1>2, <1>3
  <2>2. IsFiniteSet(seen) /\ Cardinality(seen) = 0
    BY FS_EmptySet DEF Init
  <2>3. read \in [Urls -> LinkLists]
    BY DEF Init
  <2>4. QED
    BY <1>1, <2>1, <2>2, <2>3 DEF WalkInv, Init, Items
<1>5. ReadInv
  BY DEF Init, ReadInv, Capturing
<1>6. LevelInv
  <2>1. depth = 0
    BY DEF Init
  <2>2. QED
    BY <1>1, <1>2, <1>3, <2>1 DEF LevelInv
<1>7. SearchInv
  <2>1. Within[0] = {Start}
    BY WithinIs DEF Layers
  <2>2. depth = 0 /\ seen = {} /\ outcome = "running"
    BY DEF Init
  <2>3. QueuedAt(Start, 0)
    BY <1>2 DEF QueuedAt
  <2>4. QED
    BY <1>1, <1>2, <1>3, <2>1, <2>2, <2>3 DEF SearchInv
<1>8. QED
  BY <1>4, <1>5, <1>6, <1>7 DEF RenderInv

LEMMA WalkStep ==
  ASSUME FlightInv, WalkInv, ReadInv, LevelInv, [Next]_vars
  PROVE  WalkInv'
<1> USE BrowserAssumption
<1>1. ASSUME UNCHANGED <<fixed, queue, depth, seen, pages>>, url' \in Urls, links' \in LinkLists,
             \A u \in kept' : OriginOf[u] \in scope, read' \in [Urls -> LinkLists]
      PROVE  WalkInv'
  BY <1>1 DEF WalkInv, fixed
<1>2. url \in Urls /\ links \in LinkLists /\ (\A u \in kept : OriginOf[u] \in scope)
      /\ read \in [Urls -> LinkLists]
  BY DEF WalkInv
<1>3. ASSUME UNCHANGED <<fixed, queue, depth, seen, pages, url, links, kept, read>> PROVE WalkInv'
  BY <1>1, <1>2, <1>3
<1>4. ASSUME UNCHANGED <<fixed, queue, depth, seen, pages, read>>, Forget PROVE WalkInv'
  BY <1>1, <1>2, <1>4 DEF Forget
<1>5. CASE Launch
  BY <1>1, <1>2, <1>5 DEF Launch, Open, page, locals, walk
<1>6. CASE LaunchFails \/ Finish
  BY <1>3, <1>6 DEF LaunchFails, Finish, page, locals, walk
<1>7. CASE Drop \/ \E late \in BOOLEAN : Exhaust(late)
  <2>1. Take /\ UNCHANGED <<fixed, depth, seen, pages, page, read>>
    BY <1>7 DEF Drop, Exhaust
  <2>2. queue' \in Seq(Items)
    BY <2>1, TakeFacts
  <2>3. QED
    BY <2>1, <2>2 DEF WalkInv, fixed, page, locals, Items
<1>8. CASE Visit
  <2>1. Take /\ Wanted(Head(queue).url) /\ ~Spent /\ UNCHANGED <<fixed, pages, links, kept, read>>
        /\ seen' = seen \cup {Head(queue).url} /\ depth' = Head(queue).depth /\ url' = Head(queue).url
    BY <1>8 DEF Visit, Open, locals
  <2>2. queue' \in Seq(Items) /\ Head(queue) \in Items /\ Head(queue) = queue[1] /\ 1 \in 1..Len(queue)
    BY <2>1, TakeFacts
  <2>3. Head(queue).url \in Urls
    BY <2>1, <2>2 DEF Wanted, Items
  <2>4. depth' \in 0..options.depth
    <3>1. depth' \in Nat /\ depth' <= options.depth
      BY <2>1, <2>2 DEF LevelInv, Items
    <3>2. options.depth \in Nat
      BY DEF WalkInv
    <3>3. QED
      BY <3>1, <3>2
  <2>5. IsFiniteSet(seen') /\ Cardinality(seen') <= options.pages
    <3>1. IsFiniteSet(seen) /\ Head(queue).url \notin seen /\ ~(Cardinality(seen) >= options.pages)
      BY <2>1 DEF WalkInv, Wanted, Spent
    <3>2. /\ IsFiniteSet(seen') /\ Cardinality(seen') = Cardinality(seen) + 1
          /\ Cardinality(seen) \in Nat
      BY <2>1, <3>1, FS_AddElement, FS_CardinalityType
    <3>3. options.pages \in Nat
      BY DEF WalkInv
    <3>4. QED
      BY <3>1, <3>2, <3>3
  <2>6. QED
    BY <2>1, <2>2, <2>3, <2>4, <2>5 DEF WalkInv, fixed, Items
<1>9. CASE GoTo \/ \E u \in Urls : Ask(u)
  BY <1>3, <1>9 DEF GoTo, Ask, walk, page, locals
<1>10. CASE Settle \/ Deny \/ NotFound \/ Captured \/ BrowserFails
  BY <1>3, <1>10 DEF Settle, Deny, NotFound, Captured, BrowserFails, Same, walk
<1>11. ASSUME NEW ls \in LinkLists, ReadPage(ls) PROVE WalkInv'
  <2>1. read' = [read EXCEPT ![url] = ls] /\ links' = ls
        /\ UNCHANGED <<fixed, queue, depth, seen, pages, url, kept>>
    BY <1>11 DEF ReadPage, Same, walk
  <2>2. read' \in [Urls -> LinkLists]
    BY <1>2, <2>1
  <2>3. QED
    BY <1>1, <1>2, <2>1, <2>2
<1>12. CASE Escape
  BY <1>4, <1>12 DEF Escape, walk
<1>13. CASE GiveUp
  BY <1>3, <1>4, <1>13 DEF GiveUp, walk
<1>14. CASE Present \/ Judge
  BY <1>3, <1>14 DEF Present, Judge, walk, page, locals
<1>15. CASE Collect
  <2>1. Forget /\ UNCHANGED <<fixed, depth, seen, read>> /\ Discovers /\ phase = "closing"
        /\ result # Raised
    BY <1>15 DEF Collect
  <2>2. CASE result.error
    BY <1>4, <1>15, <2>1, <2>2 DEF Collect
  <2>3. CASE ~result.error
    <3>1. result.links \in LinkLists
      BY <2>1 DEF ReadInv, Results
    <3>2. Extended(result.links) \in Seq(Items)
      BY <3>1, ExtendedFacts
    <3>3. queue' \in Seq(Items) /\ pages' \subseteq pages \cup kept
      BY <1>15, <2>3, <3>2 DEF Collect, WalkInv, Items
    <3>4. QED
      BY <2>1, <3>3 DEF WalkInv, fixed, Forget, Items
  <2>4. QED
    BY <2>2, <2>3
<1>16. CASE \E o \in Origins : Rebind(o)
  BY <1>3, <1>16 DEF Rebind, walk, page, locals
<1>17. ASSUME NEW r \in flying,
              Abort(r) \/ (\E fate \in {"ok", "other"} : Answer(r, fate)) \/ \E d \in Urls : Redirect(r, d)
       PROVE  WalkInv'
  <2>1. UNCHANGED <<fixed, walk, url, links, read>> /\ kept' \subseteq kept \cup {r.url}
    BY <1>17 DEF Abort, Answer, Redirect, Lands
  <2>2. OriginOf[r.url] \in scope
    BY <1>17 DEF FlightInv
  <2>3. QED
    BY <1>1, <1>2, <2>1, <2>2 DEF walk
<1>18. ASSUME NEW c, NEW a, Analyse(c, a) PROVE WalkInv'
  BY <1>3, <1>18 DEF Analyse, page, locals
<1>19. CASE UNCHANGED vars
  BY <1>3, <1>19 DEF vars, walk, page, locals
<1>20. ASSUME NEW x, Follow(x) \/ Arrive(x) PROVE WalkInv'
  BY <1>3, <1>20 DEF Follow, Arrive, Follows, walk, locals
<1>21. CASE Lookup
  BY <1>16, <1>17, <1>20, <1>21 DEF Lookup
<1>22. QED
  BY <1>5, <1>6, <1>7, <1>8, <1>9, <1>10, <1>11, <1>12, <1>13, <1>14, <1>15, <1>18, <1>19, <1>21
     DEF Next, Loop, Page

\* The steps that leave the queue and the depth alone.
LEMMA QueueKept ==
  ASSUME [Next]_vars
  PROVE  \/ UNCHANGED <<options, scope, queue, depth, seen>>
         \/ Drop \/ (\E late \in BOOLEAN : Exhaust(late)) \/ Visit \/ Collect
<1>1. CASE Launch \/ LaunchFails \/ Finish
  BY <1>1 DEF Launch, LaunchFails, Finish, walk, fixed
<1>2. CASE GoTo \/ \E u \in Urls : Ask(u)
  BY <1>2 DEF GoTo, Ask, walk, fixed
<1>3. CASE Settle \/ Deny \/ NotFound \/ Captured \/ BrowserFails \/ \E ls \in LinkLists : ReadPage(ls)
  BY <1>3 DEF Settle, Deny, NotFound, Captured, BrowserFails, ReadPage, Same, walk, fixed
<1>4. CASE Escape \/ GiveUp \/ Present \/ Judge
  BY <1>4 DEF Escape, GiveUp, Present, Judge, walk, fixed
<1>5. CASE Lookup
  BY <1>5 DEF Lookup, Rebind, Abort, Answer, Redirect, Follow, Arrive, Follows, Lands, walk, fixed
<1>6. ASSUME NEW c, NEW a, Analyse(c, a)
      PROVE  UNCHANGED <<options, scope, queue, depth, seen>>
  BY <1>6 DEF Analyse, fixed
<1>7. CASE UNCHANGED vars
  BY <1>7 DEF vars, walk, fixed
<1>8. QED
  BY <1>1, <1>2, <1>3, <1>4, <1>5, <1>6, <1>7 DEF Next, Loop, Page

LEMMA ReadStep ==
  ASSUME WalkInv, ReadInv, [Next]_vars
  PROVE  ReadInv'
<1> USE BrowserAssumption
<1>1. options' = options
  BY DEF Next, Loop, Page, Lookup, vars, fixed, Launch, LaunchFails, Drop, Visit, Finish, Exhaust,
         GoTo, Settle, Ask, Deny, NotFound, Captured, ReadPage, BrowserFails, Escape, GiveUp,
         Collect, Present, Rebind, Abort, Answer, Redirect, Follow, Arrive, Follows, Lands, Judge, Analyse, Same
<1>2. SUFFICES ASSUME Discovers PROVE ReadInv'
  BY <1>1 DEF ReadInv, Discovers
<1>3. ASSUME UNCHANGED <<phase, seen, read, url, links, result>> PROVE ReadInv'
  BY <1>1, <1>3 DEF ReadInv, Discovers
<1>4. ASSUME UNCHANGED <<seen, read>>, phase' \notin Capturing PROVE ReadInv'
  BY <1>1, <1>4 DEF ReadInv, Capturing, Discovers
<1>5. CASE Launch \/ LaunchFails \/ Finish
  BY <1>2, <1>4, <1>5 DEF Launch, LaunchFails, Finish, Ends, Capturing, walk
<1>6. CASE Drop \/ \E late \in BOOLEAN : Exhaust(late)
  BY <1>2, <1>4, <1>6 DEF Drop, Exhaust, Take, Ends, Capturing
<1>7. CASE Visit
  <2>1. Take /\ Wanted(Head(queue).url) /\ UNCHANGED <<read, links>> /\ url' = Head(queue).url
        /\ seen' = seen \cup {Head(queue).url} /\ phase' = "opened"
    BY <1>7 DEF Visit, Open, locals
  <2>2. Head(queue).url \in Urls \ seen
    BY <2>1, TakeFacts DEF Wanted, Items
  <2>3. read[Head(queue).url] = <<>> /\ \A u \in Urls \ seen' : read[u] = <<>>
    BY <1>2, <2>1, <2>2 DEF ReadInv
  <2>4. QED
    BY <2>1, <2>3 DEF ReadInv
<1>8. CASE GoTo \/ Settle
  <2>1. /\ phase \in {"opened", "loading"} /\ phase' \in {"loading", "settled"}
        /\ UNCHANGED <<seen, read, url>>
    BY <1>8 DEF GoTo, Settle, Same, walk
  <2>2. QED
    BY <1>2, <2>1 DEF ReadInv, Capturing
<1>9. CASE \E u \in Urls : Ask(u)
  BY <1>3, <1>9 DEF Ask, walk, page, locals
<1>10. ASSUME phase \in Capturing, phase' = "closing", UNCHANGED <<seen, read, url>>,
              result' # Raised => result' \in Results /\ (~result'.error => result'.links = read[url])
       PROVE  ReadInv'
  <2>1. url \in seen /\ \A u \in Urls \ seen : read[u] = <<>>
    BY <1>2, <1>10 DEF ReadInv
  <2>2. QED
    BY <1>10, <2>1 DEF ReadInv
<1>11. ASSUME NEW e \in BOOLEAN, NEW o \in BOOLEAN, NEW ls \in LinkLists
       PROVE  Capture(e, o, ls) \in Results /\ Capture(e, o, ls).error = e /\ Capture(e, o, ls).links = ls
  BY <1>11 DEF Capture, Results
<1>a. <<>> \in LinkLists
  OBVIOUS
<1>12. CASE Deny
  <2>1. /\ phase \in Capturing /\ phase' = "closing" /\ UNCHANGED <<seen, read, url>>
        /\ result' = Capture(TRUE, FALSE, <<>>)
    BY <1>12 DEF Deny, Returns, Capturing, Same, walk
  <2>2. QED
    BY <1>10, <1>11, <1>a, <2>1
<1>13. CASE NotFound
  <2>1. /\ phase \in Capturing /\ phase' = "closing" /\ UNCHANGED <<seen, read, url>>
        /\ result' = Capture(FALSE, FALSE, <<>>) /\ phase = "settled"
    BY <1>13 DEF NotFound, Returns, Capturing, Same, walk
  <2>2. read[url] = <<>>
    BY <1>2, <2>1 DEF ReadInv
  <2>3. QED
    BY <1>10, <1>11, <1>a, <2>1, <2>2
<1>14. CASE Captured
  <2>1. /\ phase \in Capturing /\ phase' = "closing" /\ UNCHANGED <<seen, read, url>>
        /\ result' = Capture(FALSE, TRUE, links) /\ phase = "read"
    BY <1>14 DEF Captured, Returns, Capturing, Same, walk
  <2>2. links = read[url] /\ links \in LinkLists
    BY <1>2, <2>1 DEF ReadInv, WalkInv
  <2>3. QED
    BY <1>10, <1>11, <2>1, <2>2
<1>15. CASE BrowserFails
  <2>1. /\ phase \in Capturing /\ phase' = "closing" /\ UNCHANGED <<seen, read, url>>
        /\ result' = Raised
    BY <1>2, <1>15 DEF BrowserFails, Returns, Capturing, Same, walk
  <2>2. QED
    BY <1>10, <2>1
<1>16. ASSUME NEW ls \in LinkLists, ReadPage(ls) PROVE ReadInv'
  <2>1. /\ phase = "settled" /\ phase' = "read" /\ links' = ls
        /\ read' = [read EXCEPT ![url] = ls] /\ UNCHANGED <<seen, url>>
    BY <1>16 DEF ReadPage, Same, walk
  <2>2. url \in seen /\ url \in Urls /\ read \in [Urls -> LinkLists]
    BY <1>2, <2>1 DEF ReadInv, WalkInv, Capturing
  <2>3. read'[url] = ls /\ \A u \in Urls \ seen : read'[u] = read[u]
    BY <2>1, <2>2
  <2>4. QED
    BY <1>2, <2>1, <2>2, <2>3 DEF ReadInv
<1>17. CASE Escape \/ GiveUp \/ Collect \/ Present
  BY <1>2, <1>4, <1>17 DEF Escape, GiveUp, Collect, Present, Ends, Capturing, walk
<1>18. CASE Lookup
  BY <1>3, <1>18 DEF Lookup, Rebind, Abort, Answer, Redirect, Follow, Arrive, Follows, Lands, walk, page, locals
<1>19. CASE Judge
  BY <1>4, <1>19 DEF Judge, Judged, Ends, Capturing
<1>20. ASSUME NEW c, NEW a, Analyse(c, a) PROVE ReadInv'
  BY <1>4, <1>20 DEF Analyse, Judged, Ends, Capturing
<1>21. CASE UNCHANGED vars
  BY <1>3, <1>21 DEF vars, walk, page, locals
<1>22. QED
  BY <1>5, <1>6, <1>7, <1>8, <1>9, <1>12, <1>13, <1>14, <1>15, <1>16, <1>17, <1>18, <1>19, <1>20,
     <1>21 DEF Next, Loop, Page

LEMMA LevelStep ==
  ASSUME WalkInv, ReadInv, LevelInv, [Next]_vars
  PROVE  LevelInv'
<1> USE BrowserAssumption
<1>1. /\ depth \in Nat /\ options.depth \in Nat /\ queue \in Seq(Items) /\ Len(queue) \in Nat
      /\ \A i \in 1..Len(queue) : queue[i].depth \in Nat
  <2>1. queue \in Seq(Items) /\ options.depth \in Nat /\ depth \in 0..options.depth
    BY DEF WalkInv, Items
  <2>2. \A q \in Items : q.depth \in Nat
    BY DEF Items
  <2>3. Len(queue) \in Nat /\ \A i \in 1..Len(queue) : queue[i] \in Items
    BY <2>1
  <2>4. QED
    BY <2>1, <2>2, <2>3
<1>2. CASE UNCHANGED <<options, queue, depth>>
  BY <1>2 DEF LevelInv
<1>3. CASE Drop \/ \E late \in BOOLEAN : Exhaust(late)
  <2>1. Take /\ options' = options /\ depth' = depth
    BY <1>3 DEF Drop, Exhaust, fixed
  <2>2. /\ Len(queue) \in Nat \ {0} /\ Len(queue') = Len(queue) - 1
        /\ \A i \in 1..Len(queue') : queue'[i] = queue[i + 1]
    BY <2>1, TakeFacts
  <2>3. ASSUME NEW i \in 1..Len(queue')
        PROVE  queue'[i].depth \in depth..(depth + 1) /\ queue'[i].depth <= options.depth
    <3>1. i + 1 \in 1..Len(queue)
      BY <2>2
    <3>2. QED
      BY <2>2, <3>1 DEF LevelInv
  <2>4. ASSUME NEW i \in 1..Len(queue'), NEW j \in 1..Len(queue'), i <= j
        PROVE  queue'[i].depth <= queue'[j].depth
    <3>1. i + 1 \in 1..Len(queue) /\ j + 1 \in 1..Len(queue) /\ i + 1 <= j + 1
      BY <2>2, <2>4
    <3>2. QED
      BY <2>2, <3>1 DEF LevelInv
  <2>5. QED
    BY <2>1, <2>3, <2>4 DEF LevelInv
<1>4. CASE Visit
  <2>1. Take /\ options' = options /\ depth' = queue[1].depth
    <3>1. Take /\ options' = options /\ depth' = Head(queue).depth
      BY <1>4 DEF Visit, fixed
    <3>2. QED
      BY <3>1, TakeFacts
  <2>2. /\ Len(queue) \in Nat \ {0} /\ Len(queue') = Len(queue) - 1
        /\ \A i \in 1..Len(queue') : queue'[i] = queue[i + 1]
    BY <2>1, TakeFacts
  <2>3. ASSUME NEW i \in 1..Len(queue')
        PROVE  queue'[i].depth \in depth'..(depth' + 1) /\ queue'[i].depth <= options.depth
    <3>1. i + 1 \in 1..Len(queue) /\ 1 \in 1..Len(queue) /\ 1 <= i + 1
      BY <2>2
    <3>2. /\ queue[1].depth <= queue[i + 1].depth /\ depth <= queue[1].depth
          /\ queue[i + 1].depth <= depth + 1 /\ queue[i + 1].depth <= options.depth
      BY <1>1, <3>1 DEF LevelInv
    <3>3. QED
      BY <1>1, <2>1, <2>2, <3>1, <3>2
  <2>4. ASSUME NEW i \in 1..Len(queue'), NEW j \in 1..Len(queue'), i <= j
        PROVE  queue'[i].depth <= queue'[j].depth
    <3>1. i + 1 \in 1..Len(queue) /\ j + 1 \in 1..Len(queue) /\ i + 1 <= j + 1
      BY <2>2, <2>4
    <3>2. QED
      BY <2>2, <3>1 DEF LevelInv
  <2>5. QED
    BY <2>1, <2>3, <2>4 DEF LevelInv
<1>5. CASE Collect
  <2>1. UNCHANGED <<options, depth>> /\ Discovers /\ phase = "closing" /\ result # Raised
    BY <1>5 DEF Collect, fixed
  <2>2. CASE queue' = queue
    BY <2>1, <2>2 DEF LevelInv
  <2>3. CASE queue' # queue
    <3>1. ~result.error /\ depth < options.depth /\ queue' = Extended(result.links)
      BY <1>5, <2>3 DEF Collect
    <3>2. result.links \in LinkLists
      BY <2>1 DEF ReadInv, Results
    <3> DEFINE k == Len(queue)
               l == Len(result.links)
    <3>3. /\ Len(queue') = k + l /\ k \in Nat /\ l \in Nat
          /\ \A i \in 1..k : queue'[i] = queue[i]
          /\ \A i \in 1..l : queue'[k + i].depth = depth + 1
      <4>1. \A u : Item(u, depth + 1).depth = depth + 1
        BY DEF Item
      <4>2. QED
        BY <3>1, <3>2, <4>1, ExtendedFacts
    <3>4. \A i \in 1..k : queue[i].depth \in depth..(depth + 1) /\ queue[i].depth <= options.depth
      BY DEF LevelInv
    <3>5. \A i, j \in 1..k : i <= j => queue[i].depth <= queue[j].depth
      BY DEF LevelInv
    <3> HIDE DEF k, l
    <3>6. ASSUME NEW i \in 1..(k + l), i \notin 1..k PROVE queue'[i].depth = depth + 1
      <4>1. i - k \in 1..l /\ k + (i - k) = i
        BY <3>3, <3>6
      <4>2. QED
        BY <3>3, <4>1
    <3>7. ASSUME NEW i \in 1..(k + l)
          PROVE  queue'[i].depth \in depth..(depth + 1) /\ queue'[i].depth <= options.depth
      <4>1. CASE i \in 1..k
        BY <3>3, <3>4, <4>1
      <4>2. CASE i \notin 1..k
        BY <1>1, <3>1, <3>6, <4>2
      <4>3. QED
        BY <4>1, <4>2
    <3>8. ASSUME NEW i \in 1..(k + l), NEW j \in 1..(k + l), i <= j
          PROVE  queue'[i].depth <= queue'[j].depth
      <4>1. CASE j \in 1..k
        <5>1. i \in 1..k
          BY <3>3, <3>8, <4>1
        <5>2. QED
          BY <3>3, <3>5, <3>8, <4>1, <5>1
      <4>2. CASE j \notin 1..k
        BY <1>1, <3>6, <3>7, <4>2
      <4>3. QED
        BY <4>1, <4>2
    <3>9. QED
      BY <2>1, <3>3, <3>7, <3>8 DEF LevelInv
  <2>4. QED
    BY <2>2, <2>3
<1>6. QED
  BY <1>2, <1>3, <1>4, <1>5, QueueKept
-----------------------------------------------------------------------------
(* The search. *)

LEMMA SearchFrame ==
  ASSUME SearchInv, UNCHANGED <<options, scope, queue, depth, seen, read>>,
         Quiet' => Quiet, Current' = Current,
         Quiet' /\ outcome' = "returned" => queue = <<>> /\ phase' = "over"
  PROVE  SearchInv'
<1>1. Within' = Within
  BY WithinSame
<1>2. \A u : LinksOf(u)' = LinksOf(u)
  BY DEF LinksOf
<1>3. \A u, d : Queued(u)' = Queued(u) /\ QueuedAt(u, d)' = QueuedAt(u, d)
  BY DEF Queued, QueuedAt
<1>4. SUFFICES ASSUME Quiet' PROVE SearchInv'
  BY DEF SearchInv
<1> HIDE DEF Within, Current, Quiet
<1>5. QED
  BY <1>1, <1>2, <1>3, <1>4 DEF SearchInv

LEMMA DropSearch ==
  ASSUME WalkInv, SearchInv, Drop
  PROVE  SearchInv'
<1> DEFINE In(u) == \E i \in 1..Len(queue') : queue'[i].url = u
           At(u, e) == \E i \in 1..Len(queue') : queue'[i] = Item(u, e)
<1>1. /\ Take /\ ~Wanted(Head(queue).url)
      /\ UNCHANGED <<options, scope, outcome, phase, depth, seen, errors, url, read>>
  BY DEF Drop, fixed, page
<1>2. /\ Len(queue) \in Nat \ {0} /\ Len(queue') = Len(queue) - 1
      /\ \A i \in 1..Len(queue') : queue'[i] = queue[i + 1]
      /\ Head(queue) = queue[1] /\ phase = "loop" /\ queue # <<>>
  BY <1>1, TakeFacts DEF Take
<1>3. Within' = Within
  BY <1>1, WithinSame
<1>4. ASSUME NEW i \in 1..Len(queue), i # 1 PROVE i - 1 \in 1..Len(queue') /\ queue'[i - 1] = queue[i]
  BY <1>2, <1>4
<1>5. ASSUME NEW u \in Urls, OriginOf[u] \in scope, u \notin seen PROVE queue[1].url # u
  BY <1>1, <1>2, <1>5, BrowserAssumption DEF Wanted
<1>6. ASSUME NEW u \in Urls, OriginOf[u] \in scope, u \notin seen, Queued(u) PROVE In(u)
  BY <1>4, <1>5, <1>6 DEF Queued
<1>7. ASSUME NEW u \in Urls, NEW d \in Nat, OriginOf[u] \in scope, u \notin seen, QueuedAt(u, d)
      PROVE  At(u, d)
  <2>1. Item(u, d).url = u
    BY DEF Item
  <2>2. QED
    BY <1>4, <1>5, <1>7, <2>1 DEF QueuedAt
<1>8. SUFFICES ASSUME Quiet' PROVE SearchInv'
  BY DEF SearchInv
<1>9. Quiet /\ outcome # "returned"
  BY <1>1, <1>2, <1>8 DEF Quiet, Discovers, SearchInv
<1>10. Current' = Current
  BY <1>1 DEF Current
<1>11. \A u : LinksOf(u)' = LinksOf(u)
  BY <1>1 DEF LinksOf
<1>12. depth \in Nat /\ OriginOf[Start] \in scope
  BY BrowserAssumption DEF WalkInv
<1>13. \A u \in Within[depth] : u \in Urls /\ OriginOf[u] \in scope
  BY <1>12, WithinIs, LayersInScope
<1>14. \A u \in Within[depth] : u \in seen \/ At(u, depth)
  <2>1. \A u \in Within[depth] : u \in seen \/ QueuedAt(u, depth)
    BY <1>9 DEF SearchInv
  <2> HIDE DEF Within, At
  <2>2. ASSUME NEW u \in Within[depth], u \notin seen PROVE At(u, depth)
    <3>1. u \in Urls /\ OriginOf[u] \in scope /\ QueuedAt(u, depth)
      BY <1>13, <2>1, <2>2
    <3>2. QED
      BY <1>7, <1>12, <2>2, <3>1
  <2>3. QED
    BY <2>2
<1>15. depth < options.depth =>
         \A u \in seen \ Current : \A v \in LinksOf(u) : v \in seen \/ In(v)
  BY <1>6, <1>9 DEF SearchInv, LinksOf
<1>16. \A i \in 1..Len(queue') : queue'[i].url # None /\ OriginOf[queue'[i].url] \in scope
         => queue'[i].url \in Within[queue'[i].depth]
  <2>1. ASSUME NEW i \in 1..Len(queue') PROVE i + 1 \in 1..Len(queue)
    BY <1>2
  <2>2. QED
    BY <1>2, <1>9, <2>1 DEF SearchInv
<1>17. /\ seen \subseteq Within[depth]
       /\ depth > 0 => Within[depth - 1] \subseteq seen \ Current
  BY <1>9 DEF SearchInv
<1> HIDE DEF Within, Current, Quiet
<1>18. QED
  BY <1>1, <1>3, <1>9, <1>10, <1>11, <1>14, <1>15, <1>16, <1>17 DEF SearchInv, Queued, QueuedAt

LEMMA ReadSearch ==
  ASSUME WalkInv, ReadInv, LevelInv, SearchInv, NEW ls \in LinkLists, ReadPage(ls)
  PROVE  SearchInv'
<1>1. /\ phase = "settled" /\ phase' = "read" /\ read' = [read EXCEPT ![url] = ls]
      /\ UNCHANGED <<options, scope, outcome, depth, seen, errors, url, queue>>
  BY DEF ReadPage, Same, fixed, walk
<1>2. SUFFICES ASSUME Quiet' PROVE SearchInv'
  BY DEF SearchInv
<1>3. Quiet /\ Discovers /\ outcome # "returned"
  BY <1>1, <1>2 DEF Quiet, Discovers, SearchInv
<1>4. Current = {url} /\ Current' = {url}
  BY <1>1 DEF Current, Capturing
<1>5. url \in Urls /\ read \in [Urls -> LinkLists] /\ depth \in Nat /\ options.depth \in Nat
  BY BrowserAssumption DEF WalkInv
<1>6. \A u \in Urls : u # url => read'[u] = read[u]
  BY <1>1, <1>5
<1>7. Listed(read[url]) = {}
  BY <1>1, <1>3 DEF ReadInv, Listed
<1>8. depth > 0 => url \notin Within[depth - 1]
  BY <1>3, <1>4 DEF SearchInv
<1>9. Layers(Within, read, scope) /\ Layers(Within', read', scope)
  BY <1>1, WithinIs
<1> HIDE DEF Within
<1>10. (\A n \in Nat : Within[n] \subseteq Within'[n]) /\ (\A n \in 0..depth : Within'[n] = Within[n])
  BY <1>5, <1>6, <1>7, <1>8, <1>9, LayersRead
<1>11. Within'[depth] = Within[depth] /\ (depth > 0 => Within'[depth - 1] = Within[depth - 1])
  BY <1>5, <1>10
<1>12. \A u \in Urls : u # url => LinksOf(u)' = LinksOf(u)
  BY <1>1, <1>6 DEF LinksOf
<1>13. \A u, d : Queued(u)' = Queued(u) /\ QueuedAt(u, d)' = QueuedAt(u, d)
  BY <1>1 DEF Queued, QueuedAt
<1>14. ASSUME NEW i \in 1..Len(queue), queue[i].url # None, OriginOf[queue[i].url] \in scope
       PROVE  queue[i].url \in Within'[queue[i].depth]
  <2>1. queue[i].depth \in Nat
    BY <1>5 DEF LevelInv
  <2>2. queue[i].url \in Within[queue[i].depth]
    BY <1>3, <1>14 DEF SearchInv
  <2>3. QED
    BY <1>10, <2>1, <2>2
<1>15. seen \subseteq Urls
  BY DEF WalkInv
<1>16. depth < options.depth =>
         \A u \in seen \ {url} : \A v \in LinksOf(u)' : v \in seen \/ Queued(v)
  BY <1>3, <1>4, <1>12, <1>15 DEF SearchInv
<1>17. /\ seen \subseteq Within'[depth]
       /\ \A u \in Within'[depth] : u \in seen \/ QueuedAt(u, depth)
       /\ depth > 0 => Within'[depth - 1] \subseteq seen \ {url}
  BY <1>3, <1>4, <1>11 DEF SearchInv
<1> HIDE DEF Current, Quiet
<1>18. QED
  BY <1>1, <1>3, <1>4, <1>13, <1>14, <1>16, <1>17 DEF SearchInv

LEMMA CollectSearch ==
  ASSUME WalkInv, ReadInv, SearchInv, VerdictInv, Collect
  PROVE  SearchInv'
<1> DEFINE In(u) == \E i \in 1..Len(queue') : queue'[i].url = u
           At(u, e) == \E i \in 1..Len(queue') : queue'[i] = Item(u, e)
<1>1. /\ phase = "closing" /\ result # Raised /\ Discovers /\ phase' = "loop"
      /\ UNCHANGED <<options, scope, outcome, depth, seen, read>>
  BY DEF Collect, fixed
<1>2. SUFFICES ASSUME Quiet' PROVE SearchInv'
  BY DEF SearchInv
<1>3. ~result.error /\ errors' = errors
        /\ queue' = IF depth < options.depth THEN Extended(result.links) ELSE queue
  BY <1>2 DEF Collect, Quiet
<1>4. Quiet /\ outcome = "running"
  BY <1>1, <1>2, <1>3 DEF Quiet, Discovers, VerdictInv
<1>5. Current = {url} /\ Current' = {}
  BY <1>1 DEF Current, Capturing
<1>6. url \in seen /\ result.links = read[url] /\ result.links \in LinkLists /\ url \in Urls
  BY <1>1, <1>3 DEF ReadInv, WalkInv, Capturing, Results
<1>7. Within' = Within /\ Layers(Within, read, scope)
  BY <1>1, WithinSame, WithinIs
<1>8. \A u : LinksOf(u)' = LinksOf(u)
  BY <1>1 DEF LinksOf
<1>9. depth \in Nat /\ options.depth \in Nat
  BY BrowserAssumption DEF WalkInv
<1> HIDE DEF Within
<1>10. CASE ~(depth < options.depth)
  <2>1. queue' = queue
    BY <1>3, <1>10
  <2>2. \A u, d : Queued(u)' = Queued(u) /\ QueuedAt(u, d)' = QueuedAt(u, d)
    BY <2>1 DEF Queued, QueuedAt
  <2> HIDE DEF Quiet, Current
  <2>3. QED
    BY <1>1, <1>4, <1>5, <1>7, <1>10, <2>1, <2>2 DEF SearchInv
<1>11. CASE depth < options.depth
  <2> DEFINE k == Len(queue)
             l == Len(result.links)
  <2>1. /\ Len(queue') = k + l /\ k \in Nat /\ l \in Nat
        /\ \A i \in 1..k : queue'[i] = queue[i]
        /\ \A i \in 1..l : queue'[k + i] = Item(result.links[i], depth + 1)
    BY <1>3, <1>6, <1>11, ExtendedFacts
  <2>2. \A u, d : (Queued(u) => In(u)) /\ (QueuedAt(u, d) => At(u, d))
    BY <2>1 DEF Queued, QueuedAt
  <2>3. ASSUME NEW v \in LinksOf(url) PROVE In(v)
    <3>1. PICK i \in 1..l : result.links[i] = v
      BY <1>6, <2>3 DEF LinksOf, Listed
    <3>2. k + i \in 1..(k + l)
      BY <2>1
    <3>3. Item(v, depth + 1).url = v
      BY DEF Item
    <3>4. queue'[k + i].url = v
      BY <2>1, <3>1, <3>3
    <3>5. QED
      BY <2>1, <3>2, <3>4 DEF Queued
  <2>4. \A u \in seen : \A v \in LinksOf(u) : v \in seen \/ In(v)
    BY <1>4, <1>5, <1>11, <2>2, <2>3 DEF SearchInv
  <2>5. ASSUME NEW i \in 1..(k + l), queue'[i].url # None, OriginOf[queue'[i].url] \in scope
        PROVE  queue'[i].url \in Within[queue'[i].depth]
    <3>1. CASE i \in 1..k
      BY <1>4, <2>1, <2>5, <3>1 DEF SearchInv
    <3>2. CASE i \notin 1..k
      <4>1. i - k \in 1..l /\ k + (i - k) = i
        BY <2>1, <3>2
      <4>2. queue'[i] = Item(result.links[i - k], depth + 1)
        BY <2>1, <4>1
      <4> DEFINE v == result.links[i - k]
      <4>3. queue'[i].url = v /\ queue'[i].depth = depth + 1
        BY <4>2 DEF Item
      <4>4. v \in Urls \cup {None} /\ v \in Listed(read[url])
        <5>1. result.links \in Seq(Urls \cup {None})
          BY <1>6, BrowserAssumption
        <5>2. QED
          BY <1>6, <4>1, <5>1 DEF Listed
      <4> HIDE DEF v
      <4>5. v \in Urls /\ OriginOf[v] \in scope
        BY <2>5, <4>3, <4>4
      <4>6. url \in Within[depth]
        BY <1>4, <1>6 DEF SearchInv
      <4>7. Within[depth + 1] = Further(read, scope, Within[depth])
        BY <1>7, <1>9 DEF Layers
      <4>8. v \in Within[depth + 1]
        BY <4>4, <4>5, <4>6, <4>7, FurtherHas
      <4>9. QED
        BY <4>3, <4>8
    <3>3. QED
      BY <3>1, <3>2
  <2>6. /\ seen \subseteq Within[depth]
        /\ \A u \in Within[depth] : u \in seen \/ At(u, depth)
        /\ depth > 0 => Within[depth - 1] \subseteq seen
    <3>1. /\ seen \subseteq Within[depth]
          /\ \A u \in Within[depth] : u \in seen \/ QueuedAt(u, depth)
          /\ depth > 0 => Within[depth - 1] \subseteq seen
      BY <1>4 DEF SearchInv
    <3> HIDE DEF k, l, Within, At
    <3>2. \A u \in Within[depth] : u \in seen \/ At(u, depth)
      BY <2>2, <3>1
    <3>3. QED
      BY <3>1, <3>2
  <2>7. Len(queue') = k + l
    BY <2>1
  <2> HIDE DEF Quiet, Current, k, l
  <2>8. QED
    BY <1>1, <1>4, <1>5, <1>7, <1>8, <2>4, <2>5, <2>6, <2>7 DEF SearchInv, Queued, QueuedAt
<1>12. QED
  BY <1>10, <1>11

\* A visit of a page of the next level begins that level.
LEMMA VisitSearch ==
  ASSUME WalkInv, LevelInv, SearchInv, Visit
  PROVE  SearchInv'
<1> DEFINE In(u) == \E i \in 1..Len(queue') : queue'[i].url = u
           At(u, e) == \E i \in 1..Len(queue') : queue'[i] = Item(u, e)
<1> DEFINE x == Head(queue).url
           d == Head(queue).depth
<1>1. /\ Take /\ Wanted(x) /\ seen' = seen \cup {x} /\ depth' = d /\ url' = x
      /\ UNCHANGED <<options, scope, outcome, errors, read>>
      /\ phase = "loop" /\ phase' = "opened" /\ queue # <<>>
  BY DEF Visit, Open, Take, fixed
<1>2. /\ Len(queue) \in Nat \ {0} /\ Len(queue') = Len(queue) - 1
      /\ \A i \in 1..Len(queue') : queue'[i] = queue[i + 1]
      /\ Head(queue) = queue[1] /\ Head(queue) \in Items
  BY <1>1, TakeFacts
<1>3. x \in Urls /\ OriginOf[x] \in scope /\ x \notin seen /\ x # None /\ d \in Nat
  BY <1>1, <1>2, BrowserAssumption DEF Wanted, Items
<1>4. SUFFICES ASSUME Quiet' PROVE SearchInv'
  BY DEF SearchInv
<1>5. Quiet /\ outcome # "returned"
  BY <1>1, <1>4 DEF Quiet, Discovers, SearchInv
<1>6. Current = {} /\ Current' = {x}
  BY <1>1 DEF Current, Capturing
<1>7. Within' = Within /\ Layers(Within, read, scope)
  BY <1>1, WithinSame, WithinIs
<1>8. \A u : LinksOf(u)' = LinksOf(u)
  BY <1>1 DEF LinksOf
<1>9. depth \in Nat /\ options.depth \in Nat /\ OriginOf[Start] \in scope
  BY BrowserAssumption DEF WalkInv
<1>10. queue[1].url = x /\ queue[1].depth = d /\ 1 \in 1..Len(queue)
  BY <1>2
<1>11. d \in depth..(depth + 1) /\ d <= options.depth /\ x \in Within[d]
  BY <1>3, <1>5, <1>10 DEF LevelInv, SearchInv
<1>12. ASSUME NEW i \in 1..Len(queue), queue[i].url # x
       PROVE  i - 1 \in 1..Len(queue') /\ queue'[i - 1] = queue[i]
  BY <1>2, <1>10, <1>12
<1>13. \A u : u # x /\ Queued(u) => In(u)
  BY <1>12 DEF Queued
<1>14. ASSUME NEW u, NEW e, u # x, QueuedAt(u, e) PROVE At(u, e)
  <2>1. Item(u, e).url = u
    BY DEF Item
  <2>2. QED
    BY <1>12, <1>14, <2>1 DEF QueuedAt
<1>15. \A i \in 1..Len(queue') : queue'[i].url # None /\ OriginOf[queue'[i].url] \in scope
         => queue'[i].url \in Within[queue'[i].depth]
  <2>1. ASSUME NEW i \in 1..Len(queue') PROVE i + 1 \in 1..Len(queue)
    BY <1>2
  <2>2. QED
    BY <1>2, <1>5, <2>1 DEF SearchInv
<1>16. /\ seen \subseteq Within[depth]
       /\ \A u \in Within[depth] : u \in seen \/ QueuedAt(u, depth)
       /\ depth > 0 => Within[depth - 1] \subseteq seen
       /\ depth < options.depth => \A u \in seen : \A v \in LinksOf(u) : v \in seen \/ Queued(v)
  BY <1>5, <1>6 DEF SearchInv
<1>17. d < options.depth =>
         \A u \in seen' \ {x} : \A v \in LinksOf(u) : v \in seen' \/ In(v)
  BY <1>1, <1>9, <1>11, <1>13, <1>16
<1> HIDE DEF Within
<1>18. /\ seen' \subseteq Within[d]
       /\ \A u \in Within[d] : u \in seen' \/ At(u, d)
       /\ d > 0 => Within[d - 1] \subseteq seen' \ {x}
  <2>1. CASE d = depth
    <3>1. ASSUME NEW u \in Within[d], u \notin seen' PROVE At(u, d)
      <4>1. u # x /\ QueuedAt(u, d)
        BY <1>1, <1>16, <2>1, <3>1
      <4>2. QED
        BY <1>14, <4>1
    <3>2. d > 0 => Within[d - 1] \subseteq seen' \ {x}
      BY <1>1, <1>3, <1>16, <2>1
    <3>3. seen' \subseteq Within[d]
      BY <1>1, <1>11, <1>16, <2>1
    <3> HIDE DEF At, d, x
    <3>4. QED
      BY <3>1, <3>2, <3>3
  <2>2. CASE d = depth + 1
    <3>1. ASSUME NEW i \in 1..Len(queue) PROVE queue[i].depth = d
      <4>1. queue[1].depth <= queue[i].depth /\ queue[i].depth \in depth..(depth + 1)
        BY <1>2, <3>1 DEF LevelInv
      <4>2. QED
        BY <1>9, <1>10, <2>2, <4>1
    <3>2. \A u : ~QueuedAt(u, depth)
      <4>1. \A u : Item(u, depth).depth = depth
        BY DEF Item
      <4>2. QED
        BY <1>9, <2>2, <3>1, <4>1 DEF QueuedAt
    <3>3. Within[depth] \subseteq seen
      BY <1>16, <3>2
    <3>4. Within[d] = Further(read, scope, Within[depth]) /\ Within[depth] \subseteq Within[d]
      <4>1. Within[d] = Further(read, scope, Within[depth])
        BY <1>7, <1>9, <2>2 DEF Layers
      <4>2. QED
        BY <4>1, FurtherHas
    <3>5. ASSUME NEW u, Queued(u) PROVE QueuedAt(u, d)
      <4>1. PICK i \in 1..Len(queue) : queue[i].url = u
        BY <3>5 DEF Queued
      <4>2. queue \in Seq(Items) /\ queue[i].depth = d
        BY <3>1, <4>1 DEF WalkInv, Items
      <4> HIDE DEF d
      <4>a. queue[i] \in Items
        BY <4>1, <4>2
      <4>b. \A q \in Items : q = Item(q.url, q.depth)
        BY DEF Item, Items
      <4>3. queue[i] = Item(u, d)
        BY <4>1, <4>2, <4>a, <4>b
      <4>4. QED
        BY <4>3 DEF QueuedAt
    <3>6. ASSUME NEW w \in Within[d], w \notin seen PROVE QueuedAt(w, d)
      <4>1. w \notin Within[depth]
        BY <3>3, <3>6
      <4>2. PICK u \in Within[depth] : w \in Listed(read[u])
        BY <3>4, <3>6, <4>1, FurtherHas
      <4>3. w \in Urls /\ OriginOf[w] \in scope
        BY <3>4, <3>6, <4>1, FurtherHas
      <4>4. w \in LinksOf(u) /\ u \in seen
        BY <3>3, <4>2, <4>3 DEF LinksOf
      <4>5. depth < options.depth
        BY <1>9, <1>11, <2>2
      <4>6. Queued(w)
        BY <1>16, <3>6, <4>4, <4>5
      <4>7. QED
        BY <3>5, <4>6
    <3>7. \A u \in Within[d] : u \in seen' \/ At(u, d)
      <4>1. ASSUME NEW u \in Within[d], u \notin seen' PROVE At(u, d)
        <5>1. u # x /\ u \notin seen
          BY <1>1, <4>1
        <5>2. QED
          BY <1>14, <3>6, <4>1, <5>1
      <4> HIDE DEF At
      <4>2. QED
        BY <4>1
    <3>8. d - 1 = depth
      BY <1>9, <2>2
    <3>9. QED
      BY <1>1, <1>3, <1>11, <1>16, <3>3, <3>4, <3>7, <3>8
  <2>3. QED
    BY <1>9, <1>11, <2>1, <2>2
<1> HIDE DEF Current, Quiet
<1>19. depth' = d /\ options'.depth = options.depth /\ outcome' # "returned"
  BY <1>1, <1>5
<1> HIDE DEF d, x
<1>20. QED
  BY <1>1, <1>6, <1>7, <1>8, <1>15, <1>17, <1>18, <1>19 DEF SearchInv, Queued, QueuedAt

LEMMA SearchStep ==
  ASSUME WalkInv, ReadInv, LevelInv, SearchInv, VerdictInv, [Next]_vars
  PROVE  SearchInv'
<1>1. SUFFICES ASSUME Quiet' PROVE SearchInv'
  BY DEF SearchInv
<1>2. ASSUME UNCHANGED <<options, scope, queue, depth, seen, read, errors, phase, outcome, url>>
      PROVE  SearchInv'
  <2>1. Quiet /\ Current' = Current
    BY <1>1, <1>2 DEF Quiet, Discovers, Current
  <2>2. outcome' = "returned" => queue = <<>> /\ phase' = "over"
    BY <1>2, <2>1 DEF SearchInv
  <2> HIDE DEF Quiet, Current
  <2>3. QED
    BY <1>2, <2>1, <2>2, SearchFrame
<1>3. ASSUME UNCHANGED <<options, scope, queue, depth, seen, read, errors, outcome>>,
             phase # "over", Current' = Current
      PROVE  SearchInv'
  <2>1. Quiet /\ outcome' # "returned"
    BY <1>1, <1>3 DEF Quiet, Discovers, VerdictInv
  <2> HIDE DEF Quiet, Current
  <2>2. QED
    BY <1>3, <2>1, SearchFrame
<1>4. CASE Launch
  <2>1. Discovers
    BY <1>1, <1>4 DEF Quiet, Discovers, Launch, fixed
  <2>2. QED
    BY <1>3, <1>4, <2>1 DEF Launch, Current, Capturing, fixed, walk
<1>5. CASE LaunchFails \/ Escape
  BY <1>1, <1>5 DEF LaunchFails, Escape, Ends, Quiet
<1>6. CASE Drop
  BY <1>6, DropSearch
<1>7. CASE Visit
  BY <1>7, VisitSearch
<1>8. CASE Finish
  <2>1. /\ phase = "loop" /\ queue = <<>> /\ phase' = "over"
        /\ UNCHANGED <<options, scope, queue, depth, seen, read, errors>>
    BY <1>8 DEF Finish, Ends, fixed, walk
  <2>2. Quiet /\ Current' = Current
    BY <1>1, <2>1 DEF Quiet, Discovers, Current, Capturing, VerdictInv
  <2> HIDE DEF Quiet, Current
  <2>3. QED
    BY <2>1, <2>2, SearchFrame
<1>9. CASE \E late \in BOOLEAN : Exhaust(late)
  BY <1>1, <1>9 DEF Exhaust, Quiet
<1>10. CASE GoTo \/ \E u \in Urls : Ask(u)
  BY <1>3, <1>10 DEF GoTo, Ask, Current, Capturing, fixed, walk, page
<1>11. CASE Settle \/ Deny \/ NotFound \/ Captured \/ BrowserFails
  BY <1>3, <1>11 DEF Settle, Deny, NotFound, Captured, BrowserFails, Returns, Same, Current,
                     Capturing, fixed, walk
<1>12. CASE \E ls \in LinkLists : ReadPage(ls)
  BY <1>12, ReadSearch
<1>13. CASE GiveUp
  BY <1>1, <1>13 DEF GiveUp, Ends, Quiet, Discovers, fixed
<1>14. CASE Collect
  BY <1>14, CollectSearch
<1>15. CASE Present \/ Judge
  BY <1>1, <1>15 DEF Present, Judge, VerdictInv, Quiet, Discovers, fixed
<1>16. ASSUME NEW c, NEW a, Analyse(c, a) PROVE SearchInv'
  BY <1>1, <1>16 DEF Analyse, VerdictInv, Quiet, Discovers, fixed
<1>17. CASE Lookup
  BY <1>2, <1>17 DEF Lookup, Rebind, Abort, Answer, Redirect, Follow, Arrive, Follows, Lands, fixed, walk, page
<1>18. CASE UNCHANGED vars
  BY <1>2, <1>18 DEF vars, fixed, walk, page
<1>19. QED
  BY <1>4, <1>5, <1>6, <1>7, <1>8, <1>9, <1>10, <1>11, <1>12, <1>13, <1>14, <1>15, <1>16, <1>17,
     <1>18 DEF Next, Loop, Page

\* A discovery that ends without an error has captured every page within the
\* depth that is asked for, by the shortest way, and no other; it keeps no
\* evidence of another site and stays below the ceiling of pages.
THEOREM QuietDiscoveriesAreComplete == Spec => []QuietMeansRendered
<1> DEFINE Inv == FlightInv /\ VerdictInv /\ RenderInv
<1>1. Init => Inv
  BY InitFlight, InitVerdict, InitRender
<1>2. Inv /\ [Next]_vars => Inv'
  <2>1. SUFFICES ASSUME FlightInv, VerdictInv, WalkInv, ReadInv, LevelInv, SearchInv, [Next]_vars
        PROVE  Inv'
    BY DEF RenderInv
  <2>2. FlightInv' /\ VerdictInv'
    BY <2>1, FlightStep, VerdictStep
  <2>3. WalkInv' /\ ReadInv' /\ LevelInv' /\ SearchInv'
    BY <2>1, WalkStep, ReadStep, LevelStep, SearchStep
  <2>4. QED
    BY <2>2, <2>3 DEF RenderInv
<1>3. ASSUME Inv PROVE QuietMeansRendered
  <2>1. SUFFICES ASSUME outcome = "returned", Discovers
        PROVE  /\ errors = {} => Within[options.depth] = seen
               /\ \A u \in pages : OriginOf[u] \in scope
               /\ Cardinality(seen) <= options.pages
    BY DEF QuietMeansRendered
  <2>2. /\ \A u \in pages : OriginOf[u] \in scope
        /\ Cardinality(seen) <= options.pages
        /\ depth \in 0..options.depth /\ options.depth \in Nat /\ seen \subseteq Urls
    BY <1>3, BrowserAssumption DEF RenderInv, WalkInv
  <2>3. ASSUME errors = {} PROVE Within[options.depth] = seen
    <3>1. Quiet
      BY <2>1, <2>3 DEF Quiet
    <3>2. queue = <<>> /\ phase = "over"
      BY <1>3, <2>1, <3>1 DEF RenderInv, SearchInv
    <3>3. Current = {} /\ (\A u : ~Queued(u)) /\ \A u, e : ~QueuedAt(u, e)
      BY <3>2 DEF Current, Capturing, Queued, QueuedAt
    <3>4. /\ Within[depth] = seen
          /\ depth < options.depth => \A u \in seen : \A v \in LinksOf(u) : v \in seen
      BY <1>3, <3>1, <3>3 DEF RenderInv, SearchInv
    <3>5. CASE depth = options.depth
      BY <3>4, <3>5
    <3>6. CASE depth < options.depth
      <4>1. \A u \in Within[depth] : \A v \in Listed(read[u]) \cap Urls :
              OriginOf[v] \in scope => v \in Within[depth]
        BY <3>4, <3>6 DEF LinksOf
      <4>2. Layers(Within, read, scope) /\ depth \in Nat /\ depth <= options.depth
        BY <2>2, WithinIs
      <4> HIDE DEF Within
      <4>3. Within[options.depth] = Within[depth]
        BY <2>2, <4>1, <4>2, LayersClosed
      <4>4. QED
        BY <3>4, <4>3
    <3>7. QED
      BY <2>2, <3>5, <3>6
  <2>4. QED
    BY <2>2, <2>3
<1>4. QED
  BY <1>1, <1>2, <1>3, PTL DEF Spec
=============================================================================
