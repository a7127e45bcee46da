------------------------------- MODULE Outbox -------------------------------
(***************************************************************************)
(* The durable SecMan delivery queue (src/integration_outbox.py) with the   *)
(* payload preparation of src/delivery.py: command-line processes that      *)
(* enqueue snapshots, at most one sender that holds sender.lock, an         *)
(* operator who quarantines, a network that loses and repeats requests and  *)
(* a central service that treats a known run key as a replay.  A process    *)
(* may die between any two steps; SQLite rows survive it.                   *)
(*                                                                         *)
(* A row is spread over one function per column.  `created` is a reading of *)
(* the clock that the enqueuer takes before its INSERT waits for SQLite's   *)
(* write lock, so rows may be committed in another order than their stamps. *)
(* The clock is the count of the readings: all processes share it, it does  *)
(* not run backwards and no two readings are equal.                         *)
(***************************************************************************)
EXTENDS Naturals, FiniteSets

CONSTANTS
  Deliveries,   \* identities: the hash of destination and template
  Destination,  \* [Deliveries -> central services]
  Scanner,      \* [Deliveries -> scanner registrations], the template's scannerId
  Subjects,     \* subjects a target may be bound to while it is prepared
  Senders,      \* processes that run `delivery retry`
  Enqueuers,    \* processes that add snapshots
  Capacity,     \* 1000 rows in the code
  MaxWasted,    \* bound of the clock readings whose INSERT has failed
  None          \* no value

ASSUME OutboxAssumption ==
  /\ IsFiniteSet(Deliveries) /\ IsFiniteSet(Enqueuers) /\ Enqueuers # {}
  /\ Capacity \in Nat /\ MaxWasted \in Nat
  /\ None \notin Deliveries \cup Senders \cup (Deliveries \X Subjects)

VARIABLES
  state, payload, waiting, created,  \* columns of table delivery
  earlier,    \* history: the rows that were stored when a row was stamped
  clock,      \* time.time(), counted in readings
  checked,    \* the identity an enqueuer has found absent and is inserting
  stamp,      \* the reading it inserts with, 0 before it is taken
  saw,        \* history: the rows that were stored when it was taken
  holder,     \* who holds the flock on sender.lock
  pc, cur, body, todo, seen, lanes, resume, reply,  \* locals of retry()
  inflight,   \* requests on their way to the central service
  runs        \* runs the central service has recorded

rowVars    == <<state, payload, waiting, created, earlier>>
enqVars    == <<clock, checked, stamp, saw>>
senderVars == <<holder, pc, cur, body, todo, seen, lanes, resume, reply>>
netVars    == <<inflight, runs>>
vars       == <<rowVars, enqVars, senderVars, netVars>>

Payloads == Deliveries \X Subjects    \* the body of a delivery, for a subject
RowStates == {"absent", "pending", "blocked", "delivered", "quarantined"}
Replies == {"none", "ack", "invalid", "transient", "permanent"}

Stored == {d \in Deliveries : state[d] # "absent"}
Settled(d) == state[d] \in {"delivered", "quarantined"}
SameLane(d, e) == Destination[d] = Destination[e] /\ Scanner[d] = Scanner[e]

Init ==
  /\ state = [d \in Deliveries |-> "absent"]
  /\ payload = [d \in Deliveries |-> None]
  /\ waiting = [d \in Deliveries |-> FALSE]
  /\ created = [d \in Deliveries |-> 0]
  /\ earlier = [d \in Deliveries |-> {}]
  /\ clock = 0
  /\ checked = [e \in Enqueuers |-> None]
  /\ stamp = [e \in Enqueuers |-> 0]
  /\ saw = [e \in Enqueuers |-> {}]
  /\ holder = None
  /\ pc = [s \in Senders |-> "idle"]
  /\ cur = [s \in Senders |-> None]
  /\ body = [s \in Senders |-> None]
  /\ todo = [s \in Senders |-> {}]
  /\ seen = [s \in Senders |-> {}]
  /\ lanes = [s \in Senders |-> {}]
  /\ resume = [s \in Senders |-> FALSE]
  /\ reply = [s \in Senders |-> "none"]
  /\ inflight = {}
  /\ runs = {}

-----------------------------------------------------------------------------
(* enqueue(): two SELECTs outside any transaction, then the INSERT.        *)

\* Mutant: the row limit is not looked at.
HasNoLimit == TRUE

HasRoom == Cardinality(Stored) < Capacity

\* Bound: no enqueue begins once MaxWasted readings belong to no row.
WastedFew ==
  clock < Cardinality(Stored) + Cardinality({e \in Enqueuers : stamp[e] > 0}) + MaxWasted

\* The identity is not there and the queue has room; nothing is locked yet.
EnqueueCheck(e, d) ==
  /\ checked[e] = None
  /\ WastedFew
  /\ state[d] = "absent"
  /\ HasRoom
  /\ checked' = [checked EXCEPT ![e] = d]
  /\ UNCHANGED <<rowVars, clock, stamp, saw, senderVars, netVars>>

\* time.time() is evaluated as an argument of the INSERT, which then waits for
\* up to ten seconds for the writers before it.
Stamp(e) ==
  /\ checked[e] # None /\ stamp[e] = 0
  /\ clock' = clock + 1
  /\ stamp' = [stamp EXCEPT ![e] = clock + 1]
  /\ saw' = [saw EXCEPT ![e] = Stored]
  /\ UNCHANGED <<rowVars, checked, senderVars, netVars>>

EndEnqueue(e) ==
  /\ checked' = [checked EXCEPT ![e] = None]
  /\ stamp' = [stamp EXCEPT ![e] = 0]
  /\ saw' = [saw EXCEPT ![e] = {}]
  /\ UNCHANGED clock

\* The INSERT commits; a concurrent insert of the same identity makes it fail.
EnqueueInsert(e) ==
  /\ checked[e] # None /\ stamp[e] > 0
  /\ EndEnqueue(e)
  /\ IF state[checked[e]] = "absent"
     THEN /\ state' = [state EXCEPT ![checked[e]] = "pending"]
          /\ created' = [created EXCEPT ![checked[e]] = stamp[e]]
          /\ earlier' = [earlier EXCEPT ![checked[e]] = saw[e]]
          /\ UNCHANGED <<payload, waiting>>
     ELSE UNCHANGED rowVars
  /\ UNCHANGED <<senderVars, netVars>>

\* The enqueuing process dies, or waits in vain for the lock, before its INSERT
\* commits.
EnqueueCrash(e) ==
  /\ checked[e] # None
  /\ EndEnqueue(e)
  /\ UNCHANGED <<rowVars, senderVars, netVars>>

\* quarantine(): one UPDATE, without sender.lock.
Quarantine(d) ==
  /\ state[d] = "blocked"
  /\ state' = [state EXCEPT ![d] = "quarantined"]
  /\ UNCHANGED <<payload, waiting, created, earlier,
                 enqVars, senderVars, netVars>>

\* next_attempt passes.
BackoffExpires(d) ==
  /\ waiting[d]
  /\ waiting' = [waiting EXCEPT ![d] = FALSE]
  /\ UNCHANGED <<state, payload, created, earlier,
                 enqVars, senderVars, netVars>>

-----------------------------------------------------------------------------
(* retry(): the flock, one snapshot of the unsettled rows of a destination, *)
(* then the rows in the order of their stamps.                              *)

Snapshot(to) ==
  {d \in Deliveries : Destination[d] = to /\ state[d] \in {"pending", "blocked"}}

Locked == holder # None

RetryStart(s, to, res) ==
  /\ pc[s] = "idle"
  /\ ~Locked
  /\ holder' = s
  /\ pc' = [pc EXCEPT ![s] = "scan"]
  /\ todo' = [todo EXCEPT ![s] = Snapshot(to)]
  /\ seen' = [seen EXCEPT ![s] = {d \in Snapshot(to) : state[d] = "blocked"}]
  /\ lanes' = [lanes EXCEPT ![s] = {}]
  /\ resume' = [resume EXCEPT ![s] = res]
  /\ UNCHANGED <<rowVars, enqVars, cur, body, reply, netVars>>

\* d is the next row of the snapshot.
NextRow(s, d) ==
  /\ pc[s] = "scan"
  /\ d \in todo[s]
  /\ \A e \in todo[s] : created[d] <= created[e]

\* The row must wait for its backoff or for an operator.
Deferred(s, d) == ~resume[s] /\ (d \in seen[s] \/ waiting[d])

SkipLane(s) == \E d \in todo[s] :
  /\ NextRow(s, d)
  /\ Scanner[d] \in lanes[s]
  /\ todo' = [todo EXCEPT ![s] = @ \ {d}]
  /\ UNCHANGED <<rowVars, enqVars, holder, pc, cur, body, seen, lanes, resume,
                 reply, netVars>>

Defer(s) == \E d \in todo[s] :
  /\ NextRow(s, d)
  /\ Scanner[d] \notin lanes[s]
  /\ Deferred(s, d)
  /\ lanes' = [lanes EXCEPT ![s] = @ \cup {Scanner[d]}]
  /\ todo' = [todo EXCEPT ![s] = @ \ {d}]
  /\ UNCHANGED <<rowVars, enqVars, holder, pc, cur, body, seen, resume, reply,
                 netVars>>

Ready(s, d) == NextRow(s, d) /\ Scanner[d] \notin lanes[s] /\ ~Deferred(s, d)

\* Mutant: every retry binds anew.
AlwaysUnprepared(d) == TRUE

Unprepared(d) == payload[d] = None

\* A body prepared by an earlier run is sent as it is ...
Reuse(s) == \E d \in todo[s] :
  /\ Ready(s, d)
  /\ ~Unprepared(d)
  /\ cur' = [cur EXCEPT ![s] = d]
  /\ body' = [body EXCEPT ![s] = payload[d]]
  /\ pc' = [pc EXCEPT ![s] = "send"]
  /\ UNCHANGED <<rowVars, enqVars, holder, todo, seen, lanes, resume, reply,
                 netVars>>

\* Mutant: the body is sent before it is stored.
CommitLater(d, p) == UNCHANGED payload

Commit(d, p) == payload' = [payload EXCEPT ![d] = p]

\* ... a new one is bound to the subject that matches now, and committed.
Prepare(s) == \E d \in todo[s], subject \in Subjects :
  /\ Ready(s, d)
  /\ Unprepared(d)
  /\ cur' = [cur EXCEPT ![s] = d]
  /\ body' = [body EXCEPT ![s] = <<d, subject>>]
  /\ Commit(d, <<d, subject>>)
  /\ pc' = [pc EXCEPT ![s] = "send"]
  /\ UNCHANGED <<state, waiting, created, earlier, enqVars, holder,
                 todo, seen, lanes, resume, reply, netVars>>

\* Mutants: a failure blocks no lane; it blocks all of them.
BlockNone(s, d) == lanes[s]
BlockAll(s, d) == {Scanner[e] : e \in todo[s]}

Block(s, d) == lanes[s] \cup {Scanner[d]}

\* The except branch of retry(): back off, block the lane, go on.
Fail(s, d, retryable) ==
  /\ state' = [state EXCEPT ![d] = IF retryable THEN "pending" ELSE "blocked"]
  /\ waiting' = [waiting EXCEPT ![d] = TRUE]
  /\ lanes' = [lanes EXCEPT ![s] = Block(s, d)]
  /\ todo' = [todo EXCEPT ![s] = @ \ {d}]
  /\ pc' = [pc EXCEPT ![s] = "scan"]
  /\ cur' = [cur EXCEPT ![s] = None]
  /\ body' = [body EXCEPT ![s] = None]
  /\ reply' = [reply EXCEPT ![s] = "none"]
  /\ UNCHANGED <<payload, created, earlier, enqVars, holder, seen, resume, netVars>>

\* No single authorised subject (permanent), or discovery failed (transient).
PrepareFails(s, retryable) == \E d \in todo[s] :
  /\ Ready(s, d)
  /\ Unprepared(d)
  /\ Fail(s, d, retryable)

Send(s) ==
  /\ pc[s] = "send"
  /\ inflight' = inflight \cup {body[s]}
  /\ pc' = [pc EXCEPT ![s] = "await"]
  /\ UNCHANGED <<rowVars, enqVars, holder, cur, body, todo, seen, lanes, resume,
                 reply, runs>>

\* Mutant: any answer counts as an acknowledgement.
AnyAnswer(r) == r # "none"

\* A record that names the scanner and the subject of the body.
IsAcknowledgement(r) == r = "ack"

Acknowledged(s) ==
  /\ pc[s] = "await"
  /\ IsAcknowledgement(reply[s])
  /\ state' = [state EXCEPT ![cur[s]] = "delivered"]
  /\ todo' = [todo EXCEPT ![s] = @ \ {cur[s]}]
  /\ pc' = [pc EXCEPT ![s] = "scan"]
  /\ cur' = [cur EXCEPT ![s] = None]
  /\ body' = [body EXCEPT ![s] = None]
  /\ reply' = [reply EXCEPT ![s] = "none"]
  /\ UNCHANGED <<payload, waiting, created, earlier, enqVars, holder, seen,
                 lanes, resume, netVars>>

\* An error status, or an acknowledgement of another scanner or subject.
Refused(s) ==
  /\ pc[s] = "await"
  /\ reply[s] \in {"invalid", "transient", "permanent"}
  /\ Fail(s, cur[s], reply[s] # "permanent")

\* Mutant: a request without an answer is sent again at once.
SendAgain(s) ==
  /\ pc[s] = "await"
  /\ pc' = [pc EXCEPT ![s] = "send"]
  /\ UNCHANGED <<rowVars, enqVars, holder, cur, body, todo, seen, lanes, resume, reply, netVars>>

\* No answer, whatever became of the request.
TimedOut(s) ==
  /\ pc[s] = "await"
  /\ Fail(s, cur[s], TRUE)

Unlock(s) == holder' = IF holder = s THEN None ELSE holder

Idle(s) ==
  /\ pc' = [pc EXCEPT ![s] = "idle"]
  /\ cur' = [cur EXCEPT ![s] = None]
  /\ body' = [body EXCEPT ![s] = None]
  /\ todo' = [todo EXCEPT ![s] = {}]
  /\ seen' = [seen EXCEPT ![s] = {}]
  /\ lanes' = [lanes EXCEPT ![s] = {}]
  /\ resume' = [resume EXCEPT ![s] = FALSE]
  /\ reply' = [reply EXCEPT ![s] = "none"]
  /\ Unlock(s)

Finish(s) ==
  /\ pc[s] = "scan"
  /\ todo[s] = {}
  /\ Idle(s)
  /\ UNCHANGED <<rowVars, enqVars, netVars>>

\* The process dies, or an exception other than DeliveryError leaves retry().
Crash(s) ==
  /\ pc[s] # "idle"
  /\ Idle(s)
  /\ UNCHANGED <<rowVars, enqVars, netVars>>

-----------------------------------------------------------------------------
(* The network and the central service.                                    *)

\* The sender's answer, when it still waits for this body.
AnswerTo(p, r) ==
  [s \in Senders |-> IF pc[s] = "await" /\ body[s] = p /\ reply[s] = "none"
                     THEN r ELSE reply[s]]

\* The run is recorded, or recognised as a replay; the request may come again.
ServerAccepts(p) ==
  /\ runs' = runs \cup {p}
  /\ inflight' \in {inflight, inflight \ {p}}
  /\ \E r \in {"ack", "invalid"} : reply' = AnswerTo(p, r)
  /\ UNCHANGED <<rowVars, enqVars, holder, pc, cur, body, todo, seen, lanes, resume>>

ServerRefuses(p) ==
  /\ inflight' = inflight \ {p}
  /\ \E r \in {"transient", "permanent"} : reply' = AnswerTo(p, r)
  /\ UNCHANGED <<rowVars, enqVars, holder, pc, cur, body, todo, seen, lanes,
                 resume, runs>>

RequestLost(p) ==
  /\ inflight' = inflight \ {p}
  /\ UNCHANGED <<rowVars, enqVars, senderVars, runs>>

-----------------------------------------------------------------------------
SenderStep(s) ==
  \/ SkipLane(s) \/ Defer(s) \/ Reuse(s) \/ Prepare(s)
  \/ \E retryable \in BOOLEAN : PrepareFails(s, retryable)
  \/ Send(s) \/ Acknowledged(s) \/ Refused(s) \/ TimedOut(s) \/ Finish(s)

Next ==
  \/ \E e \in Enqueuers, d \in Deliveries : EnqueueCheck(e, d)
  \/ \E e \in Enqueuers : Stamp(e) \/ EnqueueInsert(e) \/ EnqueueCrash(e)
  \/ \E d \in Deliveries : Quarantine(d) \/ BackoffExpires(d)
  \/ \E s \in Senders, d \in Deliveries, res \in BOOLEAN :
       RetryStart(s, Destination[d], res)
  \/ \E s \in Senders : SenderStep(s) \/ Crash(s)
  \/ \E p \in inflight : ServerAccepts(p) \/ ServerRefuses(p) \/ RequestLost(p)

Spec == Init /\ [][Next]_vars

-----------------------------------------------------------------------------
(* Properties.                                                             *)

TypeOK ==
  /\ state \in [Deliveries -> RowStates]
  /\ payload \in [Deliveries -> Payloads \cup {None}]
  /\ waiting \in [Deliveries -> BOOLEAN]
  /\ created \in [Deliveries -> Nat]
  /\ earlier \in [Deliveries -> SUBSET Deliveries]
  /\ clock \in Nat
  /\ checked \in [Enqueuers -> Deliveries \cup {None}]
  /\ stamp \in [Enqueuers -> Nat]
  /\ saw \in [Enqueuers -> SUBSET Deliveries]
  /\ holder \in Senders \cup {None}
  /\ pc \in [Senders -> {"idle", "scan", "send", "await"}]
  /\ cur \in [Senders -> Deliveries \cup {None}]
  /\ body \in [Senders -> Payloads \cup {None}]
  /\ todo \in [Senders -> SUBSET Deliveries]
  /\ seen \in [Senders -> SUBSET Deliveries]
  /\ lanes \in [Senders -> SUBSET {Scanner[d] : d \in Deliveries}]
  /\ resume \in [Senders -> BOOLEAN]
  /\ reply \in [Senders -> Replies]
  /\ inflight \subseteq Payloads
  /\ runs \subseteq Payloads
  /\ \A s \in Senders : pc[s] \in {"send", "await"} =>
       cur[s] \in Deliveries /\ body[s] \in Payloads

\* However often a delivery is retried, by whom, after which crash or lost
\* answer and with whatever rebinding of its target, every body that is on its
\* way to the service or recorded there is the one committed to the row.
OneBodyPerDelivery ==
  \A p \in inflight \cup runs : payload[p[1]] = p

\* A row that says "delivered" stands for a run the service has recorded.
DeliveredWasRecorded ==
  \A d \in Deliveries : state[d] = "delivered" => payload[d] \in runs

\* A sender never submits a delivery while one of the same destination and
\* scanner that was enqueued before it is neither delivered nor quarantined, so
\* the service sees the snapshots of a scanner in the order they were enqueued.
\* Of two enqueues that overlap the one with the older stamp may be committed
\* last, after the other has been sent: nothing is promised of their order.
HeadOfLine ==
  \A s \in Senders : pc[s] \in {"send", "await"} =>
    \A d \in Stored : SameLane(d, cur[s]) /\ d \in earlier[cur[s]] => Settled(d)

\* A sender has closed a lane only after a delivery of that very scanner failed
\* or had to wait: one scanner's trouble never holds up another.
LanesAreIndependent ==
  \A s \in Senders : \A n \in lanes[s] :
    \E d \in Deliveries : Scanner[d] = n /\ d \notin todo[s] /\ state[d] # "delivered"
                          /\ created[d] > 0

\* The row count is read outside the INSERT's transaction, so the documented
\* capacity can be exceeded, but by no more than the other enqueuers.
BoundedOvershoot ==
  Cardinality(Stored) + 1 <= Capacity + Cardinality(Enqueuers)

\* The body of a delivery never changes once it is committed, and a delivered
\* row is never written again (it is in no later snapshot).
CommittedForGood ==
  [][\A d \in Deliveries :
       /\ payload[d] # None => payload'[d] = payload[d]
       /\ state[d] = "delivered" => state'[d] = "delivered"]_vars

\* What a sender has left to do: three steps for each row, fewer for the one in hand.
Remaining(s) ==
  3 * Cardinality(todo[s]) - (IF pc[s] = "send" THEN 1 ELSE IF pc[s] = "await" THEN 2 ELSE 0)

\* Whoever holds sender.lock gets nearer to letting it go with every step of its
\* own, and nobody else's step sets it back: no rebinding, failure, late answer,
\* new row or operator makes retry() look at a row twice.
RetryAdvances ==
  [][\A s \in Senders : holder = s /\ holder' = s =>
       \/ Remaining(s)' < Remaining(s)
       \/ pc'[s] = pc[s] /\ todo'[s] = todo[s] /\ cur'[s] = cur[s]]_vars

\* A quarantined request stays quarantined: the operator has decided that it is
\* never retried (docs/SECMAN.md).
QuarantineIsFinal ==
  [][\A d \in Deliveries : state[d] = "quarantined" => state'[d] = "quarantined"]_vars

-----------------------------------------------------------------------------
(* The inductive invariant behind them.                                    *)

\* The flock: only its holder is inside retry(), and an idle process has no rows.
LockInv ==
  /\ \A s \in Senders : pc[s] # "idle" => holder = s
  /\ \A s \in Senders : pc[s] = "idle" => todo[s] = {} /\ lanes[s] = {}

\* Every stored row has a stamp, later than those of the rows it found stored.
OrderInv ==
  /\ \A d \in Deliveries : /\ state[d] # "absent" <=> created[d] > 0
                           /\ created[d] <= clock
                           /\ \A x \in earlier[d] : x \in Stored /\ created[x] < created[d]
  /\ \A e \in Enqueuers : /\ stamp[e] <= clock
                          /\ \A x \in saw[e] : x \in Stored /\ created[x] < stamp[e]

\* The rows a sender still has to look at have not been delivered meanwhile, and
\* an unsettled row of their lane enqueued before them, which the snapshot holds
\* as well, is among them or has blocked the lane.
TodoInv ==
  \A s \in Senders : \A t \in todo[s] :
    /\ state[t] \in {"pending", "blocked", "quarantined"}
    /\ \A d \in Deliveries :
         /\ state[d] \in {"pending", "blocked"}
         /\ SameLane(d, t)
         /\ d \in earlier[t]
         => d \in todo[s] \/ Scanner[d] \in lanes[s]

\* The body in a sender's hands is the one committed to the row it works on.
BodyInv ==
  /\ \A d \in Deliveries : payload[d] # None => payload[d][1] = d
  /\ \A s \in Senders : pc[s] \in {"send", "await"} =>
       /\ cur[s] \in todo[s]
       /\ body[s] = payload[cur[s]]
       /\ body[s] # None

\* An acknowledgement is only ever seen by a sender whose body is recorded.
ReplyInv ==
  \A s \in Senders : reply[s] # "none" =>
    pc[s] = "await" /\ (reply[s] = "ack" => body[s] \in runs)

\* Each insert under way has been counted, all at once in the worst case.
Inserting == {e \in Enqueuers : checked[e] # None}
RoomInv ==
  Cardinality(Stored) + Cardinality(Inserting) + 1 <= Capacity + Cardinality(Enqueuers)

IInv ==
  /\ TypeOK /\ LockInv /\ OrderInv /\ TodoInv /\ BodyInv /\ ReplyInv
  /\ OneBodyPerDelivery /\ DeliveredWasRecorded /\ HeadOfLine

-----------------------------------------------------------------------------
\* The queue implements the promise of Delivery.
Promise == INSTANCE Delivery WITH
  body <- payload, recorded <- runs,
  delivered <- {d \in Deliveries : state[d] = "delivered"}
Implements == Promise!Spec
=============================================================================
