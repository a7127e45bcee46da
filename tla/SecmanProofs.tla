---------------------------- MODULE SecmanProofs ----------------------------
(* Theorems about the two ways to SecMan.  Outbox: the inductive invariant   *)
(* IInv, what follows from it, and the refinement of Delivery.  Publish: the *)
(* inductive invariant PublishInv and the three properties it implies.       *)
EXTENDS Outbox, Publish, FiniteSetTheorems, SequenceTheorems, WellFoundedInduction, TLAPS

(***************************************************************************)
(* The delivery queue.                                                     *)
(***************************************************************************)

\* The except branch of retry() keeps the types.
LEMMA FailTypes ==
  ASSUME TypeOK, NEW s \in Senders, NEW d \in Deliveries, NEW b \in BOOLEAN,
         Fail(s, d, b)
  PROVE  TypeOK'
<1> USE OutboxAssumption DEF TypeOK, RowStates, Replies, Payloads, Fail, Block, netVars, enqVars
<1>1. lanes' \in [Senders -> SUBSET {Scanner[x] : x \in Deliveries}]
  OBVIOUS
<1>2. /\ state' \in [Deliveries -> RowStates]
      /\ payload' \in [Deliveries -> Payloads \cup {None}]
      /\ waiting' \in [Deliveries -> BOOLEAN]
      /\ created' \in [Deliveries -> Nat]
      /\ earlier' \in [Deliveries -> SUBSET Deliveries]
      /\ clock' \in Nat /\ stamp' \in [Enqueuers -> Nat] /\ saw' \in [Enqueuers -> SUBSET Deliveries]
      /\ checked' \in [Enqueuers -> Deliveries \cup {None}]
      /\ holder' \in Senders \cup {None}
  OBVIOUS
<1>3. /\ pc' \in [Senders -> {"idle", "scan", "send", "await"}]
      /\ cur' \in [Senders -> Deliveries \cup {None}]
      /\ body' \in [Senders -> Payloads \cup {None}]
      /\ todo' \in [Senders -> SUBSET Deliveries]
      /\ seen' \in [Senders -> SUBSET Deliveries]
      /\ resume' \in [Senders -> BOOLEAN]
      /\ reply' \in [Senders -> Replies]
      /\ inflight' \subseteq Payloads
      /\ runs' \subseteq Payloads
  OBVIOUS
<1>4. \A t \in Senders : pc'[t] \in {"send", "await"} =>
       cur'[t] \in Deliveries /\ body'[t] \in Payloads
  OBVIOUS
<1>5. QED  BY <1>1, <1>2, <1>3, <1>4

\* Every step keeps the types.
LEMMA TypePreserved ==
  ASSUME TypeOK, [Next]_vars
  PROVE  TypeOK'
<1> USE OutboxAssumption DEF vars, rowVars, enqVars, EndEnqueue, senderVars, netVars,
    TypeOK, RowStates, Replies, Payloads
<1>1. ASSUME NEW e \in Enqueuers, NEW d \in Deliveries, EnqueueCheck(e, d)
      PROVE  TypeOK'
  BY <1>1 DEF EnqueueCheck
<1>0. ASSUME NEW e \in Enqueuers, Stamp(e)
      PROVE  TypeOK'
  BY <1>0 DEF Stamp, Stored
<1>2. ASSUME NEW e \in Enqueuers, EnqueueInsert(e)
      PROVE  TypeOK'
  BY <1>2 DEF EnqueueInsert
<1>3. ASSUME NEW e \in Enqueuers, EnqueueCrash(e)
      PROVE  TypeOK'
  BY <1>3 DEF EnqueueCrash
<1>4. ASSUME NEW d \in Deliveries, Quarantine(d)
      PROVE  TypeOK'
  BY <1>4 DEF Quarantine
<1>5. ASSUME NEW d \in Deliveries, BackoffExpires(d)
      PROVE  TypeOK'
  BY <1>5 DEF BackoffExpires
<1>6. ASSUME NEW s \in Senders, NEW d \in Deliveries, NEW res \in BOOLEAN, RetryStart(s,
            Destination[d], res)
      PROVE  TypeOK'
  BY <1>6 DEF RetryStart, Locked, Snapshot
<1>7. ASSUME NEW s \in Senders, SkipLane(s)
      PROVE  TypeOK'
  BY <1>7 DEF SkipLane, NextRow
<1>8. ASSUME NEW s \in Senders, Defer(s)
      PROVE  TypeOK'
  BY <1>8 DEF Defer, NextRow
<1>9. ASSUME NEW s \in Senders, Reuse(s)
      PROVE  TypeOK'
  BY <1>9 DEF Reuse, Ready, NextRow, Unprepared
<1>10. ASSUME NEW s \in Senders, Prepare(s)
      PROVE  TypeOK'
  BY <1>10 DEF Prepare, Ready, NextRow, Unprepared, Commit
<1>11. ASSUME NEW s \in Senders, NEW b \in BOOLEAN, PrepareFails(s, b)
      PROVE  TypeOK'
  <2>1. PICK d \in todo[s] : Fail(s, d, b)
    BY <1>11 DEF PrepareFails
  <2>2. QED  BY <2>1, FailTypes DEF TypeOK
<1>12. ASSUME NEW s \in Senders, Send(s)
      PROVE  TypeOK'
  BY <1>12 DEF Send
<1>13. ASSUME NEW s \in Senders, Acknowledged(s)
      PROVE  TypeOK'
  BY <1>13 DEF Acknowledged, IsAcknowledgement
<1>14. ASSUME NEW s \in Senders, Refused(s)
      PROVE  TypeOK'
  <2>1. Fail(s, cur[s], reply[s] # "permanent") /\ cur[s] \in Deliveries
    BY <1>14 DEF Refused, TypeOK
  <2>2. QED  BY <2>1, FailTypes
<1>15. ASSUME NEW s \in Senders, TimedOut(s)
      PROVE  TypeOK'
  <2>1. Fail(s, cur[s], TRUE) /\ cur[s] \in Deliveries
    BY <1>15 DEF TimedOut, TypeOK
  <2>2. QED  BY <2>1, FailTypes
<1>16. ASSUME NEW s \in Senders, Finish(s)
      PROVE  TypeOK'
  BY <1>16 DEF Finish, Idle, Unlock
<1>17. ASSUME NEW s \in Senders, Crash(s)
      PROVE  TypeOK'
  BY <1>17 DEF Crash, Idle, Unlock
<1>18. ASSUME NEW p \in inflight, ServerAccepts(p)
      PROVE  TypeOK'
  BY <1>18 DEF ServerAccepts, AnswerTo
<1>19. ASSUME NEW p \in inflight, ServerRefuses(p)
      PROVE  TypeOK'
  BY <1>19 DEF ServerRefuses, AnswerTo
<1>20. ASSUME NEW p \in inflight, RequestLost(p)
      PROVE  TypeOK'
  BY <1>20 DEF RequestLost
<1>21. CASE UNCHANGED vars
  BY <1>21 DEF vars
<1> HIDE DEF vars, rowVars, enqVars, EndEnqueue, senderVars, netVars, TypeOK, RowStates,
    Replies, Payloads
<1>22. QED
  BY <1>0, <1>1, <1>2, <1>3, <1>4, <1>5, <1>6, <1>7, <1>8, <1>9, <1>10, <1>11, <1>12, <1>13, <1>14,
     <1>15, <1>16, <1>17, <1>18, <1>19, <1>20, <1>21 DEF Next, SenderStep

\* Every step keeps the flock exclusive: only its holder is inside retry().
LEMMA LockPreserved ==
  ASSUME TypeOK, LockInv, [Next]_vars
  PROVE  LockInv'
<1> USE OutboxAssumption DEF vars, rowVars, enqVars, EndEnqueue, senderVars, netVars,
    TypeOK, LockInv, Fail, Ready, NextRow
<1>1. ASSUME NEW e \in Enqueuers, NEW d \in Deliveries, EnqueueCheck(e, d)
      PROVE  LockInv'
  BY <1>1 DEF EnqueueCheck
<1>0. ASSUME NEW e \in Enqueuers, Stamp(e)
      PROVE  LockInv'
  BY <1>0 DEF Stamp
<1>2. ASSUME NEW e \in Enqueuers, EnqueueInsert(e)
      PROVE  LockInv'
  BY <1>2 DEF EnqueueInsert
<1>3. ASSUME NEW e \in Enqueuers, EnqueueCrash(e)
      PROVE  LockInv'
  BY <1>3 DEF EnqueueCrash
<1>4. ASSUME NEW d \in Deliveries, Quarantine(d)
      PROVE  LockInv'
  BY <1>4 DEF Quarantine
<1>5. ASSUME NEW d \in Deliveries, BackoffExpires(d)
      PROVE  LockInv'
  BY <1>5 DEF BackoffExpires
<1>6. ASSUME NEW s \in Senders, NEW d \in Deliveries, NEW res \in BOOLEAN, RetryStart(s,
            Destination[d], res)
      PROVE  LockInv'
  BY <1>6 DEF RetryStart, Locked, Snapshot
<1>7. ASSUME NEW s \in Senders, SkipLane(s)
      PROVE  LockInv'
  BY <1>7 DEF SkipLane
<1>8. ASSUME NEW s \in Senders, Defer(s)
      PROVE  LockInv'
  BY <1>8 DEF Defer
<1>9. ASSUME NEW s \in Senders, Reuse(s)
      PROVE  LockInv'
  BY <1>9 DEF Reuse, Unprepared
<1>10. ASSUME NEW s \in Senders, Prepare(s)
      PROVE  LockInv'
  BY <1>10 DEF Prepare, Unprepared, Commit
<1>11. ASSUME NEW s \in Senders, NEW b \in BOOLEAN, PrepareFails(s, b)
      PROVE  LockInv'
  BY <1>11 DEF PrepareFails
<1>12. ASSUME NEW s \in Senders, Send(s)
      PROVE  LockInv'
  BY <1>12 DEF Send
<1>13. ASSUME NEW s \in Senders, Acknowledged(s)
      PROVE  LockInv'
  BY <1>13 DEF Acknowledged, IsAcknowledgement
<1>14. ASSUME NEW s \in Senders, Refused(s)
      PROVE  LockInv'
  BY <1>14 DEF Refused
<1>15. ASSUME NEW s \in Senders, TimedOut(s)
      PROVE  LockInv'
  BY <1>15 DEF TimedOut
<1>16. ASSUME NEW s \in Senders, Finish(s)
      PROVE  LockInv'
  BY <1>16 DEF Finish, Idle, Unlock
<1>17. ASSUME NEW s \in Senders, Crash(s)
      PROVE  LockInv'
  BY <1>17 DEF Crash, Idle, Unlock
<1>18. ASSUME NEW p \in inflight, ServerAccepts(p)
      PROVE  LockInv'
  BY <1>18 DEF ServerAccepts, AnswerTo
<1>19. ASSUME NEW p \in inflight, ServerRefuses(p)
      PROVE  LockInv'
  BY <1>19 DEF ServerRefuses, AnswerTo
<1>20. ASSUME NEW p \in inflight, RequestLost(p)
      PROVE  LockInv'
  BY <1>20 DEF RequestLost
<1>21. CASE UNCHANGED vars
  BY <1>21 DEF vars
<1> HIDE DEF vars, rowVars, enqVars, EndEnqueue, senderVars, netVars, TypeOK, LockInv, Fail,
    Ready, NextRow
<1>22. QED
  BY <1>0, <1>1, <1>2, <1>3, <1>4, <1>5, <1>6, <1>7, <1>8, <1>9, <1>10, <1>11, <1>12, <1>13, <1>14,
     <1>15, <1>16, <1>17, <1>18, <1>19, <1>20, <1>21 DEF Next, SenderStep

\* Every step keeps a row stamped later than those it found stored.
LEMMA OrderPreserved ==
  ASSUME TypeOK, OrderInv, TodoInv, BodyInv, [Next]_vars
  PROVE  OrderInv'
<1> USE OutboxAssumption DEF vars, rowVars, enqVars, EndEnqueue, senderVars, netVars,
    TypeOK, RowStates, Stored, OrderInv, TodoInv, BodyInv, Fail, Ready, NextRow
<1>1. ASSUME NEW e \in Enqueuers, NEW d \in Deliveries, EnqueueCheck(e, d)
      PROVE  OrderInv'
  BY <1>1 DEF EnqueueCheck
<1>0. ASSUME NEW e \in Enqueuers, Stamp(e)
      PROVE  OrderInv'
  BY <1>0 DEF Stamp
<1>2. ASSUME NEW e \in Enqueuers, EnqueueInsert(e)
      PROVE  OrderInv'
  <2>1. CASE UNCHANGED rowVars
    BY <1>2, <2>1 DEF EnqueueInsert
  <2>2. CASE state[checked[e]] = "absent"
    <3>1. /\ state' = [state EXCEPT ![checked[e]] = "pending"]
          /\ created' = [created EXCEPT ![checked[e]] = stamp[e]]
          /\ earlier' = [earlier EXCEPT ![checked[e]] = saw[e]]
          /\ stamp' = [stamp EXCEPT ![e] = 0] /\ saw' = [saw EXCEPT ![e] = {}]
          /\ clock' = clock /\ stamp[e] > 0
          /\ checked[e] \in Deliveries
      BY <1>2, <2>2 DEF EnqueueInsert
    <3>2. \A x \in Stored : x # checked[e] /\ x \in Stored' /\ created'[x] = created[x]
      BY <2>2, <3>1
    <3>3. QED  BY <3>1, <3>2
  <2>3. QED  BY <1>2, <2>1, <2>2 DEF EnqueueInsert
<1>3. ASSUME NEW e \in Enqueuers, EnqueueCrash(e)
      PROVE  OrderInv'
  BY <1>3 DEF EnqueueCrash
<1>4. ASSUME NEW d \in Deliveries, Quarantine(d)
      PROVE  OrderInv'
  BY <1>4 DEF Quarantine
<1>5. ASSUME NEW d \in Deliveries, BackoffExpires(d)
      PROVE  OrderInv'
  BY <1>5 DEF BackoffExpires
<1>6. ASSUME NEW s \in Senders, NEW d \in Deliveries, NEW res \in BOOLEAN, RetryStart(s,
            Destination[d], res)
      PROVE  OrderInv'
  BY <1>6 DEF RetryStart, Locked, Snapshot
<1>7. ASSUME NEW s \in Senders, SkipLane(s)
      PROVE  OrderInv'
  BY <1>7 DEF SkipLane
<1>8. ASSUME NEW s \in Senders, Defer(s)
      PROVE  OrderInv'
  BY <1>8 DEF Defer
<1>9. ASSUME NEW s \in Senders, Reuse(s)
      PROVE  OrderInv'
  BY <1>9 DEF Reuse, Unprepared
<1>10. ASSUME NEW s \in Senders, Prepare(s)
      PROVE  OrderInv'
  BY <1>10 DEF Prepare, Unprepared, Commit
<1>11. ASSUME NEW s \in Senders, NEW b \in BOOLEAN, PrepareFails(s, b)
      PROVE  OrderInv'
  BY <1>11 DEF PrepareFails
<1>12. ASSUME NEW s \in Senders, Send(s)
      PROVE  OrderInv'
  BY <1>12 DEF Send
<1>13. ASSUME NEW s \in Senders, Acknowledged(s)
      PROVE  OrderInv'
  BY <1>13 DEF Acknowledged, IsAcknowledgement
<1>14. ASSUME NEW s \in Senders, Refused(s)
      PROVE  OrderInv'
  BY <1>14 DEF Refused
<1>15. ASSUME NEW s \in Senders, TimedOut(s)
      PROVE  OrderInv'
  <2>1. cur[s] \in Deliveries /\ state[cur[s]] # "absent"
    BY <1>15 DEF TimedOut
  <2>2. /\ state' = [state EXCEPT ![cur[s]] = "pending"]
        /\ UNCHANGED <<created, earlier, clock, stamp, saw>>
    BY <1>15 DEF TimedOut
  <2>3. Stored' = Stored
    BY <2>1, <2>2
  <2>4. QED
    <3> HIDE DEF Fail, BodyInv, TodoInv, Stored
    <3> QED  BY <2>1, <2>2, <2>3
<1>16. ASSUME NEW s \in Senders, Finish(s)
      PROVE  OrderInv'
  BY <1>16 DEF Finish, Idle, Unlock
<1>17. ASSUME NEW s \in Senders, Crash(s)
      PROVE  OrderInv'
  BY <1>17 DEF Crash, Idle, Unlock
<1>18. ASSUME NEW p \in inflight, ServerAccepts(p)
      PROVE  OrderInv'
  BY <1>18 DEF ServerAccepts, AnswerTo
<1>19. ASSUME NEW p \in inflight, ServerRefuses(p)
      PROVE  OrderInv'
  BY <1>19 DEF ServerRefuses, AnswerTo
<1>20. ASSUME NEW p \in inflight, RequestLost(p)
      PROVE  OrderInv'
  BY <1>20 DEF RequestLost
<1>21. CASE UNCHANGED vars
  BY <1>21 DEF vars
<1> HIDE DEF vars, rowVars, enqVars, EndEnqueue, senderVars, netVars, TypeOK, RowStates,
    Stored, OrderInv, TodoInv, BodyInv, Fail, Ready, NextRow
<1>22. QED
  BY <1>0, <1>1, <1>2, <1>3, <1>4, <1>5, <1>6, <1>7, <1>8, <1>9, <1>10, <1>11, <1>12, <1>13, <1>14,
     <1>15, <1>16, <1>17, <1>18, <1>19, <1>20, <1>21 DEF Next, SenderStep

\* Every step keeps the body in a sender's hands equal to the committed one:
\* only the holder of the lock writes a payload, and only where there is none.
LEMMA BodyPreserved ==
  ASSUME TypeOK, LockInv, BodyInv, [Next]_vars
  PROVE  BodyInv'
<1> USE OutboxAssumption DEF vars, rowVars, enqVars, EndEnqueue, senderVars, netVars,
    TypeOK, Payloads, LockInv, BodyInv, Fail, Ready, NextRow, Snapshot
<1>1. ASSUME NEW e \in Enqueuers, NEW d \in Deliveries, EnqueueCheck(e, d)
      PROVE  BodyInv'
  BY <1>1 DEF EnqueueCheck
<1>0. ASSUME NEW e \in Enqueuers, Stamp(e)
      PROVE  BodyInv'
  BY <1>0 DEF Stamp
<1>2. ASSUME NEW e \in Enqueuers, EnqueueInsert(e)
      PROVE  BodyInv'
  BY <1>2 DEF EnqueueInsert
<1>3. ASSUME NEW e \in Enqueuers, EnqueueCrash(e)
      PROVE  BodyInv'
  BY <1>3 DEF EnqueueCrash
<1>4. ASSUME NEW d \in Deliveries, Quarantine(d)
      PROVE  BodyInv'
  BY <1>4 DEF Quarantine
<1>5. ASSUME NEW d \in Deliveries, BackoffExpires(d)
      PROVE  BodyInv'
  BY <1>5 DEF BackoffExpires
<1>6. ASSUME NEW s \in Senders, NEW d \in Deliveries, NEW res \in BOOLEAN, RetryStart(s,
            Destination[d], res)
      PROVE  BodyInv'
  BY <1>6 DEF RetryStart, Locked
<1>7. ASSUME NEW s \in Senders, SkipLane(s)
      PROVE  BodyInv'
  BY <1>7 DEF SkipLane
<1>8. ASSUME NEW s \in Senders, Defer(s)
      PROVE  BodyInv'
  BY <1>8 DEF Defer
<1>9. ASSUME NEW s \in Senders, Reuse(s)
      PROVE  BodyInv'
  BY <1>9 DEF Reuse, Unprepared
<1>10. ASSUME NEW s \in Senders, Prepare(s)
      PROVE  BodyInv'
  BY <1>10 DEF Prepare, Unprepared, Commit
<1>11. ASSUME NEW s \in Senders, NEW b \in BOOLEAN, PrepareFails(s, b)
      PROVE  BodyInv'
  BY <1>11 DEF PrepareFails
<1>12. ASSUME NEW s \in Senders, Send(s)
      PROVE  BodyInv'
  BY <1>12 DEF Send
<1>13. ASSUME NEW s \in Senders, Acknowledged(s)
      PROVE  BodyInv'
  BY <1>13 DEF Acknowledged, IsAcknowledgement
<1>14. ASSUME NEW s \in Senders, Refused(s)
      PROVE  BodyInv'
  BY <1>14 DEF Refused
<1>15. ASSUME NEW s \in Senders, TimedOut(s)
      PROVE  BodyInv'
  BY <1>15 DEF TimedOut
<1>16. ASSUME NEW s \in Senders, Finish(s)
      PROVE  BodyInv'
  BY <1>16 DEF Finish, Idle, Unlock
<1>17. ASSUME NEW s \in Senders, Crash(s)
      PROVE  BodyInv'
  BY <1>17 DEF Crash, Idle, Unlock
<1>18. ASSUME NEW p \in inflight, ServerAccepts(p)
      PROVE  BodyInv'
  BY <1>18 DEF ServerAccepts, AnswerTo
<1>19. ASSUME NEW p \in inflight, ServerRefuses(p)
      PROVE  BodyInv'
  BY <1>19 DEF ServerRefuses, AnswerTo
<1>20. ASSUME NEW p \in inflight, RequestLost(p)
      PROVE  BodyInv'
  BY <1>20 DEF RequestLost
<1>21. CASE UNCHANGED vars
  BY <1>21 DEF vars
<1> HIDE DEF vars, rowVars, enqVars, EndEnqueue, senderVars, netVars, TypeOK, Payloads,
    LockInv, BodyInv, Fail, Ready, NextRow, Snapshot
<1>22. QED
  BY <1>0, <1>1, <1>2, <1>3, <1>4, <1>5, <1>6, <1>7, <1>8, <1>9, <1>10, <1>11, <1>12, <1>13, <1>14,
     <1>15, <1>16, <1>17, <1>18, <1>19, <1>20, <1>21 DEF Next, SenderStep

\* Every step keeps answers with the sender that waits for them.
LEMMA ReplyPreserved ==
  ASSUME TypeOK, BodyInv, ReplyInv, [Next]_vars
  PROVE  ReplyInv'
<1> USE OutboxAssumption DEF vars, rowVars, enqVars, EndEnqueue, senderVars, netVars,
    TypeOK, Replies, ReplyInv, Fail, Ready, NextRow
<1>1. ASSUME NEW e \in Enqueuers, NEW d \in Deliveries, EnqueueCheck(e, d)
      PROVE  ReplyInv'
  BY <1>1 DEF EnqueueCheck
<1>0. ASSUME NEW e \in Enqueuers, Stamp(e)
      PROVE  ReplyInv'
  BY <1>0 DEF Stamp
<1>2. ASSUME NEW e \in Enqueuers, EnqueueInsert(e)
      PROVE  ReplyInv'
  BY <1>2 DEF EnqueueInsert
<1>3. ASSUME NEW e \in Enqueuers, EnqueueCrash(e)
      PROVE  ReplyInv'
  BY <1>3 DEF EnqueueCrash
<1>4. ASSUME NEW d \in Deliveries, Quarantine(d)
      PROVE  ReplyInv'
  BY <1>4 DEF Quarantine
<1>5. ASSUME NEW d \in Deliveries, BackoffExpires(d)
      PROVE  ReplyInv'
  BY <1>5 DEF BackoffExpires
<1>6. ASSUME NEW s \in Senders, NEW d \in Deliveries, NEW res \in BOOLEAN, RetryStart(s,
            Destination[d], res)
      PROVE  ReplyInv'
  BY <1>6 DEF RetryStart, Locked, Snapshot
<1>7. ASSUME NEW s \in Senders, SkipLane(s)
      PROVE  ReplyInv'
  BY <1>7 DEF SkipLane
<1>8. ASSUME NEW s \in Senders, Defer(s)
      PROVE  ReplyInv'
  BY <1>8 DEF Defer
<1>9. ASSUME NEW s \in Senders, Reuse(s)
      PROVE  ReplyInv'
  BY <1>9 DEF Reuse, Unprepared
<1>10. ASSUME NEW s \in Senders, Prepare(s)
      PROVE  ReplyInv'
  BY <1>10 DEF Prepare, Unprepared, Commit
<1>11. ASSUME NEW s \in Senders, NEW b \in BOOLEAN, PrepareFails(s, b)
      PROVE  ReplyInv'
  BY <1>11 DEF PrepareFails
<1>12. ASSUME NEW s \in Senders, Send(s)
      PROVE  ReplyInv'
  BY <1>12 DEF Send
<1>13. ASSUME NEW s \in Senders, Acknowledged(s)
      PROVE  ReplyInv'
  BY <1>13 DEF Acknowledged, IsAcknowledgement
<1>14. ASSUME NEW s \in Senders, Refused(s)
      PROVE  ReplyInv'
  BY <1>14 DEF Refused
<1>15. ASSUME NEW s \in Senders, TimedOut(s)
      PROVE  ReplyInv'
  BY <1>15 DEF TimedOut
<1>16. ASSUME NEW s \in Senders, Finish(s)
      PROVE  ReplyInv'
  BY <1>16 DEF Finish, Idle, Unlock
<1>17. ASSUME NEW s \in Senders, Crash(s)
      PROVE  ReplyInv'
  BY <1>17 DEF Crash, Idle, Unlock
<1>18. ASSUME NEW p \in inflight, ServerAccepts(p)
      PROVE  ReplyInv'
  BY <1>18 DEF ServerAccepts, AnswerTo
<1>19. ASSUME NEW p \in inflight, ServerRefuses(p)
      PROVE  ReplyInv'
  BY <1>19 DEF ServerRefuses, AnswerTo
<1>20. ASSUME NEW p \in inflight, RequestLost(p)
      PROVE  ReplyInv'
  BY <1>20 DEF RequestLost
<1>21. CASE UNCHANGED vars
  BY <1>21 DEF vars
<1> HIDE DEF vars, rowVars, enqVars, EndEnqueue, senderVars, netVars, TypeOK, Replies,
    ReplyInv, Fail, Ready, NextRow
<1>22. QED
  BY <1>0, <1>1, <1>2, <1>3, <1>4, <1>5, <1>6, <1>7, <1>8, <1>9, <1>10, <1>11, <1>12, <1>13, <1>14,
     <1>15, <1>16, <1>17, <1>18, <1>19, <1>20, <1>21 DEF Next, SenderStep

\* Every step keeps all bodies in flight or recorded equal to the committed ones.
LEMMA OneBodyPreserved ==
  ASSUME TypeOK, BodyInv, OneBodyPerDelivery, [Next]_vars
  PROVE  OneBodyPerDelivery'
<1> USE OutboxAssumption DEF vars, rowVars, enqVars, EndEnqueue, senderVars, netVars,
    TypeOK, Payloads, BodyInv, OneBodyPerDelivery, Fail, Ready, NextRow
<1>1. ASSUME NEW e \in Enqueuers, NEW d \in Deliveries, EnqueueCheck(e, d)
      PROVE  OneBodyPerDelivery'
  BY <1>1 DEF EnqueueCheck
<1>0. ASSUME NEW e \in Enqueuers, Stamp(e)
      PROVE  OneBodyPerDelivery'
  BY <1>0 DEF Stamp
<1>2. ASSUME NEW e \in Enqueuers, EnqueueInsert(e)
      PROVE  OneBodyPerDelivery'
  BY <1>2 DEF EnqueueInsert
<1>3. ASSUME NEW e \in Enqueuers, EnqueueCrash(e)
      PROVE  OneBodyPerDelivery'
  BY <1>3 DEF EnqueueCrash
<1>4. ASSUME NEW d \in Deliveries, Quarantine(d)
      PROVE  OneBodyPerDelivery'
  BY <1>4 DEF Quarantine
<1>5. ASSUME NEW d \in Deliveries, BackoffExpires(d)
      PROVE  OneBodyPerDelivery'
  BY <1>5 DEF BackoffExpires
<1>6. ASSUME NEW s \in Senders, NEW d \in Deliveries, NEW res \in BOOLEAN, RetryStart(s,
            Destination[d], res)
      PROVE  OneBodyPerDelivery'
  BY <1>6 DEF RetryStart, Locked, Snapshot
<1>7. ASSUME NEW s \in Senders, SkipLane(s)
      PROVE  OneBodyPerDelivery'
  BY <1>7 DEF SkipLane
<1>8. ASSUME NEW s \in Senders, Defer(s)
      PROVE  OneBodyPerDelivery'
  BY <1>8 DEF Defer
<1>9. ASSUME NEW s \in Senders, Reuse(s)
      PROVE  OneBodyPerDelivery'
  BY <1>9 DEF Reuse, Unprepared
<1>10. ASSUME NEW s \in Senders, Prepare(s)
      PROVE  OneBodyPerDelivery'
  BY <1>10 DEF Prepare, Unprepared, Commit
<1>11. ASSUME NEW s \in Senders, NEW b \in BOOLEAN, PrepareFails(s, b)
      PROVE  OneBodyPerDelivery'
  BY <1>11 DEF PrepareFails
<1>12. ASSUME NEW s \in Senders, Send(s)
      PROVE  OneBodyPerDelivery'
  BY <1>12 DEF Send
<1>13. ASSUME NEW s \in Senders, Acknowledged(s)
      PROVE  OneBodyPerDelivery'
  BY <1>13 DEF Acknowledged, IsAcknowledgement
<1>14. ASSUME NEW s \in Senders, Refused(s)
      PROVE  OneBodyPerDelivery'
  BY <1>14 DEF Refused
<1>15. ASSUME NEW s \in Senders, TimedOut(s)
      PROVE  OneBodyPerDelivery'
  BY <1>15 DEF TimedOut
<1>16. ASSUME NEW s \in Senders, Finish(s)
      PROVE  OneBodyPerDelivery'
  BY <1>16 DEF Finish, Idle, Unlock
<1>17. ASSUME NEW s \in Senders, Crash(s)
      PROVE  OneBodyPerDelivery'
  BY <1>17 DEF Crash, Idle, Unlock
<1>18. ASSUME NEW p \in inflight, ServerAccepts(p)
      PROVE  OneBodyPerDelivery'
  BY <1>18 DEF ServerAccepts, AnswerTo
<1>19. ASSUME NEW p \in inflight, ServerRefuses(p)
      PROVE  OneBodyPerDelivery'
  BY <1>19 DEF ServerRefuses, AnswerTo
<1>20. ASSUME NEW p \in inflight, RequestLost(p)
      PROVE  OneBodyPerDelivery'
  BY <1>20 DEF RequestLost
<1>21. CASE UNCHANGED vars
  BY <1>21 DEF vars
<1> HIDE DEF vars, rowVars, enqVars, EndEnqueue, senderVars, netVars, TypeOK, Payloads,
    BodyInv, OneBodyPerDelivery, Fail, Ready, NextRow
<1>22. QED
  BY <1>0, <1>1, <1>2, <1>3, <1>4, <1>5, <1>6, <1>7, <1>8, <1>9, <1>10, <1>11, <1>12, <1>13, <1>14,
     <1>15, <1>16, <1>17, <1>18, <1>19, <1>20, <1>21 DEF Next, SenderStep

\* Every step keeps delivered rows backed by a recorded run.
LEMMA DeliveredPreserved ==
  ASSUME TypeOK, BodyInv, ReplyInv, OneBodyPerDelivery, DeliveredWasRecorded, [Next]_vars
  PROVE  DeliveredWasRecorded'
<1> USE OutboxAssumption DEF vars, rowVars, enqVars, EndEnqueue, senderVars, netVars,
    TypeOK, Payloads, BodyInv, ReplyInv, OneBodyPerDelivery, DeliveredWasRecorded, Fail,
    Ready, NextRow
<1>1. ASSUME NEW e \in Enqueuers, NEW d \in Deliveries, EnqueueCheck(e, d)
      PROVE  DeliveredWasRecorded'
  BY <1>1 DEF EnqueueCheck
<1>0. ASSUME NEW e \in Enqueuers, Stamp(e)
      PROVE  DeliveredWasRecorded'
  BY <1>0 DEF Stamp
<1>2. ASSUME NEW e \in Enqueuers, EnqueueInsert(e)
      PROVE  DeliveredWasRecorded'
  BY <1>2 DEF EnqueueInsert
<1>3. ASSUME NEW e \in Enqueuers, EnqueueCrash(e)
      PROVE  DeliveredWasRecorded'
  BY <1>3 DEF EnqueueCrash
<1>4. ASSUME NEW d \in Deliveries, Quarantine(d)
      PROVE  DeliveredWasRecorded'
  BY <1>4 DEF Quarantine
<1>5. ASSUME NEW d \in Deliveries, BackoffExpires(d)
      PROVE  DeliveredWasRecorded'
  BY <1>5 DEF BackoffExpires
<1>6. ASSUME NEW s \in Senders, NEW d \in Deliveries, NEW res \in BOOLEAN, RetryStart(s,
            Destination[d], res)
      PROVE  DeliveredWasRecorded'
  BY <1>6 DEF RetryStart, Locked, Snapshot
<1>7. ASSUME NEW s \in Senders, SkipLane(s)
      PROVE  DeliveredWasRecorded'
  BY <1>7 DEF SkipLane
<1>8. ASSUME NEW s \in Senders, Defer(s)
      PROVE  DeliveredWasRecorded'
  BY <1>8 DEF Defer
<1>9. ASSUME NEW s \in Senders, Reuse(s)
      PROVE  DeliveredWasRecorded'
  BY <1>9 DEF Reuse, Unprepared
<1>10. ASSUME NEW s \in Senders, Prepare(s)
      PROVE  DeliveredWasRecorded'
  BY <1>10 DEF Prepare, Unprepared, Commit
<1>11. ASSUME NEW s \in Senders, NEW b \in BOOLEAN, PrepareFails(s, b)
      PROVE  DeliveredWasRecorded'
  BY <1>11 DEF PrepareFails
<1>12. ASSUME NEW s \in Senders, Send(s)
      PROVE  DeliveredWasRecorded'
  BY <1>12 DEF Send
<1>13. ASSUME NEW s \in Senders, Acknowledged(s)
      PROVE  DeliveredWasRecorded'
  BY <1>13 DEF Acknowledged, IsAcknowledgement
<1>14. ASSUME NEW s \in Senders, Refused(s)
      PROVE  DeliveredWasRecorded'
  BY <1>14 DEF Refused
<1>15. ASSUME NEW s \in Senders, TimedOut(s)
      PROVE  DeliveredWasRecorded'
  BY <1>15 DEF TimedOut
<1>16. ASSUME NEW s \in Senders, Finish(s)
      PROVE  DeliveredWasRecorded'
  BY <1>16 DEF Finish, Idle, Unlock
<1>17. ASSUME NEW s \in Senders, Crash(s)
      PROVE  DeliveredWasRecorded'
  BY <1>17 DEF Crash, Idle, Unlock
<1>18. ASSUME NEW p \in inflight, ServerAccepts(p)
      PROVE  DeliveredWasRecorded'
  BY <1>18 DEF ServerAccepts, AnswerTo
<1>19. ASSUME NEW p \in inflight, ServerRefuses(p)
      PROVE  DeliveredWasRecorded'
  BY <1>19 DEF ServerRefuses, AnswerTo
<1>20. ASSUME NEW p \in inflight, RequestLost(p)
      PROVE  DeliveredWasRecorded'
  BY <1>20 DEF RequestLost
<1>21. CASE UNCHANGED vars
  BY <1>21 DEF vars
<1> HIDE DEF vars, rowVars, enqVars, EndEnqueue, senderVars, netVars, TypeOK, Payloads,
    BodyInv, ReplyInv, OneBodyPerDelivery, DeliveredWasRecorded, Fail, Ready, NextRow
<1>22. QED
  BY <1>0, <1>1, <1>2, <1>3, <1>4, <1>5, <1>6, <1>7, <1>8, <1>9, <1>10, <1>11, <1>12, <1>13, <1>14,
     <1>15, <1>16, <1>17, <1>18, <1>19, <1>20, <1>21 DEF Next, SenderStep

\* Every step keeps a sender behind the rows of its lane enqueued before.
LEMMA HeadOfLinePreserved ==
  ASSUME TypeOK, LockInv, OrderInv, TodoInv, BodyInv, HeadOfLine, [Next]_vars
  PROVE  HeadOfLine'
<1> USE OutboxAssumption DEF vars, rowVars, enqVars, EndEnqueue, senderVars, netVars,
    TypeOK, RowStates, LockInv, OrderInv, TodoInv, BodyInv, HeadOfLine, Stored, Settled,
    SameLane, Fail, Ready, NextRow
<1>1. ASSUME NEW e \in Enqueuers, NEW d \in Deliveries, EnqueueCheck(e, d)
      PROVE  HeadOfLine'
  BY <1>1 DEF EnqueueCheck
<1>0. ASSUME NEW e \in Enqueuers, Stamp(e)
      PROVE  HeadOfLine'
  BY <1>0 DEF Stamp
<1>2. ASSUME NEW e \in Enqueuers, EnqueueInsert(e)
      PROVE  HeadOfLine'
  <2> SUFFICES ASSUME NEW s \in Senders, pc[s] \in {"send", "await"},
                      NEW d \in Deliveries, state'[d] # "absent", SameLane(d, cur[s]),
                      d \in earlier'[cur[s]]
               PROVE  Settled(d)'
    BY <1>2 DEF EnqueueInsert
  <2>1. cur[s] \in Deliveries /\ state[cur[s]] # "absent"
    OBVIOUS
  <2>2. earlier'[cur[s]] = earlier[cur[s]] /\ d \in Stored
    BY <1>2, <2>1 DEF EnqueueInsert
  <2>3. state'[d] = state[d]
    BY <1>2, <2>1, <2>2 DEF EnqueueInsert
  <2>4. QED  BY <2>1, <2>2, <2>3
<1>3. ASSUME NEW e \in Enqueuers, EnqueueCrash(e)
      PROVE  HeadOfLine'
  BY <1>3 DEF EnqueueCrash
<1>4. ASSUME NEW d \in Deliveries, Quarantine(d)
      PROVE  HeadOfLine'
  BY <1>4 DEF Quarantine
<1>5. ASSUME NEW d \in Deliveries, BackoffExpires(d)
      PROVE  HeadOfLine'
  BY <1>5 DEF BackoffExpires
<1>6. ASSUME NEW s \in Senders, NEW d \in Deliveries, NEW res \in BOOLEAN, RetryStart(s,
            Destination[d], res)
      PROVE  HeadOfLine'
  BY <1>6 DEF RetryStart, Locked, Snapshot
<1>7. ASSUME NEW s \in Senders, SkipLane(s)
      PROVE  HeadOfLine'
  BY <1>7 DEF SkipLane
<1>8. ASSUME NEW s \in Senders, Defer(s)
      PROVE  HeadOfLine'
  BY <1>8 DEF Defer
<1>9. ASSUME NEW s \in Senders, Reuse(s)
      PROVE  HeadOfLine'
  BY <1>9 DEF Reuse, Unprepared
<1>10. ASSUME NEW s \in Senders, Prepare(s)
      PROVE  HeadOfLine'
  <2>1. PICK d \in todo[s] : /\ Ready(s, d)
                             /\ cur' = [cur EXCEPT ![s] = d]
                             /\ pc' = [pc EXCEPT ![s] = "send"]
                             /\ UNCHANGED <<state, earlier>>
    BY <1>10 DEF Prepare
  <2>2. \A x \in Stored : SameLane(x, d) /\ x \in earlier[d] => Settled(x)
    <3> SUFFICES ASSUME NEW x \in Stored, SameLane(x, d), x \in earlier[d], ~Settled(x)
                 PROVE  FALSE
      OBVIOUS
    <3>1. x \in todo[s] \/ Scanner[x] \in lanes[s]
      BY <2>1
    <3>2. created[x] < created[d] /\ created[d] \in Nat /\ created[x] \in Nat
      BY <2>1
    <3>3. QED  BY <2>1, <3>1, <3>2
  <2>3. QED
    <3> HIDE DEF Ready, NextRow, OrderInv, TodoInv, BodyInv, Fail, Settled, SameLane
    <3>1. d \in Deliveries  BY <2>1
    <3>2. \A x \in Deliveries : Settled(x)' = Settled(x)
      BY <2>1 DEF Settled
    <3>3. \A x, y \in Deliveries : SameLane(x, y)' = SameLane(x, y)
      BY DEF SameLane
    <3>4. QED  BY <2>1, <2>2, <3>1, <3>2, <3>3
<1>11. ASSUME NEW s \in Senders, NEW b \in BOOLEAN, PrepareFails(s, b)
      PROVE  HeadOfLine'
  BY <1>11 DEF PrepareFails
<1>12. ASSUME NEW s \in Senders, Send(s)
      PROVE  HeadOfLine'
  BY <1>12 DEF Send
<1>13. ASSUME NEW s \in Senders, Acknowledged(s)
      PROVE  HeadOfLine'
  BY <1>13 DEF Acknowledged, IsAcknowledgement
<1>14. ASSUME NEW s \in Senders, Refused(s)
      PROVE  HeadOfLine'
  BY <1>14 DEF Refused
<1>15. ASSUME NEW s \in Senders, TimedOut(s)
      PROVE  HeadOfLine'
  BY <1>15 DEF TimedOut
<1>16. ASSUME NEW s \in Senders, Finish(s)
      PROVE  HeadOfLine'
  BY <1>16 DEF Finish, Idle, Unlock
<1>17. ASSUME NEW s \in Senders, Crash(s)
      PROVE  HeadOfLine'
  BY <1>17 DEF Crash, Idle, Unlock
<1>18. ASSUME NEW p \in inflight, ServerAccepts(p)
      PROVE  HeadOfLine'
  BY <1>18 DEF ServerAccepts, AnswerTo
<1>19. ASSUME NEW p \in inflight, ServerRefuses(p)
      PROVE  HeadOfLine'
  BY <1>19 DEF ServerRefuses, AnswerTo
<1>20. ASSUME NEW p \in inflight, RequestLost(p)
      PROVE  HeadOfLine'
  BY <1>20 DEF RequestLost
<1>21. CASE UNCHANGED vars
  BY <1>21 DEF vars
<1> HIDE DEF vars, rowVars, enqVars, EndEnqueue, senderVars, netVars, TypeOK, RowStates,
    LockInv, OrderInv, TodoInv, BodyInv, HeadOfLine, Stored, Settled, SameLane, Fail, Ready,
    NextRow
<1>22. QED
  BY <1>0, <1>1, <1>2, <1>3, <1>4, <1>5, <1>6, <1>7, <1>8, <1>9, <1>10, <1>11, <1>12, <1>13, <1>14,
     <1>15, <1>16, <1>17, <1>18, <1>19, <1>20, <1>21 DEF Next, SenderStep

\* Every step keeps the rest of a snapshot complete: an unsettled row of
\* a lane enqueued before is still to be looked at, or has blocked the lane.
LEMMA TodoPreserved ==
  ASSUME TypeOK, LockInv, OrderInv, BodyInv, TodoInv, [Next]_vars
  PROVE  TodoInv'
<1> USE OutboxAssumption DEF vars, rowVars, enqVars, EndEnqueue, senderVars, netVars,
    TypeOK, RowStates, LockInv, OrderInv, TodoInv, BodyInv, Stored, SameLane, Fail, Block,
    Ready, NextRow, Snapshot
<1>1. ASSUME NEW e \in Enqueuers, NEW d \in Deliveries, EnqueueCheck(e, d)
      PROVE  TodoInv'
  BY <1>1 DEF EnqueueCheck
<1>0. ASSUME NEW e \in Enqueuers, Stamp(e)
      PROVE  TodoInv'
  BY <1>0 DEF Stamp
<1>2. ASSUME NEW e \in Enqueuers, EnqueueInsert(e)
      PROVE  TodoInv'
  <2>1. CASE UNCHANGED rowVars
    BY <1>2, <2>1 DEF EnqueueInsert
  <2>2. CASE state[checked[e]] = "absent"
    <3>1. /\ state' = [state EXCEPT ![checked[e]] = "pending"]
          /\ earlier' = [earlier EXCEPT ![checked[e]] = saw[e]]
          /\ UNCHANGED <<todo, lanes>>
          /\ checked[e] \in Deliveries
      BY <1>2, <2>2 DEF EnqueueInsert
    <3>2. ASSUME NEW s \in Senders, NEW t \in todo[s]
          PROVE  t # checked[e] /\ checked[e] \notin earlier[t]
      <4>1. t \in Deliveries /\ state[t] # "absent"
        BY <3>2
      <4>2. \A x \in earlier[t] : state[x] # "absent"
        BY <4>1
      <4>3. QED  BY <2>2, <4>1, <4>2
    <3>3. QED  BY <3>1, <3>2
  <2>3. QED  BY <1>2, <2>1, <2>2 DEF EnqueueInsert
<1>3. ASSUME NEW e \in Enqueuers, EnqueueCrash(e)
      PROVE  TodoInv'
  BY <1>3 DEF EnqueueCrash
<1>4. ASSUME NEW d \in Deliveries, Quarantine(d)
      PROVE  TodoInv'
  BY <1>4 DEF Quarantine
<1>5. ASSUME NEW d \in Deliveries, BackoffExpires(d)
      PROVE  TodoInv'
  BY <1>5 DEF BackoffExpires
<1>6. ASSUME NEW s \in Senders, NEW d \in Deliveries, NEW res \in BOOLEAN, RetryStart(s,
            Destination[d], res)
      PROVE  TodoInv'
  BY <1>6 DEF RetryStart, Locked
<1>7. ASSUME NEW s \in Senders, SkipLane(s)
      PROVE  TodoInv'
  BY <1>7 DEF SkipLane
<1>8. ASSUME NEW s \in Senders, Defer(s)
      PROVE  TodoInv'
  BY <1>8 DEF Defer
<1>9. ASSUME NEW s \in Senders, Reuse(s)
      PROVE  TodoInv'
  BY <1>9 DEF Reuse, Unprepared
<1>10. ASSUME NEW s \in Senders, Prepare(s)
      PROVE  TodoInv'
  BY <1>10 DEF Prepare, Unprepared, Commit
<1>11. ASSUME NEW s \in Senders, NEW b \in BOOLEAN, PrepareFails(s, b)
      PROVE  TodoInv'
  BY <1>11 DEF PrepareFails
<1>12. ASSUME NEW s \in Senders, Send(s)
      PROVE  TodoInv'
  BY <1>12 DEF Send
<1>13. ASSUME NEW s \in Senders, Acknowledged(s)
      PROVE  TodoInv'
  BY <1>13 DEF Acknowledged, IsAcknowledgement
<1>14. ASSUME NEW s \in Senders, Refused(s)
      PROVE  TodoInv'
  BY <1>14 DEF Refused
<1>15. ASSUME NEW s \in Senders, TimedOut(s)
      PROVE  TodoInv'
  BY <1>15 DEF TimedOut
<1>16. ASSUME NEW s \in Senders, Finish(s)
      PROVE  TodoInv'
  BY <1>16 DEF Finish, Idle, Unlock
<1>17. ASSUME NEW s \in Senders, Crash(s)
      PROVE  TodoInv'
  BY <1>17 DEF Crash, Idle, Unlock
<1>18. ASSUME NEW p \in inflight, ServerAccepts(p)
      PROVE  TodoInv'
  BY <1>18 DEF ServerAccepts, AnswerTo
<1>19. ASSUME NEW p \in inflight, ServerRefuses(p)
      PROVE  TodoInv'
  BY <1>19 DEF ServerRefuses, AnswerTo
<1>20. ASSUME NEW p \in inflight, RequestLost(p)
      PROVE  TodoInv'
  BY <1>20 DEF RequestLost
<1>21. CASE UNCHANGED vars
  BY <1>21 DEF vars
<1> HIDE DEF vars, rowVars, enqVars, EndEnqueue, senderVars, netVars, TypeOK, RowStates,
    LockInv, OrderInv, TodoInv, BodyInv, Stored, SameLane, Fail, Ready, NextRow, Snapshot
<1>22. QED
  BY <1>0, <1>1, <1>2, <1>3, <1>4, <1>5, <1>6, <1>7, <1>8, <1>9, <1>10, <1>11, <1>12, <1>13, <1>14,
     <1>15, <1>16, <1>17, <1>18, <1>19, <1>20, <1>21 DEF Next, SenderStep

-----------------------------------------------------------------------------
\* The queue starts empty.
LEMMA InitIInv == Init => IInv
BY OutboxAssumption DEF Init, IInv, TypeOK, LockInv, OrderInv, TodoInv, BodyInv,
   ReplyInv, OneBodyPerDelivery, DeliveredWasRecorded, HeadOfLine, RowStates, Replies

\* IInv is inductive.
THEOREM Invariance == Spec => []IInv
<1>1. IInv /\ [Next]_vars => IInv'
  BY TypePreserved, LockPreserved, OrderPreserved, TodoPreserved, BodyPreserved,
     ReplyPreserved, OneBodyPreserved, DeliveredPreserved, HeadOfLinePreserved
     DEF IInv
<1>2. QED  BY InitIInv, <1>1, PTL DEF Spec

\* Types are kept.
THEOREM TypeCorrect == Spec => []TypeOK
<1>1. IInv => TypeOK  BY DEF IInv
<1>2. QED  BY <1>1, Invariance, PTL

\* Whatever crashes, is lost or is rebound, the service sees one body per delivery.
THEOREM OneBody == Spec => []OneBodyPerDelivery
<1>1. IInv => OneBodyPerDelivery  BY DEF IInv
<1>2. QED  BY <1>1, Invariance, PTL

\* A delivered row stands for a recorded run.
THEOREM DeliveredRecorded == Spec => []DeliveredWasRecorded
<1>1. IInv => DeliveredWasRecorded  BY DEF IInv
<1>2. QED  BY <1>1, Invariance, PTL

\* The snapshots of a scanner whose enqueues did not overlap are submitted in
\* the order they were enqueued.
THEOREM InOrder == Spec => []HeadOfLine
<1>1. IInv => HeadOfLine  BY DEF IInv
<1>2. QED  BY <1>1, Invariance, PTL

-----------------------------------------------------------------------------
\* A step never changes a committed body or a delivered row.
LEMMA StepCommits ==
  ASSUME IInv, [Next]_vars
  PROVE  \A x \in Deliveries :
           /\ payload[x] # None => payload'[x] = payload[x]
           /\ state[x] = "delivered" => state'[x] = "delivered"
<1> USE OutboxAssumption DEF vars, rowVars, enqVars, EndEnqueue, senderVars, netVars, IInv,
    TypeOK, TodoInv, BodyInv, Fail, Ready, NextRow
<1>1. ASSUME NEW e \in Enqueuers, NEW d \in Deliveries, EnqueueCheck(e, d)
      PROVE  \A x \in Deliveries :
           /\ payload[x] # None => payload'[x] = payload[x]
           /\ state[x] = "delivered" => state'[x] = "delivered"
  BY <1>1 DEF EnqueueCheck
<1>0. ASSUME NEW e \in Enqueuers, Stamp(e)
      PROVE  \A x \in Deliveries :
           /\ payload[x] # None => payload'[x] = payload[x]
           /\ state[x] = "delivered" => state'[x] = "delivered"
  BY <1>0 DEF Stamp
<1>2. ASSUME NEW e \in Enqueuers, EnqueueInsert(e)
      PROVE  \A x \in Deliveries :
           /\ payload[x] # None => payload'[x] = payload[x]
           /\ state[x] = "delivered" => state'[x] = "delivered"
  BY <1>2 DEF EnqueueInsert
<1>3. ASSUME NEW e \in Enqueuers, EnqueueCrash(e)
      PROVE  \A x \in Deliveries :
           /\ payload[x] # None => payload'[x] = payload[x]
           /\ state[x] = "delivered" => state'[x] = "delivered"
  BY <1>3 DEF EnqueueCrash
<1>4. ASSUME NEW d \in Deliveries, Quarantine(d)
      PROVE  \A x \in Deliveries :
           /\ payload[x] # None => payload'[x] = payload[x]
           /\ state[x] = "delivered" => state'[x] = "delivered"
  BY <1>4 DEF Quarantine
<1>5. ASSUME NEW d \in Deliveries, BackoffExpires(d)
      PROVE  \A x \in Deliveries :
           /\ payload[x] # None => payload'[x] = payload[x]
           /\ state[x] = "delivered" => state'[x] = "delivered"
  BY <1>5 DEF BackoffExpires
<1>6. ASSUME NEW s \in Senders, NEW d \in Deliveries, NEW res \in BOOLEAN, RetryStart(s,
            Destination[d], res)
      PROVE  \A x \in Deliveries :
           /\ payload[x] # None => payload'[x] = payload[x]
           /\ state[x] = "delivered" => state'[x] = "delivered"
  BY <1>6 DEF RetryStart, Locked, Snapshot
<1>7. ASSUME NEW s \in Senders, SkipLane(s)
      PROVE  \A x \in Deliveries :
           /\ payload[x] # None => payload'[x] = payload[x]
           /\ state[x] = "delivered" => state'[x] = "delivered"
  BY <1>7 DEF SkipLane
<1>8. ASSUME NEW s \in Senders, Defer(s)
      PROVE  \A x \in Deliveries :
           /\ payload[x] # None => payload'[x] = payload[x]
           /\ state[x] = "delivered" => state'[x] = "delivered"
  BY <1>8 DEF Defer
<1>9. ASSUME NEW s \in Senders, Reuse(s)
      PROVE  \A x \in Deliveries :
           /\ payload[x] # None => payload'[x] = payload[x]
           /\ state[x] = "delivered" => state'[x] = "delivered"
  BY <1>9 DEF Reuse, Unprepared
<1>10. ASSUME NEW s \in Senders, Prepare(s)
      PROVE  \A x \in Deliveries :
           /\ payload[x] # None => payload'[x] = payload[x]
           /\ state[x] = "delivered" => state'[x] = "delivered"
  BY <1>10 DEF Prepare, Unprepared, Commit
<1>11. ASSUME NEW s \in Senders, NEW b \in BOOLEAN, PrepareFails(s, b)
      PROVE  \A x \in Deliveries :
           /\ payload[x] # None => payload'[x] = payload[x]
           /\ state[x] = "delivered" => state'[x] = "delivered"
  <2>1. PICK d \in todo[s] : Ready(s, d) /\ Fail(s, d, b)
    BY <1>11 DEF PrepareFails
  <2>2. d \in Deliveries /\ state[d] # "delivered"
    BY <2>1
  <2>3. QED  BY <2>1, <2>2
<1>12. ASSUME NEW s \in Senders, Send(s)
      PROVE  \A x \in Deliveries :
           /\ payload[x] # None => payload'[x] = payload[x]
           /\ state[x] = "delivered" => state'[x] = "delivered"
  BY <1>12 DEF Send
<1>13. ASSUME NEW s \in Senders, Acknowledged(s)
      PROVE  \A x \in Deliveries :
           /\ payload[x] # None => payload'[x] = payload[x]
           /\ state[x] = "delivered" => state'[x] = "delivered"
  BY <1>13 DEF Acknowledged, IsAcknowledgement
<1>14. ASSUME NEW s \in Senders, Refused(s)
      PROVE  \A x \in Deliveries :
           /\ payload[x] # None => payload'[x] = payload[x]
           /\ state[x] = "delivered" => state'[x] = "delivered"
  BY <1>14 DEF Refused
<1>15. ASSUME NEW s \in Senders, TimedOut(s)
      PROVE  \A x \in Deliveries :
           /\ payload[x] # None => payload'[x] = payload[x]
           /\ state[x] = "delivered" => state'[x] = "delivered"
  BY <1>15 DEF TimedOut
<1>16. ASSUME NEW s \in Senders, Finish(s)
      PROVE  \A x \in Deliveries :
           /\ payload[x] # None => payload'[x] = payload[x]
           /\ state[x] = "delivered" => state'[x] = "delivered"
  BY <1>16 DEF Finish, Idle, Unlock
<1>17. ASSUME NEW s \in Senders, Crash(s)
      PROVE  \A x \in Deliveries :
           /\ payload[x] # None => payload'[x] = payload[x]
           /\ state[x] = "delivered" => state'[x] = "delivered"
  BY <1>17 DEF Crash, Idle, Unlock
<1>18. ASSUME NEW p \in inflight, ServerAccepts(p)
      PROVE  \A x \in Deliveries :
           /\ payload[x] # None => payload'[x] = payload[x]
           /\ state[x] = "delivered" => state'[x] = "delivered"
  BY <1>18 DEF ServerAccepts, AnswerTo
<1>19. ASSUME NEW p \in inflight, ServerRefuses(p)
      PROVE  \A x \in Deliveries :
           /\ payload[x] # None => payload'[x] = payload[x]
           /\ state[x] = "delivered" => state'[x] = "delivered"
  BY <1>19 DEF ServerRefuses, AnswerTo
<1>20. ASSUME NEW p \in inflight, RequestLost(p)
      PROVE  \A x \in Deliveries :
           /\ payload[x] # None => payload'[x] = payload[x]
           /\ state[x] = "delivered" => state'[x] = "delivered"
  BY <1>20 DEF RequestLost
<1>21. CASE UNCHANGED vars
  BY <1>21 DEF vars
<1> HIDE DEF vars, rowVars, enqVars, EndEnqueue, senderVars, netVars, IInv, TypeOK, TodoInv,
    BodyInv, Fail, Ready, NextRow
<1>22. QED
  BY <1>0, <1>1, <1>2, <1>3, <1>4, <1>5, <1>6, <1>7, <1>8, <1>9, <1>10, <1>11, <1>12, <1>13, <1>14,
     <1>15, <1>16, <1>17, <1>18, <1>19, <1>20, <1>21 DEF Next, SenderStep

\* Committed bodies and delivered rows are final.
THEOREM Committed == Spec => CommittedForGood
<1>1. IInv /\ [Next]_vars =>
        [\A d \in Deliveries :
           /\ payload[d] # None => payload'[d] = payload[d]
           /\ state[d] = "delivered" => state'[d] = "delivered"]_vars
  BY StepCommits
<1>2. QED  BY <1>1, Invariance, PTL DEF Spec, CommittedForGood

-----------------------------------------------------------------------------
\* A row that is dealt with shortens what a sender has left to do.
LEMMA RowIsDone ==
  ASSUME TypeOK, NEW s \in Senders, NEW d \in todo[s],
         todo' = [todo EXCEPT ![s] = @ \ {d}], pc[s] \in {"scan", "await"}, pc'[s] = "scan"
  PROVE  Remaining(s)' < Remaining(s)
<1>1. /\ IsFiniteSet(todo[s])
      /\ todo'[s] = todo[s] \ {d}
  BY OutboxAssumption, FS_Subset DEF TypeOK
<1>2. /\ Cardinality(todo[s]) \in Nat
      /\ Cardinality(todo'[s]) = Cardinality(todo[s]) - 1
  BY <1>1, FS_RemoveElement, FS_CardinalityType
<1>3. Remaining(s)' = 3 * (Cardinality(todo[s]) - 1)
  BY <1>2 DEF Remaining
<1>4. Remaining(s) \in Int /\ Remaining(s) >= 3 * Cardinality(todo[s]) - 2
  BY <1>2 DEF Remaining
<1>5. QED  BY <1>2, <1>3, <1>4

\* So does each step that takes a row in hand.
LEMMA RowIsTaken ==
  ASSUME TypeOK, NEW s \in Senders, todo'[s] = todo[s],
         \/ pc[s] = "scan" /\ pc'[s] = "send"
         \/ pc[s] = "send" /\ pc'[s] = "await"
  PROVE  Remaining(s)' < Remaining(s)
<1>1. Cardinality(todo[s]) \in Nat
  BY OutboxAssumption, FS_Subset, FS_CardinalityType DEF TypeOK
<1>2. QED  BY <1>1 DEF Remaining

LEMMA StepAdvances ==
  ASSUME IInv, [Next]_vars, NEW s \in Senders, holder = s, holder' = s
  PROVE  \/ Remaining(s)' < Remaining(s)
         \/ pc'[s] = pc[s] /\ todo'[s] = todo[s] /\ cur'[s] = cur[s]
<1> DEFINE Same == pc'[s] = pc[s] /\ todo'[s] = todo[s] /\ cur'[s] = cur[s]
           Less == Remaining(s)' < Remaining(s)
<1> USE OutboxAssumption DEF vars, rowVars, enqVars, EndEnqueue, senderVars, netVars
<1>0. TypeOK /\ LockInv /\ BodyInv /\ s # None  BY DEF IInv
<1>a. \A t \in Senders : pc[t] # "idle" => t = s  BY <1>0 DEF LockInv
<1>1. ASSUME NEW e \in Enqueuers, NEW d \in Deliveries, EnqueueCheck(e, d)
      PROVE  Same
  BY <1>1 DEF EnqueueCheck
<1>2. ASSUME NEW e \in Enqueuers, Stamp(e) \/ EnqueueInsert(e) \/ EnqueueCrash(e)
      PROVE  Same
  BY <1>2 DEF Stamp, EnqueueInsert, EnqueueCrash
<1>3. ASSUME NEW d \in Deliveries, Quarantine(d) \/ BackoffExpires(d)
      PROVE  Same
  BY <1>3 DEF Quarantine, BackoffExpires
<1>4. ASSUME NEW t \in Senders, NEW d \in Deliveries, NEW res \in BOOLEAN,
             RetryStart(t, Destination[d], res)
      PROVE  FALSE
  BY <1>0, <1>4 DEF RetryStart, Locked
<1>5. ASSUME NEW t \in Senders, SkipLane(t) \/ Defer(t)
      PROVE  Less
  <2>1. t = s  BY <1>5, <1>a DEF SkipLane, Defer, NextRow
  <2>2. PICK d \in todo[s] : /\ todo' = [todo EXCEPT ![s] = @ \ {d}]
                             /\ pc[s] = "scan" /\ pc' = pc
    BY <1>5, <2>1 DEF SkipLane, Defer, NextRow
  <2>3. QED  BY <2>2, <1>0, RowIsDone
<1>6. ASSUME NEW t \in Senders, Reuse(t) \/ Prepare(t)
      PROVE  Less
  <2>1. t = s  BY <1>6, <1>a DEF Reuse, Prepare, Ready, NextRow
  <2>2. pc[s] = "scan" /\ pc' = [pc EXCEPT ![s] = "send"] /\ todo' = todo
    BY <1>6, <2>1 DEF Reuse, Prepare, Ready, NextRow
  <2>3. pc'[s] = "send"  BY <2>2, <1>0 DEF TypeOK
  <2>4. QED  BY <2>2, <2>3, <1>0, RowIsTaken
<1>7. ASSUME NEW t \in Senders, NEW b \in BOOLEAN, PrepareFails(t, b)
      PROVE  Less
  <2>1. t = s  BY <1>7, <1>a DEF PrepareFails, Ready, NextRow
  <2>2. PICK d \in todo[s] : /\ todo' = [todo EXCEPT ![s] = @ \ {d}]
                             /\ pc[s] = "scan" /\ pc' = [pc EXCEPT ![s] = "scan"]
    BY <1>7, <2>1 DEF PrepareFails, Ready, NextRow, Fail
  <2>3. pc'[s] = "scan"  BY <2>2, <1>0 DEF TypeOK
  <2>4. QED  BY <2>2, <2>3, <1>0, RowIsDone
<1>8. ASSUME NEW t \in Senders, Send(t)
      PROVE  Less
  <2>1. t = s  BY <1>8, <1>a DEF Send
  <2>2. pc[s] = "send" /\ pc' = [pc EXCEPT ![s] = "await"] /\ todo' = todo
    BY <1>8, <2>1 DEF Send
  <2>3. pc'[s] = "await"  BY <2>2, <1>0 DEF TypeOK
  <2>4. QED  BY <2>2, <2>3, <1>0, RowIsTaken
<1>9. ASSUME NEW t \in Senders, Acknowledged(t) \/ Refused(t) \/ TimedOut(t)
      PROVE  Less
  <2>1. t = s  BY <1>9, <1>a DEF Acknowledged, Refused, TimedOut
  <2>2. /\ todo' = [todo EXCEPT ![s] = @ \ {cur[s]}]
        /\ pc[s] = "await" /\ pc' = [pc EXCEPT ![s] = "scan"]
    BY <1>9, <2>1 DEF Acknowledged, Refused, TimedOut, Fail
  <2>3. pc'[s] = "scan" /\ cur[s] \in todo[s]  BY <2>2, <1>0 DEF TypeOK, BodyInv
  <2>4. QED  BY <2>2, <2>3, <1>0, RowIsDone
<1>10. ASSUME NEW t \in Senders, Finish(t) \/ Crash(t)
       PROVE  FALSE
  <2>1. t = s  BY <1>10, <1>a DEF Finish, Crash
  <2>2. holder' = None  BY <1>10, <2>1 DEF Finish, Crash, Idle, Unlock
  <2>3. QED  BY <2>2, <1>0
<1>11. ASSUME NEW p \in inflight, ServerAccepts(p) \/ ServerRefuses(p) \/ RequestLost(p)
       PROVE  Same
  BY <1>11 DEF ServerAccepts, ServerRefuses, RequestLost
<1>12. ASSUME UNCHANGED vars
       PROVE  Same
  BY <1>12
<1> HIDE DEF vars, rowVars, enqVars, EndEnqueue, senderVars, netVars, Same, Less
<1>13. Less \/ Same
  BY <1>1, <1>2, <1>3, <1>4, <1>5, <1>6, <1>7, <1>8, <1>9, <1>10, <1>11, <1>12 DEF Next,
     SenderStep
<1>14. QED  BY <1>13 DEF Less, Same

\* Every step of the sender that holds the lock brings it nearer to letting it go.
THEOREM Advances == Spec => RetryAdvances
<1>1. IInv /\ [Next]_vars =>
        [\A s \in Senders : holder = s /\ holder' = s =>
           \/ Remaining(s)' < Remaining(s)
           \/ pc'[s] = pc[s] /\ todo'[s] = todo[s] /\ cur'[s] = cur[s]]_vars
  BY StepAdvances
<1>2. QED  BY <1>1, Invariance, PTL DEF Spec, RetryAdvances

-----------------------------------------------------------------------------
\* Each step of the queue fixes a body, records one, reports one, or is invisible
\* to the user and the central service.
LEMMA StepImplements ==
  ASSUME IInv, [Next]_vars
  PROVE  [Promise!Next]_(Promise!vars)
<1> USE OutboxAssumption DEF vars, rowVars, enqVars, EndEnqueue, senderVars, netVars, IInv,
    TypeOK, Payloads, TodoInv, BodyInv, ReplyInv, OneBodyPerDelivery, Fail, Ready, NextRow,
    Promise!vars
<1>1. ASSUME NEW e \in Enqueuers, NEW d \in Deliveries, EnqueueCheck(e, d)
      PROVE  [Promise!Next]_(Promise!vars)
  BY <1>1 DEF EnqueueCheck
<1>0. ASSUME NEW e \in Enqueuers, Stamp(e)
      PROVE  [Promise!Next]_(Promise!vars)
  BY <1>0 DEF Stamp
<1>2. ASSUME NEW e \in Enqueuers, EnqueueInsert(e)
      PROVE  [Promise!Next]_(Promise!vars)
  BY <1>2 DEF EnqueueInsert
<1>3. ASSUME NEW e \in Enqueuers, EnqueueCrash(e)
      PROVE  [Promise!Next]_(Promise!vars)
  BY <1>3 DEF EnqueueCrash
<1>4. ASSUME NEW d \in Deliveries, Quarantine(d)
      PROVE  [Promise!Next]_(Promise!vars)
  BY <1>4 DEF Quarantine
<1>5. ASSUME NEW d \in Deliveries, BackoffExpires(d)
      PROVE  [Promise!Next]_(Promise!vars)
  BY <1>5 DEF BackoffExpires
<1>6. ASSUME NEW s \in Senders, NEW d \in Deliveries, NEW res \in BOOLEAN, RetryStart(s,
            Destination[d], res)
      PROVE  [Promise!Next]_(Promise!vars)
  BY <1>6 DEF RetryStart, Locked, Snapshot
<1>7. ASSUME NEW s \in Senders, SkipLane(s)
      PROVE  [Promise!Next]_(Promise!vars)
  BY <1>7 DEF SkipLane
<1>8. ASSUME NEW s \in Senders, Defer(s)
      PROVE  [Promise!Next]_(Promise!vars)
  BY <1>8 DEF Defer
<1>9. ASSUME NEW s \in Senders, Reuse(s)
      PROVE  [Promise!Next]_(Promise!vars)
  BY <1>9 DEF Reuse, Unprepared
<1>10. ASSUME NEW s \in Senders, Prepare(s)
      PROVE  [Promise!Next]_(Promise!vars)
  <2>1. PICK d \in todo[s], subject \in Subjects :
           /\ payload[d] = None
           /\ payload' = [payload EXCEPT ![d] = <<d, subject>>]
           /\ UNCHANGED <<state, runs>>
    BY <1>10 DEF Prepare, Unprepared, Commit
  <2>2. d \in Deliveries  BY <2>1
  <2>3. Promise!Fix(d, subject)  BY <2>1, <2>2 DEF Promise!Fix
  <2>4. QED  BY <2>2, <2>3 DEF Promise!Next
<1>11. ASSUME NEW s \in Senders, NEW b \in BOOLEAN, PrepareFails(s, b)
      PROVE  [Promise!Next]_(Promise!vars)
  <2>1. PICK d \in todo[s] : Ready(s, d) /\ Fail(s, d, b)
    BY <1>11 DEF PrepareFails
  <2>2. d \in Deliveries /\ state[d] # "delivered"
    BY <2>1
  <2>3. QED  BY <2>1, <2>2 DEF Promise!vars
<1>12. ASSUME NEW s \in Senders, Send(s)
      PROVE  [Promise!Next]_(Promise!vars)
  BY <1>12 DEF Send
<1>13. ASSUME NEW s \in Senders, Acknowledged(s)
      PROVE  [Promise!Next]_(Promise!vars)
  <2>1. PICK d \in Deliveries : d = cur[s] /\ payload[d] \in runs
    BY <1>13 DEF Acknowledged, IsAcknowledgement
  <2>2. {x \in Deliveries : state'[x] = "delivered"}
          = {x \in Deliveries : state[x] = "delivered"} \cup {d}
    BY <1>13, <2>1 DEF Acknowledged, IsAcknowledgement
  <2>3. UNCHANGED <<payload, runs>>
    BY <1>13 DEF Acknowledged, IsAcknowledgement
  <2>4. Promise!Report(d)
    BY <2>1, <2>2, <2>3 DEF Promise!Report
  <2>5. QED  BY <2>1, <2>4 DEF Promise!Next
<1>14. ASSUME NEW s \in Senders, Refused(s)
      PROVE  [Promise!Next]_(Promise!vars)
  <2>1. Fail(s, cur[s], reply[s] # "permanent") /\ cur[s] \in Deliveries
          /\ state[cur[s]] # "delivered"
    BY <1>14 DEF Refused
  <2>2. QED  BY <2>1 DEF Promise!vars
<1>15. ASSUME NEW s \in Senders, TimedOut(s)
      PROVE  [Promise!Next]_(Promise!vars)
  <2>1. Fail(s, cur[s], TRUE) /\ cur[s] \in Deliveries
          /\ state[cur[s]] # "delivered"
    BY <1>15 DEF TimedOut
  <2>2. QED  BY <2>1 DEF Promise!vars
<1>16. ASSUME NEW s \in Senders, Finish(s)
      PROVE  [Promise!Next]_(Promise!vars)
  BY <1>16 DEF Finish, Idle, Unlock
<1>17. ASSUME NEW s \in Senders, Crash(s)
      PROVE  [Promise!Next]_(Promise!vars)
  BY <1>17 DEF Crash, Idle, Unlock
<1>18. ASSUME NEW p \in inflight, ServerAccepts(p)
      PROVE  [Promise!Next]_(Promise!vars)
  <2>1. p[1] \in Deliveries /\ payload[p[1]] = p /\ p # None
    BY OutboxAssumption
  <2>2. runs' = runs \cup {p} /\ UNCHANGED <<payload, state>>
    BY <1>18 DEF ServerAccepts
  <2>3. Promise!Record(p[1])
    BY <2>1, <2>2 DEF Promise!Record
  <2>4. QED  BY <2>1, <2>3 DEF Promise!Next
<1>19. ASSUME NEW p \in inflight, ServerRefuses(p)
      PROVE  [Promise!Next]_(Promise!vars)
  BY <1>19 DEF ServerRefuses, AnswerTo
<1>20. ASSUME NEW p \in inflight, RequestLost(p)
      PROVE  [Promise!Next]_(Promise!vars)
  BY <1>20 DEF RequestLost
<1>21. CASE UNCHANGED vars
  BY <1>21 DEF vars
<1> HIDE DEF vars, rowVars, enqVars, EndEnqueue, senderVars, netVars, IInv, TypeOK,
    Payloads, TodoInv, BodyInv, ReplyInv, OneBodyPerDelivery, Fail, Ready, NextRow,
    Promise!vars
<1>22. QED
  BY <1>0, <1>1, <1>2, <1>3, <1>4, <1>5, <1>6, <1>7, <1>8, <1>9, <1>10, <1>11, <1>12, <1>13, <1>14,
     <1>15, <1>16, <1>17, <1>18, <1>19, <1>20, <1>21 DEF Next, SenderStep

\* The queue implements its promise: Outbox refines Delivery.
THEOREM Refinement == Spec => Implements
<1>1. Init => Promise!Init
  BY DEF Init, Promise!Init
<1>2. IInv /\ [Next]_vars => [Promise!Next]_(Promise!vars)
  BY StepImplements
<1>3. QED  BY <1>1, <1>2, Invariance, PTL DEF Spec, Implements, Promise!Spec


-----------------------------------------------------------------------------
\* A lane is blocked by a row that is stored, not delivered and passed by: no
\* other process delivers it while the sender holds the lock.
LEMMA LanesAfterFail ==
  ASSUME TypeOK, LockInv, OrderInv, TodoInv, LanesAreIndependent,
         NEW s \in Senders, NEW d \in todo[s], NEW b \in BOOLEAN, Fail(s, d, b)
  PROVE  LanesAreIndependent'
<1> USE DEF TypeOK, Fail, Block
<1>1. SUFFICES ASSUME NEW t \in Senders, NEW n \in lanes'[t]
               PROVE  \E x \in Deliveries : Scanner[x] = n /\ x \notin todo'[t]
                        /\ state'[x] # "delivered" /\ created'[x] > 0
  BY DEF LanesAreIndependent
<1>2. d \in Deliveries /\ created'[d] > 0 /\ state'[d] # "delivered"
  BY DEF TodoInv, OrderInv
<1>3. CASE t = s /\ n = Scanner[d]
  <2>1. d \notin todo'[t]
    BY <1>3
  <2>2. QED  BY <1>2, <1>3, <2>1
<1>4. CASE ~(t = s /\ n = Scanner[d])
  <2>1. n \in lanes[t]
    BY <1>1, <1>4
  <2>2. PICK x \in Deliveries : Scanner[x] = n /\ x \notin todo[t]
                                /\ state[x] # "delivered" /\ created[x] > 0
    BY <2>1 DEF LanesAreIndependent
  <2>3. x \notin todo'[t] /\ state'[x] # "delivered" /\ created'[x] > 0
    BY <2>2, <1>2
  <2>4. QED  BY <2>2, <2>3
<1>5. QED  BY <1>3, <1>4

\* Every step keeps each blocked lane explained by such a row.
LEMMA LanesPreserved ==
  ASSUME TypeOK, LockInv, OrderInv, TodoInv, BodyInv, LanesAreIndependent, [Next]_vars
  PROVE  LanesAreIndependent'
<1> USE OutboxAssumption DEF vars, rowVars, enqVars, EndEnqueue, senderVars, netVars,
    TypeOK, LockInv, OrderInv, TodoInv, BodyInv, LanesAreIndependent, Fail, Ready, NextRow
<1>1. ASSUME NEW e \in Enqueuers, NEW d \in Deliveries, EnqueueCheck(e, d)
      PROVE  LanesAreIndependent'
  BY <1>1 DEF EnqueueCheck
<1>0. ASSUME NEW e \in Enqueuers, Stamp(e)
      PROVE  LanesAreIndependent'
  BY <1>0 DEF Stamp
<1>2. ASSUME NEW e \in Enqueuers, EnqueueInsert(e)
      PROVE  LanesAreIndependent'
  <2>1. \A x \in Deliveries : state[x] # "absent" => state'[x] = state[x] /\ created'[x] = created[x]
    BY <1>2 DEF EnqueueInsert
  <2>2. lanes' = lanes /\ todo' = todo
    BY <1>2 DEF EnqueueInsert
  <2>3. \A x \in Deliveries : created[x] > 0 => state[x] # "absent"
    OBVIOUS
  <2>4. QED
    <3> HIDE DEF OrderInv, TodoInv, BodyInv, LockInv, Fail, Ready, NextRow, TypeOK
    <3> QED  BY <2>1, <2>2, <2>3
<1>3. ASSUME NEW e \in Enqueuers, EnqueueCrash(e)
      PROVE  LanesAreIndependent'
  BY <1>3 DEF EnqueueCrash
<1>4. ASSUME NEW d \in Deliveries, Quarantine(d)
      PROVE  LanesAreIndependent'
  BY <1>4 DEF Quarantine
<1>5. ASSUME NEW d \in Deliveries, BackoffExpires(d)
      PROVE  LanesAreIndependent'
  BY <1>5 DEF BackoffExpires
<1>6. ASSUME NEW s \in Senders, NEW d \in Deliveries, NEW res \in BOOLEAN, RetryStart(s,
            Destination[d], res)
      PROVE  LanesAreIndependent'
  BY <1>6 DEF RetryStart, Locked, Snapshot
<1>7. ASSUME NEW s \in Senders, SkipLane(s)
      PROVE  LanesAreIndependent'
  BY <1>7 DEF SkipLane
<1>8. ASSUME NEW s \in Senders, Defer(s)
      PROVE  LanesAreIndependent'
  BY <1>8 DEF Defer
<1>9. ASSUME NEW s \in Senders, Reuse(s)
      PROVE  LanesAreIndependent'
  BY <1>9 DEF Reuse, Unprepared
<1>10. ASSUME NEW s \in Senders, Prepare(s)
      PROVE  LanesAreIndependent'
  BY <1>10 DEF Prepare, Unprepared, Commit
<1>11. ASSUME NEW s \in Senders, NEW b \in BOOLEAN, PrepareFails(s, b)
      PROVE  LanesAreIndependent'
  <2>1. PICK d \in todo[s] : Fail(s, d, b)
    BY <1>11 DEF PrepareFails
  <2>2. QED
    <3> HIDE DEF TypeOK, LockInv, OrderInv, TodoInv, BodyInv, LanesAreIndependent, Fail
    <3> QED  BY <2>1, LanesAfterFail
<1>12. ASSUME NEW s \in Senders, Send(s)
      PROVE  LanesAreIndependent'
  BY <1>12 DEF Send
<1>13. ASSUME NEW s \in Senders, Acknowledged(s)
      PROVE  LanesAreIndependent'
  BY <1>13 DEF Acknowledged, IsAcknowledgement
<1>14. ASSUME NEW s \in Senders, Refused(s)
      PROVE  LanesAreIndependent'
  <2>1. Fail(s, cur[s], reply[s] # "permanent") /\ cur[s] \in todo[s]
    BY <1>14 DEF Refused
  <2>2. QED
    <3> HIDE DEF TypeOK, LockInv, OrderInv, TodoInv, BodyInv, LanesAreIndependent, Fail
    <3> QED  BY <2>1, LanesAfterFail
<1>15. ASSUME NEW s \in Senders, TimedOut(s)
      PROVE  LanesAreIndependent'
  <2>1. Fail(s, cur[s], TRUE) /\ cur[s] \in todo[s]
    BY <1>15 DEF TimedOut
  <2>2. QED
    <3> HIDE DEF TypeOK, LockInv, OrderInv, TodoInv, BodyInv, LanesAreIndependent, Fail
    <3> QED  BY <2>1, LanesAfterFail
<1>16. ASSUME NEW s \in Senders, Finish(s)
      PROVE  LanesAreIndependent'
  BY <1>16 DEF Finish, Idle, Unlock
<1>17. ASSUME NEW s \in Senders, Crash(s)
      PROVE  LanesAreIndependent'
  BY <1>17 DEF Crash, Idle, Unlock
<1>18. ASSUME NEW p \in inflight, ServerAccepts(p)
      PROVE  LanesAreIndependent'
  BY <1>18 DEF ServerAccepts, AnswerTo
<1>19. ASSUME NEW p \in inflight, ServerRefuses(p)
      PROVE  LanesAreIndependent'
  BY <1>19 DEF ServerRefuses, AnswerTo
<1>20. ASSUME NEW p \in inflight, RequestLost(p)
      PROVE  LanesAreIndependent'
  BY <1>20 DEF RequestLost
<1>21. CASE UNCHANGED vars
  BY <1>21 DEF vars
<1> HIDE DEF vars, rowVars, enqVars, EndEnqueue, senderVars, netVars, TypeOK, LockInv,
    OrderInv, TodoInv, BodyInv, LanesAreIndependent, Fail, Ready, NextRow
<1>22. QED
  BY <1>0, <1>1, <1>2, <1>3, <1>4, <1>5, <1>6, <1>7, <1>8, <1>9, <1>10, <1>11, <1>12, <1>13, <1>14,
     <1>15, <1>16, <1>17, <1>18, <1>19, <1>20, <1>21 DEF Next, SenderStep

\* One scanner's trouble never holds up another.
THEOREM Lanes == Spec => []LanesAreIndependent
<1>1. Init => LanesAreIndependent
  BY DEF Init, LanesAreIndependent
<1>2. IInv /\ LanesAreIndependent /\ [Next]_vars => LanesAreIndependent'
  BY LanesPreserved DEF IInv
<1>3. QED  BY <1>1, <1>2, Invariance, PTL DEF Spec

-----------------------------------------------------------------------------
\* Nothing but enqueue() adds a row or an enqueuer that is about to.
LEMMA RoomUntouched ==
  ASSUME TypeOK, BodyInv, TodoInv, [Next]_vars,
         ~ \E e \in Enqueuers, d \in Deliveries : EnqueueCheck(e, d),
         ~ \E e \in Enqueuers : EnqueueInsert(e) \/ EnqueueCrash(e)
  PROVE  checked' = checked /\ Stored' = Stored
<1> USE OutboxAssumption DEF vars, rowVars, enqVars, EndEnqueue, senderVars, netVars,
    TypeOK, Fail, Ready, NextRow, Stored
<1> DEFINE RoomSame == checked' = checked /\ Stored' = Stored
<1>3. ASSUME NEW e \in Enqueuers, Stamp(e)
      PROVE  RoomSame
  BY <1>3 DEF Stamp
<1>4. ASSUME NEW d \in Deliveries, Quarantine(d) \/ BackoffExpires(d)
      PROVE  RoomSame
  BY <1>4 DEF Quarantine, BackoffExpires
<1>6. ASSUME NEW s \in Senders, NEW d \in Deliveries, NEW res \in BOOLEAN, RetryStart(s,
            Destination[d], res)
      PROVE  RoomSame
  BY <1>6 DEF RetryStart, Locked, Snapshot
<1>7. ASSUME NEW s \in Senders, SkipLane(s) \/ Defer(s) \/ Reuse(s) \/ Prepare(s) \/ Send(s)
      PROVE  RoomSame
  BY <1>7 DEF SkipLane, Defer, Reuse, Prepare, Send, Commit
<1>11. ASSUME NEW s \in Senders, NEW d \in Deliveries, NEW b \in BOOLEAN, state[d] # "absent",
            Fail(s, d, b)
      PROVE  RoomSame
  BY <1>11
<1>12. ASSUME NEW s \in Senders, Acknowledged(s)
      PROVE  RoomSame
  <2>1. state[cur[s]] # "absent"
    BY <1>12 DEF Acknowledged, BodyInv, TodoInv
  <2>2. QED  BY <1>12, <2>1 DEF Acknowledged
<1>13. ASSUME NEW s \in Senders, Refused(s) \/ TimedOut(s)
      PROVE  RoomSame
  <2>1. cur[s] \in Deliveries /\ state[cur[s]] # "absent"
    BY <1>13 DEF Refused, TimedOut, BodyInv, TodoInv
  <2>2. \E b \in BOOLEAN : Fail(s, cur[s], b)
    BY <1>13 DEF Refused, TimedOut
  <2>3. QED
    <3> HIDE DEF RoomSame, Fail, TypeOK, Stored
    <3> QED  BY <2>1, <2>2, <1>11
<1>16. ASSUME NEW s \in Senders, Finish(s) \/ Crash(s)
      PROVE  RoomSame
  BY <1>16 DEF Finish, Crash, Idle
<1>18. ASSUME NEW p \in inflight, ServerAccepts(p) \/ ServerRefuses(p) \/ RequestLost(p)
      PROVE  RoomSame
  BY <1>18 DEF ServerAccepts, ServerRefuses, RequestLost
<1>19. ASSUME NEW s \in Senders, NEW b \in BOOLEAN, PrepareFails(s, b)
      PROVE  RoomSame
  <2>1. PICK d \in todo[s] : Fail(s, d, b) /\ state[d] # "absent"
    BY <1>19 DEF PrepareFails, TodoInv
  <2>2. QED  BY <2>1, <1>11
<1>21. ASSUME UNCHANGED vars
       PROVE  RoomSame
  BY <1>21
<1> HIDE OutboxAssumption DEF vars, rowVars, enqVars, EndEnqueue, senderVars, netVars,
    TypeOK, Fail, Ready, NextRow, Stored, RoomSame
<1>22. RoomSame
  BY <1>3, <1>4, <1>6, <1>7, <1>12, <1>13, <1>16, <1>18, <1>19, <1>21 DEF Next, SenderStep
<1>23. QED  BY <1>22 DEF RoomSame

\* Counting: a SELECT adds at most one insert under way, an INSERT turns one
\* into at most one row.
LEMMA RoomPreserved ==
  ASSUME TypeOK, BodyInv, TodoInv, RoomInv, [Next]_vars
  PROVE  RoomInv'
<1>1. /\ IsFiniteSet(Stored) /\ IsFiniteSet(Inserting) /\ IsFiniteSet(Inserting')
      /\ Cardinality(Stored) \in Nat /\ Cardinality(Inserting) \in Nat
      /\ Cardinality(Enqueuers) \in Nat /\ Cardinality(Inserting') \in Nat
      /\ Cardinality(Inserting') <= Cardinality(Enqueuers)
  BY OutboxAssumption, FS_Subset, FS_CardinalityType DEF Stored, Inserting
<1>2. ASSUME NEW e \in Enqueuers, NEW d \in Deliveries, EnqueueCheck(e, d)
      PROVE  RoomInv'
  <2>1. Stored' = Stored /\ Cardinality(Stored) < Capacity
    BY <1>2 DEF EnqueueCheck, HasRoom, Stored, rowVars
  <2>2. QED  BY <2>1, <1>1, OutboxAssumption DEF RoomInv
<1>3. ASSUME NEW e \in Enqueuers, EnqueueInsert(e) \/ EnqueueCrash(e)
      PROVE  RoomInv'
  <2>1. Inserting' = Inserting \ {e} /\ e \in Inserting
    BY <1>3 DEF EnqueueInsert, EnqueueCrash, EndEnqueue, Inserting, TypeOK
  <2>2. Cardinality(Inserting') = Cardinality(Inserting) - 1
    BY <1>1, <2>1, FS_RemoveElement
  <2>3. Stored' = Stored \/ \E d \in Deliveries : Stored' = Stored \cup {d}
    BY <1>3 DEF EnqueueInsert, EnqueueCrash, Stored, TypeOK, rowVars
  <2>4. Cardinality(Stored') \in Nat /\ Cardinality(Stored') <= Cardinality(Stored) + 1
    <3> HIDE DEF Stored
    <3>1. CASE Stored' = Stored
      BY <1>1, <3>1
    <3>2. ASSUME NEW d \in Deliveries, Stored' = Stored \cup {d}
          PROVE  Cardinality(Stored') \in Nat /\ Cardinality(Stored') <= Cardinality(Stored) + 1
      <4>1. Cardinality(Stored \cup {d}) = IF d \in Stored THEN Cardinality(Stored) ELSE Cardinality(Stored) + 1
        BY <1>1, FS_AddElement
      <4>2. QED  BY <1>1, <3>2, <4>1
    <3>3. QED  BY <2>3, <3>1, <3>2
  <2>5. QED  BY <1>1, <2>2, <2>4, OutboxAssumption DEF RoomInv
<1>4. CASE /\ ~ \E e \in Enqueuers, d \in Deliveries : EnqueueCheck(e, d)
           /\ ~ \E e \in Enqueuers : EnqueueInsert(e) \/ EnqueueCrash(e)
  <2>1. checked' = checked /\ Stored' = Stored
    BY <1>4, RoomUntouched
  <2>2. QED  BY <2>1 DEF RoomInv, Inserting
<1>5. QED  BY <1>2, <1>3, <1>4

\* The capacity is exceeded by at most the other enqueuers.
THEOREM Overshoot == Spec => []BoundedOvershoot
<1>1. Init => RoomInv
  <2>1. Init => Stored = {} /\ Inserting = {}
    BY DEF Init, Stored, Inserting
  <2>2. Cardinality({}) = 0 /\ Cardinality(Enqueuers) \in Nat /\ Cardinality(Enqueuers) # 0
    BY FS_EmptySet, FS_CardinalityType, OutboxAssumption
  <2>3. QED  BY <2>1, <2>2, OutboxAssumption DEF RoomInv
<1>2. IInv /\ RoomInv /\ [Next]_vars => RoomInv'
  BY RoomPreserved DEF IInv
<1>3. TypeOK /\ RoomInv => BoundedOvershoot
  <2>1. Cardinality(Stored) \in Nat /\ Cardinality(Inserting) \in Nat /\ Cardinality(Enqueuers) \in Nat
    BY OutboxAssumption, FS_Subset, FS_CardinalityType DEF Stored, Inserting
  <2>2. QED  BY <2>1, OutboxAssumption DEF RoomInv, BoundedOvershoot
<1>4. IInv => TypeOK
  BY DEF IInv
<1>5. QED  BY <1>1, <1>2, <1>3, <1>4, Invariance, PTL DEF Spec

(***************************************************************************)
(* The publication of a code audit.                                        *)
(***************************************************************************)

\* A set of numbers that is not empty has a smallest.
LEMMA Smallest ==
  ASSUME NEW S \in SUBSET Nat, S # {}
  PROVE  Min(S) \in S
<1> DEFINE Less == {ss \in Nat \X Nat : ss[1] < ss[2]}
<1>1. IsWellFoundedOn(Less, Nat)
  BY NatLessThanWellFounded DEF OpToRel
<1> HIDE DEF Less
<1>2. \E x \in S : \A y \in S : <<y, x>> \notin Less
  BY <1>1, WFMin
<1>3. \E x \in S : \A y \in S : x <= y
  <2>1. PICK x \in S : \A y \in S : <<y, x>> \notin Less
    BY <1>2
  <2>2. ASSUME NEW y \in S PROVE ~(y < x)
    <3>1. <<y, x>> \in Nat \X Nat /\ <<y, x>>[1] = y /\ <<y, x>>[2] = x
      OBVIOUS
    <3>2. <<y, x>> \notin {ss \in Nat \X Nat : ss[1] < ss[2]}
      BY <2>1 DEF Less
    <3>3. QED
      BY <3>1, <3>2
  <2>3. QED
    BY <2>2
<1>4. QED
  BY <1>3 DEF Min

\* New issues and closed ones leave fewer rows behind no issue.
LEMMA RowsGrow ==
  ASSUME issues \in Seq(Issues), issues' \in Seq(Issues),
         Len(issues) <= Len(issues'),
         \A k \in DOMAIN issues : issues'[k].labelled = issues[k].labelled
  PROVE  \A k \in DOMAIN issues :
           /\ Cardinality(NewerRows(k)) \in Nat /\ Cardinality(NewerRows(k)') \in Nat
           /\ Cardinality(NewerRows(k)) <= Cardinality(NewerRows(k)')
<1> SUFFICES ASSUME NEW k \in DOMAIN issues
             PROVE  /\ Cardinality(NewerRows(k)) \in Nat /\ Cardinality(NewerRows(k)') \in Nat
                    /\ Cardinality(NewerRows(k)) <= Cardinality(NewerRows(k)')
  OBVIOUS
<1>1. /\ Len(issues) \in Nat /\ DOMAIN issues = 1 .. Len(issues)
      /\ Len(issues') \in Nat /\ DOMAIN issues' = 1 .. Len(issues')
  OBVIOUS
<1>2. NewerRows(k) \subseteq NewerRows(k)' /\ NewerRows(k)' \subseteq 1 .. Len(issues')
  BY <1>1 DEF NewerRows, Rows
<1>3. IsFiniteSet(1 .. Len(issues'))
  BY <1>1, FS_Interval
<1>4. IsFiniteSet(NewerRows(k)')
  BY <1>2, <1>3, FS_Subset
<1>5. IsFiniteSet(NewerRows(k)) /\ Cardinality(NewerRows(k)) <= Cardinality(NewerRows(k)')
  BY <1>2, <1>4, FS_Subset
<1>6. QED
  BY <1>4, <1>5, FS_CardinalityType

\* What a step may do to the issues without hiding one from a listing.
Growing ==
  /\ issues' \in Seq(Issues) /\ Len(issues) <= Len(issues')
  /\ \A k \in DOMAIN issues : /\ issues'[k].fp = issues[k].fp
                              /\ issues'[k].labelled = issues[k].labelled
\* What the invariant asks of publisher p when its record is rec.
Keeps(p, rec) ==
  /\ rec \in PublisherStates
  /\ \A f \in Fingerprints :
       rec.found[f] # 0 => rec.found[f] \in DOMAIN issues' /\ issues'[rec.found[f]].fp = f
  /\ Option[p].github /\ rec.at \in {"subjects", "match", "submit"} =>
       \A r \in Findings[p] : rec.found[r.fp] # 0
  /\ rec.at \in {"list", "create"} =>
       /\ rec.since <= Len(issues')
       /\ rec.at = "list" => rec.page <= MaxPages
       /\ ~rec.shaken => \A f \in Fingerprints, k \in 1 .. rec.since :
            Marked(k, f)' =>
              \/ rec.found[f] # 0
              \/ Cardinality(NewerRows(k)') >=
                   (IF rec.at = "list" THEN rec.page - 1 ELSE MaxPages) * PageSize
  /\ rec.at = "subjects" =>
       /\ rec.page = 1 => rec.listing = <<>>
       /\ rec.page > 1 /\ ~rec.shaken =>
            /\ Len(rec.listing) = (rec.page - 1) * SubjectPage
            /\ Len(rec.listing) < Len(subjects')
            /\ \A n \in DOMAIN rec.listing : rec.listing[n] = subjects'[n]
  /\ rec.at = "match" /\ ~rec.shaken => rec.listing = subjects'
  /\ rec.at = "submit" /\ ~rec.shaken => Belongs(subjects', rec.subject)

\* The invariant, publisher by publisher.
LEMMA EachKeeps ==
  ASSUME issues' \in Seq(Issues), subjects' \in Seq(SubjectRows), private' \in BOOLEAN,
         faults' \in 0 .. MaxFaults, moves' \in 0 .. MaxMoves,
         pub' \in [Publishers -> PublisherStates], RemoteInv',
         \A p \in Publishers : Keeps(p, pub'[p])
  PROVE  PublishInv'
<1>1. PublishTypes'
  BY DEF PublishTypes
<1>2. FoundInv'
  BY DEF Keeps, FoundInv
<1>3. LinkedInv'
  BY DEF Keeps, LinkedInv, Todo
<1>4. ListedInv'
  BY DEF Keeps, ListedInv, PagesRead
<1>5. SubjectInv'
  BY DEF Keeps, SubjectInv
<1>6. QED
  BY <1>1, <1>2, <1>3, <1>4, <1>5 DEF PublishInv

\* What a body links stays linked.
LEMMA RemoteKept ==
  ASSUME PublishInv, Growing, remote' = remote
  PROVE  RemoteInv'
<1>1. \A k \in DOMAIN issues : k \in DOMAIN issues' /\ issues'[k].fp = issues[k].fp
  BY DEF Growing, PublishInv, PublishTypes
<1>2. QED
  BY <1>1 DEF PublishInv, RemoteInv

\* Publishers that do nothing keep what they know.
LEMMA OthersKeep ==
  ASSUME PublishInv, NEW q \in Publishers, Growing, subjects' = subjects
  PROVE  Keeps(q, pub[q])
<1> USE DEF PublishInv, PublishTypes
<1>1. /\ Len(issues) \in Nat /\ DOMAIN issues = 1 .. Len(issues)
      /\ Len(issues') \in Nat /\ DOMAIN issues' = 1 .. Len(issues')
  BY DEF Growing
<1>2. pub[q] \in PublisherStates
  OBVIOUS
<1>3. \A f \in Fingerprints : pub[q].found[f] # 0 =>
        pub[q].found[f] \in DOMAIN issues' /\ issues'[pub[q].found[f]].fp = f
  BY <1>1 DEF Growing, FoundInv
<1>4. Option[q].github /\ pub[q].at \in {"subjects", "match", "submit"} =>
        \A r \in Findings[q] : pub[q].found[r.fp] # 0
  BY DEF LinkedInv, Todo
<1>5. ASSUME pub[q].at \in {"list", "create"}
      PROVE  /\ pub[q].since <= Len(issues')
             /\ pub[q].at = "list" => pub[q].page <= MaxPages
             /\ ~pub[q].shaken => \A f \in Fingerprints, k \in 1 .. pub[q].since :
                  Marked(k, f)' =>
                    \/ pub[q].found[f] # 0
                    \/ Cardinality(NewerRows(k)') >=
                         (IF pub[q].at = "list" THEN pub[q].page - 1 ELSE MaxPages) * PageSize
  <2>1. pub[q].since \in Nat /\ pub[q].since <= Len(issues) /\ Len(issues) <= Len(issues')
    BY <1>2, <1>5 DEF ListedInv, Growing, PublisherStates
  <2>2. ASSUME ~pub[q].shaken, NEW f \in Fingerprints, NEW k \in 1 .. pub[q].since, Marked(k, f)'
        PROVE  \/ pub[q].found[f] # 0
               \/ Cardinality(NewerRows(k)') >= PagesRead(q) * PageSize
    <3>1. k \in DOMAIN issues /\ Marked(k, f)
      BY <1>1, <2>1, <2>2 DEF Growing, Marked
    <3>2. \/ pub[q].found[f] # 0
          \/ Cardinality(NewerRows(k)) >= PagesRead(q) * PageSize
      BY <1>5, <2>2, <3>1 DEF ListedInv
    <3>3. /\ Cardinality(NewerRows(k)) \in Nat /\ Cardinality(NewerRows(k)') \in Nat
          /\ Cardinality(NewerRows(k)) <= Cardinality(NewerRows(k)')
      BY <3>1, RowsGrow DEF Growing
    <3>4. PagesRead(q) * PageSize \in Int
      <4>1. PagesRead(q) \in Int /\ PageSize \in Int
        BY <1>2, PublishAssumption DEF PagesRead, PublisherStates
      <4>2. QED
        BY <4>1
    <3>5. QED
      BY <3>2, <3>3, <3>4
  <2>3. QED
    BY <1>1, <1>5, <2>1, <2>2 DEF ListedInv, PagesRead
<1>6. /\ pub[q].at = "subjects" =>
           /\ pub[q].page = 1 => pub[q].listing = <<>>
           /\ pub[q].page > 1 /\ ~pub[q].shaken =>
                /\ Len(pub[q].listing) = (pub[q].page - 1) * SubjectPage
                /\ Len(pub[q].listing) < Len(subjects')
                /\ \A n \in DOMAIN pub[q].listing : pub[q].listing[n] = subjects'[n]
      /\ pub[q].at = "match" /\ ~pub[q].shaken => pub[q].listing = subjects'
      /\ pub[q].at = "submit" /\ ~pub[q].shaken => Belongs(subjects', pub[q].subject)
  BY DEF SubjectInv
<1>7. QED
  BY <1>2, <1>3, <1>4, <1>5, <1>6 DEF Keeps

\* One publisher's step.
LEMMA OneMoves ==
  ASSUME PublishInv, NEW p \in Publishers, NEW rec, Become(p, rec), Keeps(p, rec),
         Growing, subjects' = subjects, private' = private, moves' = moves,
         faults' \in 0 .. MaxFaults, RemoteInv'
  PROVE  PublishInv'
<1> USE DEF PublishInv, PublishTypes
<1>1. pub' \in [Publishers -> PublisherStates] /\ pub'[p] = rec
      /\ \A q \in Publishers \ {p} : pub'[q] = pub[q]
  BY DEF Become, Keeps
<1>2. \A q \in Publishers : Keeps(q, pub'[q])
  BY <1>1, OthersKeep
<1>3. /\ issues' \in Seq(Issues) /\ subjects' \in Seq(SubjectRows) /\ private' \in BOOLEAN
      /\ moves' \in 0 .. MaxMoves
  BY DEF Growing
<1> HIDE DEF PublishInv
<1>4. QED
  BY <1>1, <1>2, <1>3, EachKeeps

LEMMA SameGrows ==
  ASSUME PublishInv, issues' = issues
  PROVE  Growing
BY DEF PublishInv, PublishTypes, Growing

\* The record of a command that knows nothing.
LEMMA FreshIs ==
  ASSUME NEW a \in {"idle", "check", "list", "subjects", "done", "failed"}
  PROVE  /\ Fresh(a) \in PublisherStates
         /\ Fresh(a).at = a /\ Fresh(a).page = 1 /\ Fresh(a).listing = <<>> /\ ~Fresh(a).shaken
         /\ \A f \in Fingerprints : Fresh(a).found[f] = 0
<1>1. <<>> \in Seq(SubjectRows) /\ [f \in Fingerprints |-> 0] \in [Fingerprints -> Nat]
  OBVIOUS
<1>2. QED
  BY <1>1 DEF Fresh, PublisherStates

LEMMA FreshKeeps ==
  ASSUME NEW p \in Publishers, NEW a \in {"idle", "check", "done", "failed"}
  PROVE  Keeps(p, Fresh(a))
BY FreshIs DEF Keeps

\* What is the same in a step of a publisher that leaves the issues alone.
Quiet == UNCHANGED <<issues, private, subjects, remote, moves>>

LEMMA QuietFacts ==
  ASSUME PublishInv, Quiet
  PROVE  /\ Growing /\ RemoteInv'
         /\ subjects' = subjects /\ private' = private /\ moves' = moves
BY SameGrows, RemoteKept DEF Quiet

LEMMA FaultFacts ==
  ASSUME PublishInv
  PROVE  /\ faults' = faults => faults' \in 0 .. MaxFaults
         /\ \A p \in Publishers : Fault(p) => faults' \in 0 .. MaxFaults /\ End(p, "failed")
BY PublishAssumption DEF PublishInv, PublishTypes, Fault, GiveUp

LEMMA EndKeeps ==
  ASSUME PublishInv, NEW p \in Publishers, NEW a \in {"idle", "check", "done", "failed"},
         End(p, a), Growing, subjects' = subjects, private' = private, moves' = moves,
         faults' \in 0 .. MaxFaults, RemoteInv'
  PROVE  PublishInv'
BY FreshKeeps, OneMoves DEF End

LEMMA FaultKeeps ==
  ASSUME PublishInv, NEW p \in Publishers, Fault(p), Quiet
  PROVE  PublishInv'
BY QuietFacts, FaultFacts, EndKeeps

\* SecMan's turn comes when every finding has its issue, or none was asked for.
LEMMA AfterIssuesKeeps ==
  ASSUME PublishInv, NEW p \in Publishers, AfterIssues(p), Quiet, faults' = faults,
         Option[p].github => Todo(p) = {}
  PROVE  PublishInv'
<1>1. /\ Growing /\ RemoteInv' /\ faults' \in 0 .. MaxFaults
      /\ subjects' = subjects /\ private' = private /\ moves' = moves
  BY QuietFacts, FaultFacts
<1>2. CASE ~Option[p].secman
  BY <1>1, <1>2, EndKeeps DEF AfterIssues
<1>3. CASE Option[p].secman
  <2> DEFINE rec == [Fresh("subjects") EXCEPT !.found = pub[p].found]
  <2>1. pub[p].found \in [Fingerprints -> Nat]
    BY DEF PublishInv, PublishTypes, PublisherStates
  <2>2. /\ rec \in PublisherStates /\ rec.at = "subjects" /\ rec.found = pub[p].found
        /\ rec.page = 1 /\ rec.listing = <<>>
    BY <2>1, FreshIs DEF PublisherStates
  <2>3. Become(p, rec)
    BY <1>3 DEF AfterIssues
  <2> HIDE DEF rec
  <2>4. \A f \in Fingerprints :
          rec.found[f] # 0 => rec.found[f] \in DOMAIN issues' /\ issues'[rec.found[f]].fp = f
    BY <2>2 DEF PublishInv, FoundInv, Quiet
  <2>5. Option[p].github => \A r \in Findings[p] : rec.found[r.fp] # 0
    BY <2>2 DEF Todo
  <2>6. Keeps(p, rec)
    BY <2>2, <2>4, <2>5 DEF Keeps
  <2>7. QED
    BY <1>1, <2>3, <2>6, OneMoves
<1>4. QED
  BY <1>2, <1>3

LEMMA LoadKeeps ==
  ASSUME PublishInv, NEW p \in Publishers, Load(p)
  PROVE  PublishInv'
<1>1. Quiet /\ faults' = faults
  BY DEF Load, Quiet
<1>2. /\ Growing /\ RemoteInv' /\ faults' \in 0 .. MaxFaults
      /\ subjects' = subjects /\ private' = private /\ moves' = moves
  BY <1>1, QuietFacts, FaultFacts
<1>3. CASE End(p, "failed") \/ End(p, "check")
  BY <1>2, <1>3, EndKeeps
<1>4. CASE AfterIssues(p) /\ ~Option[p].github
  BY <1>1, <1>4, AfterIssuesKeeps
<1>5. QED
  BY <1>3, <1>4 DEF Load, GiveUp, End

LEMMA CheckKeeps ==
  ASSUME PublishInv, NEW p \in Publishers, Check(p)
  PROVE  PublishInv'
<1>1. Quiet
  BY DEF Check, Quiet
<1>2. /\ Growing /\ RemoteInv'
      /\ subjects' = subjects /\ private' = private /\ moves' = moves
  BY <1>1, QuietFacts
<1>3. CASE Fault(p)
  BY <1>1, <1>3, FaultKeeps
<1>4. CASE GiveUp(p) /\ faults' = faults
  BY <1>2, <1>4, EndKeeps, FaultFacts DEF GiveUp
<1> DEFINE rec == [Fresh("list") EXCEPT !.since = Len(issues)]
<1>5. CASE Become(p, rec) /\ faults' = faults
  <2>1. /\ issues \in Seq(Issues) /\ Len(issues) \in Nat /\ DOMAIN issues = 1 .. Len(issues)
        /\ issues' = issues
    BY <1>1 DEF PublishInv, PublishTypes, Quiet
  <2>3. /\ rec \in PublisherStates /\ rec.at = "list" /\ rec.since = Len(issues) /\ rec.page = 1
        /\ \A f \in Fingerprints : rec.found[f] = 0
    BY <2>1, FreshIs DEF PublisherStates
  <2> HIDE DEF rec
  <2>4. \A k \in 1 .. rec.since : Cardinality(NewerRows(k)') \in Nat
    BY <1>2, <2>1, <2>3, RowsGrow DEF Growing
  <2>5. (rec.page - 1) * PageSize = 0 /\ rec.page <= MaxPages
    BY <2>3, PublishAssumption
  <2>6. \A k \in 1 .. rec.since : Cardinality(NewerRows(k)') >= (rec.page - 1) * PageSize
    BY <2>4, <2>5
  <2>7. Keeps(p, rec)
    BY <2>1, <2>3, <2>5, <2>6 DEF Keeps
  <2>8. QED
    BY <1>2, <1>5, <2>7, OneMoves, FaultFacts
<1>6. QED
  BY <1>3, <1>4, <1>5 DEF Check

\* Reading a page: a marked issue of the page is known afterwards, and one
\* beyond it is still behind all rows that were read.
LEMMA ListKeeps ==
  ASSUME PublishInv, NEW p \in Publishers, List(p)
  PROVE  PublishInv'
<1>1. Quiet
  BY DEF List, Quiet
<1>2. /\ Growing /\ RemoteInv'
      /\ subjects' = subjects /\ private' = private /\ moves' = moves
  BY <1>1, QuietFacts
<1>3. CASE Fault(p)
  BY <1>1, <1>3, FaultKeeps
<1> DEFINE n == pub[p].page
           Of(f) == {k \in Page(n) : issues[k].fp = f}
           last == ~FullPage(n) \/ n = MaxPages
           found == [f \in Fingerprints |-> IF Of(f) = {} THEN pub[p].found[f] ELSE Min(Of(f))]
           rec == [pub[p] EXCEPT !.found = [f \in Fingerprints |-> IF Of(f) = {} THEN @[f] ELSE Min(Of(f))],
                                 !.page = IF last THEN 1 ELSE @ + 1,
                                 !.at = IF last THEN "create" ELSE "list"]
<1>4. CASE Become(p, rec) /\ faults' = faults
  <2>1. /\ issues \in Seq(Issues) /\ Len(issues) \in Nat /\ DOMAIN issues = 1 .. Len(issues)
        /\ issues' = issues /\ pub[p] \in PublisherStates /\ pub[p].at = "list"
        /\ n \in Nat \ {0} /\ n <= MaxPages
    BY <1>1 DEF PublishInv, PublishTypes, PublisherStates, Quiet, List, ListedInv
  <2>2. \A f \in Fingerprints :
          Of(f) # {} => Min(Of(f)) \in Of(f) /\ Min(Of(f)) \in DOMAIN issues /\ Min(Of(f)) # 0
    <3> SUFFICES ASSUME NEW f \in Fingerprints, Of(f) # {}
                 PROVE  Min(Of(f)) \in Of(f) /\ Min(Of(f)) \in DOMAIN issues /\ Min(Of(f)) # 0
      OBVIOUS
    <3>1. Of(f) \subseteq DOMAIN issues
      BY DEF Page, Rows
    <3>2. Of(f) \in SUBSET Nat
      BY <2>1, <3>1
    <3> HIDE DEF Of
    <3>3. Min(Of(f)) \in Of(f)
      BY <3>2, Smallest
    <3>4. QED
      BY <2>1, <3>1, <3>3
  <2>3. /\ rec.at = (IF last THEN "create" ELSE "list") /\ rec.page = (IF last THEN 1 ELSE n + 1)
        /\ rec.since = pub[p].since /\ rec.shaken = pub[p].shaken /\ rec.found = found
    BY <2>1 DEF PublisherStates
  <2>4. \A f \in Fingerprints : found[f] \in Nat
    BY <2>1, <2>2 DEF PublisherStates
  <2>5. rec \in PublisherStates
    <3>1. found \in [Fingerprints -> Nat]
      BY <2>4
    <3>2. rec = [pub[p] EXCEPT !.found = found, !.page = IF last THEN 1 ELSE n + 1,
                               !.at = IF last THEN "create" ELSE "list"]
      OBVIOUS
    <3>3. ASSUME NEW r \in PublisherStates, NEW g \in [Fingerprints -> Nat],
                 NEW m \in Nat \ {0}, NEW a \in {"create", "list"}
          PROVE  [r EXCEPT !.found = g, !.page = m, !.at = a] \in PublisherStates
      BY DEF PublisherStates
    <3>4. /\ (IF last THEN 1 ELSE n + 1) \in Nat \ {0}
          /\ (IF last THEN "create" ELSE "list") \in {"create", "list"}
      BY <2>1
    <3> HIDE DEF rec, found, last
    <3>5. QED
      BY <2>1, <3>1, <3>2, <3>3, <3>4
  <2>6. \A f \in Fingerprints :
          found[f] # 0 => found[f] \in DOMAIN issues /\ issues[found[f]].fp = f
    BY <2>2 DEF PublishInv, FoundInv
  <2>7. ASSUME ~pub[p].shaken, NEW f \in Fingerprints, NEW k \in 1 .. pub[p].since, Marked(k, f),
               found[f] = 0
        PROVE  Cardinality(NewerRows(k)) >= n * PageSize /\ FullPage(n)
    <3>1. k \in DOMAIN issues /\ k \in Rows
      BY <2>1, <2>7 DEF PublishInv, ListedInv, Marked, Rows, PublisherStates
    <3>2. Of(f) = {} /\ pub[p].found[f] = 0
      BY <2>2, <2>7
    <3>3. k \notin Page(n)
      BY <3>2, <2>7 DEF Marked
    <3>4. Cardinality(NewerRows(k)) >= (n - 1) * PageSize
      BY <2>1, <2>7, <3>2 DEF PublishInv, ListedInv, PagesRead
    <3>5. /\ Cardinality(NewerRows(k)) \in Nat
          /\ IsFiniteSet(Rows) /\ Cardinality(Rows) \in Nat
          /\ Cardinality(NewerRows(k)) <= Cardinality(Rows)
      <4>1. Rows \subseteq 1 .. Len(issues)
        BY <2>1 DEF Rows
      <4>2. IsFiniteSet(1 .. Len(issues))
        BY <2>1, FS_Interval
      <4>3. IsFiniteSet(Rows) /\ NewerRows(k) \subseteq Rows
        BY <4>1, <4>2, FS_Subset DEF NewerRows
      <4>4. QED
        BY <4>3, FS_Subset, FS_CardinalityType
    <3>6. (n - 1) * PageSize \in Int /\ n * PageSize \in Int
      BY <2>1, PublishAssumption
    <3>7. Cardinality(NewerRows(k)) \notin (n - 1) * PageSize .. n * PageSize - 1
      BY <3>1, <3>3 DEF Page
    <3>8. Cardinality(NewerRows(k)) >= n * PageSize
      BY <3>4, <3>5, <3>6, <3>7
    <3>9. QED
      BY <3>5, <3>6, <3>8 DEF FullPage
  <2> HIDE DEF rec, found
  <2>8. Keeps(p, rec)
    <3>1. /\ rec.since <= Len(issues')
          /\ rec.at = "list" => rec.page <= MaxPages
      BY <2>1, <2>3, PublishAssumption DEF PublishInv, ListedInv
    <3>2. ASSUME ~rec.shaken, NEW f \in Fingerprints, NEW k \in 1 .. rec.since,
                 Marked(k, f)', rec.found[f] = 0
          PROVE  Cardinality(NewerRows(k)') >=
                   (IF rec.at = "list" THEN rec.page - 1 ELSE MaxPages) * PageSize
      <4>1. Marked(k, f) /\ NewerRows(k)' = NewerRows(k)
        BY <2>1, <3>2 DEF Marked, NewerRows, Rows
      <4>2. Cardinality(NewerRows(k)) >= n * PageSize /\ FullPage(n)
        BY <2>3, <2>7, <3>2, <4>1
      <4>3. (IF rec.at = "list" THEN rec.page - 1 ELSE MaxPages) = n
        BY <2>1, <2>3, <4>2
      <4>4. QED
        BY <4>1, <4>2, <4>3
    <3>3. QED
      BY <2>1, <2>3, <2>5, <2>6, <3>1, <3>2 DEF Keeps
  <2>9. QED
    BY <1>2, <1>4, <2>8, OneMoves, FaultFacts
<1>5. QED
  BY <1>3, <1>4 DEF List

LEMMA FindingsFit ==
  ASSUME NEW p \in Publishers, NEW r \in Findings[p]
  PROVE  r.fp \in Fingerprints
<1>1. Document[p] \in Seq(Records)
  BY PublishAssumption
<1>2. PICK n \in DOMAIN Document[p] : r = Document[p][n]
  BY DEF Findings, Kept
<1>3. Document[p][n] \in Records
  BY <1>1
<1>4. QED
  BY <1>2, <1>3 DEF Records

\* A new issue, with or without an answer.
LEMMA CreateKeeps ==
  ASSUME PublishInv, NEW p \in Publishers, Create(p)
  PROVE  PublishInv'
<1>1. PICK r \in Todo(p) :
        LET posted == Append(issues, [fp |-> r.fp, labelled |-> TRUE, closed |-> FALSE]) IN
        \/ /\ issues' = posted
           /\ Become(p, [pub[p] EXCEPT !.found[r.fp] = Len(posted), !.created = @ + 1])
           /\ UNCHANGED faults
        \/ issues' = posted /\ Fault(p)
        \/ UNCHANGED issues /\ Fault(p)
  BY DEF Create
<1> DEFINE new == [fp |-> r.fp, labelled |-> TRUE, closed |-> FALSE]
<1>2. /\ r \in Findings[p] /\ r.fp \in Fingerprints /\ new \in Issues
  BY FindingsFit DEF Todo, Issues
<1> HIDE DEF new
<1>3. /\ remote' = remote /\ subjects' = subjects /\ private' = private /\ moves' = moves
      /\ pub[p].at = "create"
  BY DEF Create
<1>4. /\ issues \in Seq(Issues) /\ Len(issues) \in Nat /\ DOMAIN issues = 1 .. Len(issues)
      /\ pub[p] \in PublisherStates
  BY DEF PublishInv, PublishTypes
<1>5. /\ Append(issues, new) \in Seq(Issues) /\ Len(Append(issues, new)) = Len(issues) + 1
      /\ \A k \in 1 .. Len(issues) : Append(issues, new)[k] = issues[k]
      /\ Append(issues, new)[Len(issues) + 1] = new
  BY <1>2, <1>4, AppendProperties
<1>6. ASSUME issues' = issues \/ issues' = Append(issues, new)
      PROVE  Growing /\ RemoteInv'
  <2>1. Growing
    BY <1>4, <1>5, <1>6 DEF Growing
  <2>2. QED
    BY <2>1, <1>3, RemoteKept
<1>7. CASE Fault(p) /\ (issues' = issues \/ issues' = Append(issues, new))
  BY <1>3, <1>6, <1>7, FaultFacts, EndKeeps
<1> DEFINE n == Len(issues) + 1
           rec == [pub[p] EXCEPT !.found[r.fp] = Len(Append(issues, new)), !.created = @ + 1]
<1>8. CASE issues' = Append(issues, new) /\ Become(p, rec) /\ faults' = faults
  <2>1. Growing /\ RemoteInv' /\ Keeps(p, pub[p])
    BY <1>3, <1>6, <1>8, OthersKeep
  <2>2. /\ DOMAIN issues' = 1 .. n /\ issues'[n].fp = r.fp /\ n \in Nat \ {0}
    BY <1>4, <1>5, <1>8 DEF new
  <2>3. /\ rec.at = "create" /\ rec.since = pub[p].since /\ rec.shaken = pub[p].shaken
        /\ rec.found = [pub[p].found EXCEPT ![r.fp] = n]
    BY <1>3, <1>4, <1>5 DEF PublisherStates
  <2>4. pub[p].found \in [Fingerprints -> Nat] /\ pub[p].created + 1 \in Nat
    BY <1>4 DEF PublisherStates
  <2>5. rec \in PublisherStates
    <3>1. ASSUME NEW s \in PublisherStates, NEW g \in [Fingerprints -> Nat], NEW m \in Nat
          PROVE  [s EXCEPT !.found = g, !.created = m] \in PublisherStates
      BY DEF PublisherStates
    <3>2. [pub[p].found EXCEPT ![r.fp] = n] \in [Fingerprints -> Nat]
      BY <2>2, <2>4
    <3>3. rec = [pub[p] EXCEPT !.found = [pub[p].found EXCEPT ![r.fp] = n],
                               !.created = pub[p].created + 1]
      BY <1>5
    <3> HIDE DEF rec
    <3>4. QED
      BY <1>4, <2>4, <3>1, <3>2, <3>3
  <2> HIDE DEF rec
  <2>6. \A f \in Fingerprints : rec.found[f] = IF f = r.fp THEN n ELSE pub[p].found[f]
    BY <1>2, <2>3, <2>4
  <2>7. \A f \in Fingerprints :
          rec.found[f] # 0 => rec.found[f] \in DOMAIN issues' /\ issues'[rec.found[f]].fp = f
    BY <2>1, <2>2, <2>6 DEF Keeps
  <2>8. \A f \in Fingerprints : pub[p].found[f] # 0 => rec.found[f] # 0
    BY <2>2, <2>6
  <2>9. Keeps(p, rec)
    BY <1>3, <2>1, <2>3, <2>5, <2>7, <2>8 DEF Keeps
  <2>10. QED
    BY <1>3, <1>8, <2>1, <2>9, OneMoves, FaultFacts
<1>9. QED
  BY <1>1, <1>7, <1>8 DEF new

\* The body of a publisher has its findings and links what it has found.
LEMMA BodyFits ==
  ASSUME PublishInv, NEW p \in Publishers, pub[p].at = "submit", issues' = issues,
         remote' = remote \/ remote' = remote \cup {Sent(p)}
  PROVE  RemoteInv'
<1> DEFINE s == Sent(p)
           b == Body(p)
<1>1. /\ s.by = p /\ s.body = b /\ s = [by |-> s.by, body |-> s.body]
      /\ b = [subject |-> b.subject, commit |-> Option[p].commit, findings |-> b.findings]
      /\ b.findings = {[finding |-> r, link |-> pub[p].found[r.fp]] : r \in Findings[p]}
  BY DEF Sent, Body
<1> HIDE DEF s, b
<1>2. {x.finding : x \in b.findings} = Findings[p]
  <2>1. ASSUME NEW r \in Findings[p] PROVE \E x \in b.findings : x.finding = r
    <3>1. [finding |-> r, link |-> pub[p].found[r.fp]] \in b.findings
      BY <1>1
    <3>2. QED
      BY <3>1
  <2>2. ASSUME NEW x \in b.findings PROVE x.finding \in Findings[p]
    BY <1>1
  <2>3. QED
    BY <2>1, <2>2
<1>3. ASSUME NEW x \in b.findings
      PROVE  /\ x = [finding |-> x.finding, link |-> x.link]
             /\ x.finding \in Findings[p] /\ x.link = pub[p].found[x.finding.fp]
  BY <1>1, <1>3
<1>4. ASSUME NEW x \in b.findings, Option[p].github
      PROVE  x.link \in DOMAIN issues /\ issues[x.link].fp = x.finding.fp
  <2>1. x.finding.fp \in Fingerprints
    BY <1>3, <1>4, FindingsFit
  <2>2. pub[p].found[x.finding.fp] # 0
    BY <1>3, <1>4 DEF PublishInv, LinkedInv, Todo
  <2>3. QED
    BY <1>3, <1>4, <2>1, <2>2 DEF PublishInv, FoundInv
<1>5. \A t \in remote' : t \in remote \/ t = s
  BY DEF s
<1>6. ASSUME NEW t \in remote'
      PROVE  /\ t.by \in Publishers /\ t = [by |-> t.by, body |-> t.body]
             /\ t.body = [subject |-> t.body.subject, commit |-> Option[t.by].commit,
                          findings |-> t.body.findings]
             /\ {x.finding : x \in t.body.findings} = Findings[t.by]
             /\ \A x \in t.body.findings :
                  /\ x = [finding |-> x.finding, link |-> x.link]
                  /\ \A y \in t.body.findings : x.finding = y.finding => x = y
                  /\ Option[t.by].github =>
                       x.link \in DOMAIN issues' /\ issues'[x.link].fp = x.finding.fp
  <2>1. CASE t \in remote
    BY <2>1 DEF PublishInv, RemoteInv
  <2>2. CASE t = s
    <3>1. \A x, y \in b.findings : x.finding = y.finding => x = y
      BY <1>3
    <3>2. QED
      BY <1>1, <1>2, <1>3, <1>4, <2>2, <3>1
  <2>3. QED
    BY <1>5, <1>6, <2>1, <2>2
<1>7. QED
  BY <1>6 DEF RemoteInv

LEMMA SubmitKeeps ==
  ASSUME PublishInv, NEW p \in Publishers, Submit(p)
  PROVE  PublishInv'
<1>1. RemoteInv'
  BY BodyFits DEF Submit
<1>2. Growing /\ subjects' = subjects /\ private' = private /\ moves' = moves
  BY SameGrows DEF Submit
<1>3. QED
  BY <1>1, <1>2, FaultFacts, EndKeeps DEF Submit

LEMMA DoneStopRerunKeep ==
  ASSUME PublishInv, NEW p \in Publishers
  PROVE  IssuesDone(p) \/ Stop(p) \/ Rerun(p) => PublishInv'
<1>1. ASSUME IssuesDone(p) PROVE PublishInv'
  BY <1>1, AfterIssuesKeeps DEF IssuesDone, Quiet
<1>2. ASSUME Stop(p) \/ Rerun(p) PROVE PublishInv'
  <2>1. Quiet /\ faults' = faults
    BY <1>2 DEF Stop, Rerun, Quiet
  <2>2. End(p, "failed") \/ End(p, "idle")
    BY <1>2 DEF Stop, Rerun, GiveUp, End
  <2>3. QED
    BY <2>1, <2>2, QuietFacts, FaultFacts, EndKeeps
<1>3. QED
  BY <1>1, <1>2

LEMMA PartFits ==
  ASSUME NEW rows \in Seq(SubjectRows), NEW listing \in Seq(SubjectRows),
         NEW from \in Nat, NEW to \in Nat, to <= Len(rows)
  PROVE  /\ SubSeq(rows, from + 1, to) \in Seq(SubjectRows)
         /\ listing \o SubSeq(rows, from + 1, to) \in Seq(SubjectRows)
<1>1. \A i \in from + 1 .. to : rows[i] \in SubjectRows
  OBVIOUS
<1>2. SubSeq(rows, from + 1, to) \in Seq(SubjectRows)
  BY <1>1, SubSeqProperties
<1>3. QED
  BY <1>2, ConcatProperties

\* A part of a sequence continues what ends where the part begins.
LEMMA Continued ==
  ASSUME NEW rows \in Seq(SubjectRows), NEW listing \in Seq(SubjectRows),
         NEW from \in Nat, NEW to \in Nat, from <= to, to <= Len(rows),
         Len(listing) = from, \A i \in 1 .. from : listing[i] = rows[i]
  PROVE  /\ Len(listing \o SubSeq(rows, from + 1, to)) = to
         /\ \A i \in 1 .. to : (listing \o SubSeq(rows, from + 1, to))[i] = rows[i]
<1> DEFINE page == SubSeq(rows, from + 1, to)
<1>1. \A i \in from + 1 .. to : rows[i] \in SubjectRows
  OBVIOUS
<1>2. /\ page \in Seq(SubjectRows)
      /\ Len(page) = IF from + 1 <= to THEN to - (from + 1) + 1 ELSE 0
      /\ \A i \in 1 .. to - (from + 1) + 1 : page[i] = rows[from + 1 + i - 1]
  BY <1>1, SubSeqProperties
<1> HIDE DEF page
<1>3. /\ Len(listing \o page) = Len(listing) + Len(page)
      /\ \A i \in 1 .. Len(listing) + Len(page) :
           (listing \o page)[i] = IF i <= Len(listing) THEN listing[i] ELSE page[i - Len(listing)]
  BY <1>2, ConcatProperties
<1>4. Len(page) = to - from /\ Len(listing \o page) = to
  BY <1>2, <1>3
<1>5. ASSUME NEW i \in 1 .. to PROVE (listing \o page)[i] = rows[i]
  <2>1. (listing \o page)[i] = IF i <= from THEN listing[i] ELSE page[i - from]
    BY <1>3, <1>4, <1>5
  <2>2. CASE i <= from
    BY <1>5, <2>1, <2>2
  <2>3. CASE i > from
    <3>1. i - from \in 1 .. to - (from + 1) + 1 /\ from + 1 + (i - from) - 1 = i
      BY <1>5, <2>3
    <3>2. page[i - from] = rows[i]
      BY <1>2, <3>1
    <3>3. QED
      BY <1>5, <2>1, <2>3, <3>2
  <2>4. i <= from \/ i > from
    BY <1>5
  <2>5. QED
    BY <2>2, <2>3, <2>4
<1>6. QED
  BY <1>4, <1>5 DEF page

\* A page of subjects continues the listing where it left off.
LEMMA NextPage ==
  ASSUME NEW rows \in Seq(SubjectRows), NEW listing \in Seq(SubjectRows), NEW n \in Nat \ {0}
  PROVE  LET end == n * SubjectPage
             to == IF Len(rows) <= end THEN Len(rows) ELSE end
             new == listing \o SubSeq(rows, end - SubjectPage + 1, to)
         IN  /\ new \in Seq(SubjectRows)
             /\ /\ Len(listing) = (n - 1) * SubjectPage
                /\ Len(listing) <= Len(rows)
                /\ \A i \in DOMAIN listing : listing[i] = rows[i]
                => /\ Len(new) = to
                   /\ \A i \in DOMAIN new : new[i] = rows[i]
                   /\ Len(rows) <= end => new = rows
<1> DEFINE end == n * SubjectPage
           from == end - SubjectPage
           to == IF Len(rows) <= end THEN Len(rows) ELSE end
           new == listing \o SubSeq(rows, from + 1, to)
<1>1. /\ SubjectPage \in Nat \ {0} /\ end \in Nat /\ from = (n - 1) * SubjectPage /\ from \in Nat
      /\ from <= end /\ Len(rows) \in Nat /\ Len(listing) \in Nat
      /\ DOMAIN listing = 1 .. Len(listing)
  <2>1. SubjectPage \in Nat \ {0}
    BY PublishAssumption
  <2>2. end \in Nat /\ (n - 1) * SubjectPage \in Nat /\ end = (n - 1) * SubjectPage + SubjectPage
    BY <2>1
  <2>3. QED
    BY <2>1, <2>2
<1> HIDE DEF end
<1>2. to \in Nat /\ to <= Len(rows)
  BY <1>1
<1>3. new \in Seq(SubjectRows)
  BY <1>1, <1>2, PartFits
<1>4. ASSUME Len(listing) = (n - 1) * SubjectPage, Len(listing) <= Len(rows),
             \A i \in DOMAIN listing : listing[i] = rows[i]
      PROVE  /\ Len(new) = to
             /\ \A i \in DOMAIN new : new[i] = rows[i]
             /\ Len(rows) <= end => new = rows
  <2>1. Len(listing) = from /\ from <= to /\ \A i \in 1 .. from : listing[i] = rows[i]
    BY <1>1, <1>4
  <2> HIDE DEF from, to
  <2>2. Len(new) = to /\ \A i \in 1 .. to : new[i] = rows[i]
    <3>1. /\ from \in Nat /\ to \in Nat /\ from <= to /\ to <= Len(rows)
          /\ Len(listing) = from /\ \A i \in 1 .. from : listing[i] = rows[i]
      BY <1>1, <1>2, <2>1
    <3>2. /\ Len(listing \o SubSeq(rows, from + 1, to)) = to
          /\ \A i \in 1 .. to : (listing \o SubSeq(rows, from + 1, to))[i] = rows[i]
      BY <3>1, Continued, SMTT(40)
    <3>3. QED
      BY <3>2
  <2> HIDE DEF new
  <2>3. DOMAIN new = 1 .. to
    BY <1>3, <2>2
  <2>4. ASSUME Len(rows) <= end PROVE new = rows
    <3>1. to = Len(rows)
      BY <2>4 DEF to
    <3>2. QED
      BY <1>3, <2>2, <3>1, SeqEqual
  <2>5. QED
    BY <2>2, <2>3, <2>4
<1> HIDE DEF new
<1>5. QED
  BY <1>3, <1>4 DEF new, from, to, end

LEMMA ListSubjectsKeeps ==
  ASSUME PublishInv, NEW p \in Publishers, ListSubjects(p)
  PROVE  PublishInv'
<1>1. Quiet /\ pub[p].at = "subjects"
  BY DEF ListSubjects, Quiet
<1>2. /\ Growing /\ RemoteInv'
      /\ subjects' = subjects /\ private' = private /\ moves' = moves
  BY <1>1, QuietFacts
<1>3. CASE Fault(p)
  BY <1>1, <1>3, FaultKeeps
<1> DEFINE self == pub[p]
           end == self.page * SubjectPage
           last == Len(subjects) <= end
           new == self.listing \o SubSeq(subjects, end - SubjectPage + 1,
                                         IF last THEN Len(subjects) ELSE end)
           rec == [self EXCEPT
                     !.listing = @ \o SubSeq(subjects, end - SubjectPage + 1,
                                             IF last THEN Len(subjects) ELSE end),
                     !.page = IF last THEN 1 ELSE @ + 1,
                     !.at = IF last THEN "match" ELSE "subjects"]
<1>4. CASE Become(p, rec) /\ faults' = faults
  <2>1. /\ self \in PublisherStates /\ subjects \in Seq(SubjectRows)
        /\ self.listing \in Seq(SubjectRows) /\ self.page \in Nat \ {0}
        /\ Keeps(p, self)
    BY <1>2, OthersKeep DEF PublishInv, PublishTypes, PublisherStates
  <2>2. new \in Seq(SubjectRows)
    BY <2>1, NextPage
  <2>3. rec = [self EXCEPT !.listing = new, !.page = IF last THEN 1 ELSE self.page + 1,
                           !.at = IF last THEN "match" ELSE "subjects"]
    OBVIOUS
  <2>4. ASSUME ~self.shaken
        PROVE  /\ Len(new) = (IF last THEN Len(subjects) ELSE end)
               /\ \A i \in DOMAIN new : new[i] = subjects[i]
               /\ last => new = subjects
    <3>1. /\ Len(self.listing) = (self.page - 1) * SubjectPage
          /\ Len(self.listing) <= Len(subjects)
          /\ \A i \in DOMAIN self.listing : self.listing[i] = subjects[i]
      <4>1. CASE self.page = 1
        <5>1. self.listing = <<>> /\ Len(self.listing) = 0 /\ DOMAIN self.listing = {}
          BY <1>1, <4>1 DEF PublishInv, SubjectInv
        <5>2. (self.page - 1) * SubjectPage = 0 /\ Len(subjects) \in Nat
          BY <2>1, <4>1, PublishAssumption
        <5>3. QED
          BY <5>1, <5>2
      <4>2. CASE self.page # 1
        BY <1>1, <2>1, <2>4, <4>2 DEF PublishInv, SubjectInv
      <4>3. QED
        BY <4>1, <4>2
    <3>2. QED
      BY <2>1, <3>1, NextPage
  <2>5. end \in Nat /\ Len(subjects) \in Nat
    BY <2>1, PublishAssumption
  <2> HIDE DEF new
  <2>6. rec \in PublisherStates
    <3>1. ASSUME NEW r \in PublisherStates, NEW g \in Seq(SubjectRows), NEW m \in Nat \ {0},
                 NEW a \in {"match", "subjects"}
          PROVE  [r EXCEPT !.listing = g, !.page = m, !.at = a] \in PublisherStates
      BY DEF PublisherStates
    <3>2. /\ (IF last THEN 1 ELSE self.page + 1) \in Nat \ {0}
          /\ (IF last THEN "match" ELSE "subjects") \in {"match", "subjects"}
      BY <2>1
    <3> HIDE DEF rec, last, self
    <3>3. QED
      BY <2>1, <2>2, <2>3, <3>1, <3>2
  <2>7. /\ rec.at = (IF last THEN "match" ELSE "subjects")
        /\ rec.page = (IF last THEN 1 ELSE self.page + 1)
        /\ rec.listing = new /\ rec.found = self.found /\ rec.shaken = self.shaken
    BY <2>1, <2>3 DEF PublisherStates
  <2> HIDE DEF rec
  <2>8. (self.page + 1 - 1) * SubjectPage = end
    BY <2>1, PublishAssumption
  <2>9. Keeps(p, rec)
    <3>1. CASE last
      BY <1>1, <1>2, <2>1, <2>4, <2>6, <2>7, <3>1 DEF Keeps
    <3>2. CASE ~last
      <4>1. rec.at = "subjects" /\ rec.page = self.page + 1 /\ rec.page # 1
        BY <2>1, <2>7, <3>2
      <4>2. ~rec.shaken => /\ Len(rec.listing) = (rec.page - 1) * SubjectPage
                           /\ Len(rec.listing) < Len(subjects')
                           /\ \A i \in DOMAIN rec.listing : rec.listing[i] = subjects'[i]
        <5>1. ASSUME ~rec.shaken
              PROVE  /\ Len(new) = end /\ end < Len(subjects)
                     /\ \A i \in DOMAIN new : new[i] = subjects[i]
          BY <2>4, <2>5, <2>7, <3>2, <5>1
        <5>2. (rec.page - 1) * SubjectPage = end
          <6>1. rec.page - 1 = self.page + 1 - 1
            BY <2>1, <4>1
          <6>2. QED
            BY <2>8, <6>1
        <5> HIDE DEF end, self, last
        <5>3. QED
          BY <1>2, <2>7, <5>1, <5>2
      <4>3. QED
        BY <1>1, <1>2, <2>1, <2>6, <2>7, <4>1, <4>2 DEF Keeps
    <3>3. QED
      BY <3>1, <3>2
  <2>10. QED
    BY <1>2, <1>4, <2>9, OneMoves, FaultFacts
<1>5. QED
  BY <1>3, <1>4 DEF ListSubjects

\* The only candidate is the subject the target belongs to.
LEMMA OnlyCandidate ==
  ASSUME NEW rows, NEW n, Candidates(rows) = {n}
  PROVE  n \in DOMAIN rows /\ Belongs(rows, rows[n].id)
<1> DEFINE exact == {i \in DOMAIN rows : rows[i].uri}
           named == {i \in DOMAIN rows : rows[i].host}
           Exact == {s \in ToSet(rows) : s.uri}
           Named == {s \in ToSet(rows) : s.host}
<1>1. {n} = IF exact # {} THEN exact ELSE named
  BY DEF Candidates
<1>2. /\ exact # {} <=> Exact # {}
      /\ Exact = {rows[i] : i \in exact} /\ Named = {rows[i] : i \in named}
  BY DEF ToSet
<1>3. (IF Exact # {} THEN Exact ELSE Named) = {rows[n]}
  BY <1>1, <1>2
<1>4. n \in DOMAIN rows
  BY <1>1
<1>5. {s.id : s \in IF Exact # {} THEN Exact ELSE Named} = {rows[n].id}
  <2> HIDE DEF Exact, Named
  <2>1. QED
    BY <1>3
<1>6. QED
  BY <1>4, <1>5 DEF Belongs

LEMMA MatchKeeps ==
  ASSUME PublishInv, NEW p \in Publishers, Match(p)
  PROVE  PublishInv'
<1>1. Quiet /\ pub[p].at = "match" /\ faults' = faults
  BY DEF Match, Quiet
<1>2. /\ Growing /\ RemoteInv' /\ faults' \in 0 .. MaxFaults
      /\ subjects' = subjects /\ private' = private /\ moves' = moves
  BY <1>1, QuietFacts, FaultFacts
<1>3. CASE GiveUp(p)
  BY <1>2, <1>3, EndKeeps DEF GiveUp
<1> DEFINE self == pub[p]
           Rec(n) == [self EXCEPT !.at = "submit", !.subject = self.listing[n].id,
               !.listing = <<>>]
<1>4. CASE \E n \in Candidates(self.listing) : Candidates(self.listing) = {n} /\ Become(p, Rec(n))
  <2>1. PICK n \in Candidates(self.listing) :
              Candidates(self.listing) = {n} /\ Become(p, Rec(n))
    BY <1>4
  <2>2. n \in DOMAIN self.listing /\ Belongs(self.listing, self.listing[n].id)
    BY <2>1, OnlyCandidate
  <2>3. /\ self \in PublisherStates /\ self.listing \in Seq(SubjectRows)
        /\ Keeps(p, self)
    BY <1>2, OthersKeep DEF PublishInv, PublishTypes, PublisherStates
  <2>4. self.listing[n].id \in Nat /\ <<>> \in Seq(SubjectRows)
    <3>1. self.listing[n] \in SubjectRows
      BY <2>2, <2>3
    <3>2. QED
      BY <3>1 DEF SubjectRows
  <2> DEFINE rec == Rec(n)
  <2>5. /\ rec \in PublisherStates /\ rec.at = "submit" /\ rec.found = self.found
        /\ rec.subject = self.listing[n].id /\ rec.shaken = self.shaken
    <3>1. ASSUME NEW r \in PublisherStates, NEW i \in Nat, NEW g \in Seq(SubjectRows)
          PROVE  [r EXCEPT !.at = "submit", !.subject = i, !.listing = g] \in PublisherStates
      BY DEF PublisherStates
    <3> DEFINE id == self.listing[n].id
               none == <<>>
    <3>2. rec = [self EXCEPT !.at = "submit", !.subject = id, !.listing = none]
      OBVIOUS
    <3>3. id \in Nat /\ none \in Seq(SubjectRows) /\ self \in PublisherStates
      BY <2>3, <2>4
    <3>4. /\ rec.at = "submit" /\ rec.found = self.found
          /\ rec.subject = id /\ rec.shaken = self.shaken
      <4> HIDE DEF id, none, self
      <4>1. QED
        BY <3>2, <3>3 DEF PublisherStates
    <3> HIDE DEF id, none, rec, self
    <3>5. rec \in PublisherStates
      BY <3>1, <3>2, <3>3
    <3>6. QED
      BY <3>4, <3>5 DEF id
  <2> HIDE DEF rec
  <2>6. ~rec.shaken => Belongs(subjects', rec.subject)
    BY <1>1, <1>2, <2>2, <2>5 DEF PublishInv, SubjectInv
  <2>7. Keeps(p, rec)
    BY <1>1, <2>3, <2>5, <2>6 DEF Keeps
  <2>8. Become(p, rec)
    BY <2>1 DEF rec
  <2>9. QED
    BY <1>2, <2>7, <2>8, OneMoves
<1>5. QED
  BY <1>3, <1>4 DEF Match

\* What the owner does that no publisher notices.
LEMMA NobodyMoves ==
  ASSUME PublishInv, Growing, subjects' = subjects, remote' = remote, pub' = pub,
         private' \in BOOLEAN, faults' = faults, moves' \in 0 .. MaxMoves
  PROVE  PublishInv'
<1>1. \A q \in Publishers : Keeps(q, pub'[q])
  BY OthersKeep
<1>2. RemoteInv'
  BY RemoteKept
<1>3. /\ issues' \in Seq(Issues) /\ subjects' \in Seq(SubjectRows) /\ faults' \in 0 .. MaxFaults
      /\ pub' \in [Publishers -> PublisherStates]
  BY DEF PublishInv, PublishTypes, Growing
<1>4. QED
  BY <1>1, <1>2, <1>3, EachKeeps

LEMMA MoveFacts ==
  ASSUME PublishInv, Move
  PROVE  moves' \in 0 .. MaxMoves
BY PublishAssumption DEF PublishInv, PublishTypes, Move

LEMMA CloseKeeps ==
  ASSUME PublishInv
  PROVE  /\ \A k \in DOMAIN issues : CloseIssue(k) => PublishInv'
         /\ ChangeVisibility => PublishInv'
         /\ UNCHANGED publishVars => PublishInv'
<1>1. issues \in Seq(Issues) /\ private \in BOOLEAN /\ moves \in 0 .. MaxMoves
  BY DEF PublishInv, PublishTypes
<1>2. ASSUME NEW k \in DOMAIN issues, CloseIssue(k) PROVE PublishInv'
  <2>1. issues' = [issues EXCEPT ![k].closed = TRUE]
    BY <1>2 DEF CloseIssue
  <2>2. [issues[k] EXCEPT !.closed = TRUE] \in Issues
    <3>1. \A i \in Issues : [i EXCEPT !.closed = TRUE] \in Issues
      BY DEF Issues
    <3>2. issues[k] \in Issues
      BY <1>1, <1>2
    <3>3. QED
      BY <3>1, <3>2
  <2>3. /\ issues' \in Seq(Issues) /\ Len(issues') = Len(issues)
        /\ \A j \in DOMAIN issues : /\ issues'[j].fp = issues[j].fp
                                    /\ issues'[j].labelled = issues[j].labelled
    BY <1>1, <1>2, <2>1, <2>2 DEF Issues
  <2>4. Growing
    BY <1>1, <2>3 DEF Growing
  <2>5. QED
    BY <1>1, <1>2, <2>4, NobodyMoves, MoveFacts DEF CloseIssue
<1>3. ASSUME ChangeVisibility PROVE PublishInv'
  BY <1>1, <1>3, SameGrows, NobodyMoves, MoveFacts DEF ChangeVisibility
<1>4. ASSUME UNCHANGED publishVars PROVE PublishInv'
  BY <1>1, <1>4, SameGrows, NobodyMoves DEF publishVars
<1>5. QED
  BY <1>2, <1>3, <1>4

\* What a change by the owner leaves of what the publishers know.
LEMMA ShakenFacts ==
  ASSUME PublishInv, NEW reading, NEW read, Shake(reading, read)
  PROVE  /\ pub' \in [Publishers -> PublisherStates]
         /\ \A q \in Publishers :
              /\ pub'[q].shaken \in BOOLEAN
              /\ pub'[q].shaken <=> \/ pub[q].shaken
                                    \/ pub[q].at = reading /\ pub[q].page > 1
                                    \/ pub[q].at \in read
              /\ pub'[q].at = pub[q].at /\ pub'[q].page = pub[q].page
              /\ pub'[q].found = pub[q].found /\ pub'[q].since = pub[q].since
              /\ pub'[q].listing = pub[q].listing /\ pub'[q].subject = pub[q].subject
<1> DEFINE Now(q) == pub[q].shaken \/ (pub[q].at = reading /\ pub[q].page > 1) \/ pub[q].at \in read
<1>1. \A q \in Publishers : pub[q] \in PublisherStates
  BY DEF PublishInv, PublishTypes
<1>2. pub' = [q \in Publishers |-> [pub[q] EXCEPT !.shaken = Now(q)]]
  BY DEF Shake
<1>3. \A q \in Publishers : Now(q) \in BOOLEAN
  BY <1>1 DEF PublisherStates
<1>4. ASSUME NEW r \in PublisherStates, NEW b \in BOOLEAN, NEW t, t = [r EXCEPT !.shaken = b]
      PROVE  /\ t \in PublisherStates /\ t.shaken = b /\ t.at = r.at /\ t.page = r.page
             /\ t.found = r.found /\ t.since = r.since /\ t.listing = r.listing
             /\ t.subject = r.subject
  BY <1>4 DEF PublisherStates
<1> HIDE DEF Now
<1>5. ASSUME NEW q \in Publishers
      PROVE  /\ pub'[q] \in PublisherStates /\ pub'[q].shaken = Now(q)
             /\ pub'[q].at = pub[q].at /\ pub'[q].page = pub[q].page
             /\ pub'[q].found = pub[q].found /\ pub'[q].since = pub[q].since
             /\ pub'[q].listing = pub[q].listing /\ pub'[q].subject = pub[q].subject
  <2>1. pub'[q] = [pub[q] EXCEPT !.shaken = Now(q)]
    BY <1>2
  <2>2. pub[q] \in PublisherStates /\ Now(q) \in BOOLEAN
    BY <1>1, <1>3
  <2>3. QED
    BY <1>4, <2>1, <2>2
<1>6. pub' \in [Publishers -> PublisherStates]
  BY <1>2, <1>5
<1>7. QED
  BY <1>3, <1>5, <1>6 DEF Now

\* A label taken away moves the rows under whoever has begun to read them.
LEMMA RemoveLabelKeeps ==
  ASSUME PublishInv, NEW k \in DOMAIN issues, RemoveLabel(k)
  PROVE  PublishInv'
<1>1. /\ issues' = [issues EXCEPT ![k].labelled = FALSE] /\ Shake("list", {"create"})
      /\ private' = private /\ subjects' = subjects /\ remote' = remote /\ faults' = faults
      /\ moves' \in 0 .. MaxMoves
  BY MoveFacts DEF RemoveLabel
<1>2. /\ issues \in Seq(Issues) /\ private \in BOOLEAN /\ subjects \in Seq(SubjectRows)
      /\ faults \in 0 .. MaxFaults /\ \A q \in Publishers : pub[q] \in PublisherStates
  BY DEF PublishInv, PublishTypes
<1>3. /\ issues' \in Seq(Issues) /\ Len(issues') = Len(issues)
      /\ \A j \in DOMAIN issues : j \in DOMAIN issues' /\ issues'[j].fp = issues[j].fp
  <2>1. \A i \in Issues : [i EXCEPT !.labelled = FALSE] \in Issues
                          /\ [i EXCEPT !.labelled = FALSE].fp = i.fp
    BY DEF Issues
  <2>2. issues[k] \in Issues
    BY <1>2
  <2>3. QED
    BY <1>1, <1>2, <2>1, <2>2
<1>4. ASSUME NEW j \in DOMAIN issues' PROVE Cardinality(NewerRows(j)') \in Nat
  <2>1. Len(issues') \in Nat /\ DOMAIN issues' = 1 .. Len(issues')
    BY <1>3
  <2>2. NewerRows(j)' \subseteq 1 .. Len(issues')
    BY <2>1 DEF NewerRows, Rows
  <2>3. IsFiniteSet(1 .. Len(issues'))
    BY <2>1, FS_Interval
  <2>4. QED
    BY <2>2, <2>3, FS_Subset, FS_CardinalityType
<1>5. RemoteInv'
  BY <1>1, <1>3 DEF PublishInv, RemoteInv
<1>6. ASSUME NEW q \in Publishers PROVE Keeps(q, pub'[q])
  <2>1. /\ pub'[q] \in PublisherStates /\ pub'[q].at = pub[q].at /\ pub'[q].page = pub[q].page
        /\ pub'[q].found = pub[q].found /\ pub'[q].since = pub[q].since
        /\ pub'[q].listing = pub[q].listing /\ pub'[q].subject = pub[q].subject
        /\ ~pub'[q].shaken => /\ ~pub[q].shaken /\ pub[q].at # "create"
                              /\ pub[q].at = "list" => ~(pub[q].page > 1)
    BY <1>1, ShakenFacts
  <2>2. ASSUME pub[q].at \in {"list", "create"}, ~pub'[q].shaken
        PROVE  /\ pub[q].at = "list"
               /\ \A j \in 1 .. pub[q].since :
                    Cardinality(NewerRows(j)') >= (pub[q].page - 1) * PageSize
    <3>1. pub[q].at = "list" /\ pub[q].page = 1
      BY <1>2, <2>1, <2>2 DEF PublisherStates
    <3>2. (pub[q].page - 1) * PageSize = 0
      BY <3>1, PublishAssumption
    <3>3. \A j \in 1 .. pub[q].since : j \in DOMAIN issues'
      BY <1>2, <1>3, <2>2 DEF PublishInv, ListedInv, PublisherStates
    <3>4. QED
      BY <1>4, <3>1, <3>2, <3>3
  <2>3. \A f \in Fingerprints : pub[q].found[f] # 0 =>
          pub[q].found[f] \in DOMAIN issues' /\ issues'[pub[q].found[f]].fp = f
    BY <1>3 DEF PublishInv, FoundInv
  <2>4. Option[q].github /\ pub[q].at \in {"subjects", "match", "submit"} =>
          \A r \in Findings[q] : pub[q].found[r.fp] # 0
    BY DEF PublishInv, LinkedInv, Todo
  <2>5. pub[q].at \in {"list", "create"} =>
          pub[q].since <= Len(issues') /\ (pub[q].at = "list" => pub[q].page <= MaxPages)
    BY <1>3 DEF PublishInv, ListedInv
  <2>6. /\ pub[q].at = "subjects" =>
             /\ pub[q].page = 1 => pub[q].listing = <<>>
             /\ pub[q].page > 1 /\ ~pub[q].shaken =>
                  /\ Len(pub[q].listing) = (pub[q].page - 1) * SubjectPage
                  /\ Len(pub[q].listing) < Len(subjects')
                  /\ \A n \in DOMAIN pub[q].listing : pub[q].listing[n] = subjects'[n]
        /\ pub[q].at = "match" /\ ~pub[q].shaken => pub[q].listing = subjects'
        /\ pub[q].at = "submit" /\ ~pub[q].shaken => Belongs(subjects', pub[q].subject)
    BY <1>1 DEF PublishInv, SubjectInv
  <2>7. QED
    BY <2>1, <2>2, <2>3, <2>4, <2>5, <2>6 DEF Keeps
<1>7. QED
  BY <1>1, <1>2, <1>3, <1>5, <1>6, ShakenFacts, EachKeeps

\* So does a subject taken away, for whoever has read subjects already.
LEMMA RemoveSubjectKeeps ==
  ASSUME PublishInv, NEW n \in DOMAIN subjects, RemoveSubject(n)
  PROVE  PublishInv'
<1>1. /\ subjects' = RemoveAt(subjects, n) /\ Shake("subjects", {"match", "submit"})
      /\ issues' = issues /\ private' = private /\ remote' = remote /\ faults' = faults
      /\ moves' \in 0 .. MaxMoves
  BY MoveFacts DEF RemoveSubject
<1>2. /\ issues \in Seq(Issues) /\ private \in BOOLEAN /\ subjects \in Seq(SubjectRows)
      /\ faults \in 0 .. MaxFaults /\ \A q \in Publishers : pub[q] \in PublisherStates
  BY DEF PublishInv, PublishTypes
<1>3. subjects' \in Seq(SubjectRows)
  <2>1. n \in 1 .. Len(subjects) /\ Len(subjects) \in Nat
    BY <1>2
  <2>2. 0 \in Nat /\ n - 1 \in Nat /\ n \in Nat /\ n - 1 <= Len(subjects)
    BY <2>1
  <2>3. /\ SubSeq(subjects, 0 + 1, n - 1) \in Seq(SubjectRows)
        /\ SubSeq(subjects, n + 1, Len(subjects)) \in Seq(SubjectRows)
    BY <1>2, <2>1, <2>2, PartFits
  <2>4. QED
    BY <1>1, <2>3, ConcatProperties DEF RemoveAt
<1>4. Growing /\ RemoteInv'
  BY <1>1, SameGrows, RemoteKept
<1>5. ASSUME NEW q \in Publishers PROVE Keeps(q, pub'[q])
  <2>1. /\ pub'[q] \in PublisherStates /\ pub'[q].at = pub[q].at /\ pub'[q].page = pub[q].page
        /\ pub'[q].found = pub[q].found /\ pub'[q].since = pub[q].since
        /\ pub'[q].listing = pub[q].listing /\ pub'[q].subject = pub[q].subject
        /\ ~pub'[q].shaken => /\ ~pub[q].shaken /\ pub[q].at \notin {"match", "submit"}
                              /\ pub[q].at = "subjects" => ~(pub[q].page > 1)
    BY <1>1, ShakenFacts
  <2>2. pub[q].at = "subjects" /\ pub[q].page = 1 => pub[q].listing = <<>>
    BY DEF PublishInv, SubjectInv
  <2>3. \A f \in Fingerprints : pub[q].found[f] # 0 =>
          pub[q].found[f] \in DOMAIN issues' /\ issues'[pub[q].found[f]].fp = f
    BY <1>1 DEF PublishInv, FoundInv
  <2>4. Option[q].github /\ pub[q].at \in {"subjects", "match", "submit"} =>
          \A r \in Findings[q] : pub[q].found[r.fp] # 0
    BY DEF PublishInv, LinkedInv, Todo
  <2>5. \A k, f : Marked(k, f)' = Marked(k, f) /\ NewerRows(k)' = NewerRows(k)
    BY <1>1 DEF Marked, NewerRows, Rows
  <2>6. pub[q].at \in {"list", "create"} =>
          /\ pub[q].since <= Len(issues')
          /\ pub[q].at = "list" => pub[q].page <= MaxPages
          /\ ~pub[q].shaken => \A f \in Fingerprints, k \in 1 .. pub[q].since :
               Marked(k, f) =>
                 \/ pub[q].found[f] # 0
                 \/ Cardinality(NewerRows(k)) >=
                      (IF pub[q].at = "list" THEN pub[q].page - 1 ELSE MaxPages) * PageSize
    BY <1>1 DEF PublishInv, ListedInv, PagesRead
  <2>7. QED
    BY <2>1, <2>2, <2>3, <2>4, <2>5, <2>6 DEF Keeps
<1>6. QED
  BY <1>1, <1>2, <1>3, <1>4, <1>5, ShakenFacts, EachKeeps

\* Nobody has begun and nothing is recorded.
LEMMA PublishStarts ==
  ASSUME PublishInit
  PROVE  PublishInv
<1>1. Fresh("idle") \in PublisherStates
  BY FreshIs
<1>2. /\ issues \in Seq(Issues) /\ subjects \in Seq(SubjectRows) /\ private \in BOOLEAN
      /\ faults \in 0 .. MaxFaults /\ moves \in 0 .. MaxMoves /\ remote = {}
      /\ pub \in [Publishers -> PublisherStates]
      /\ \A p \in Publishers : pub[p] = Fresh("idle")
  BY <1>1, PublishAssumption DEF PublishInit
<1>3. \A p \in Publishers : pub[p].at = "idle" /\ \A f \in Fingerprints : pub[p].found[f] = 0
  BY <1>2, FreshIs
<1>4. PublishTypes /\ RemoteInv
  BY <1>2 DEF PublishTypes, RemoteInv
<1>5. FoundInv /\ LinkedInv /\ ListedInv /\ SubjectInv
  BY <1>3 DEF FoundInv, LinkedInv, ListedInv, SubjectInv
<1>6. QED
  BY <1>4, <1>5 DEF PublishInv

LEMMA PublishKept ==
  ASSUME PublishInv, [PublishNext]_publishVars
  PROVE  PublishInv'
<1>1. CASE Owner
  <2>1. ASSUME NEW k \in DOMAIN issues, CloseIssue(k) \/ RemoveLabel(k) PROVE PublishInv'
    BY <2>1, CloseKeeps, RemoveLabelKeeps
  <2>2. ASSUME NEW n \in DOMAIN subjects, RemoveSubject(n) PROVE PublishInv'
    BY <2>2, RemoveSubjectKeeps
  <2>3. QED
    BY <1>1, <2>1, <2>2, CloseKeeps DEF Owner
<1>2. ASSUME NEW p \in Publishers, Work(p) PROVE PublishInv'
  BY <1>2, LoadKeeps, CheckKeeps, ListKeeps, CreateKeeps, DoneStopRerunKeep, ListSubjectsKeeps,
     MatchKeeps, SubmitKeeps DEF Work
<1>3. ASSUME NEW p \in Publishers, Rerun(p) PROVE PublishInv'
  BY <1>3, DoneStopRerunKeep
<1>4. CASE UNCHANGED publishVars
  BY <1>4, CloseKeeps
<1>5. QED
  BY <1>1, <1>2, <1>3, <1>4 DEF PublishNext

\* What a publisher knows is true of the repository and of SecMan, whatever
\* the others and the owner do meanwhile (code_audit.py:320, cli.py:846,
\* secman.py:110).
THEOREM PublishInvariance == Publishing => []PublishInv
<1>1. PublishInit => PublishInv
  BY PublishStarts
<1>2. PublishInv /\ [PublishNext]_publishVars => PublishInv'
  BY PublishKept
<1>3. QED
  BY <1>1, <1>2, PTL DEF Publishing

\* A second issue for a finding has a cause (code_audit.py:373): whoever still
\* has it to create has read every row that held the first one.
THEOREM SecondIssuesHaveACause == Publishing => []DuplicatesHaveACause
<1>1. ASSUME PublishInv PROVE DuplicatesHaveACause
  <2>1. PublishTypes
    BY <1>1 DEF PublishInv
  <2>2. ASSUME NEW p \in Publishers, pub[p].at = "create", NEW r \in Todo(p),
               NEW k \in 1 .. pub[p].since, Marked(k, r.fp), ~pub[p].shaken
        PROVE  Cardinality(NewerRows(k)) >= PageSize * MaxPages
    <3>1. r.fp \in Fingerprints /\ pub[p].found[r.fp] = 0
      BY FindingsFit DEF Todo
    <3>2. Cardinality(NewerRows(k)) >= PagesRead(p) * PageSize
      BY <1>1, <2>2, <3>1 DEF PublishInv, ListedInv
    <3>3. PagesRead(p) * PageSize = PageSize * MaxPages
      BY <2>2, PublishAssumption DEF PagesRead
    <3>4. QED
      BY <3>2, <3>3
  <2>3. QED
    BY <2>1, <2>2 DEF DuplicatesHaveACause
<1>2. QED
  BY <1>1, PublishInvariance, PTL

\* A run is submitted with all its issues and for the target's subject
\* (cli.py:873).
THEOREM SubmissionsAreTrue == Publishing => []SubmissionIsTrue
<1>1. ASSUME PublishInv PROVE SubmissionIsTrue
  <2>1. ASSUME NEW p \in Publishers, pub[p].at = "submit", Option[p].github,
               NEW r \in Findings[p]
        PROVE  pub[p].found[r.fp] \in DOMAIN issues /\ issues[pub[p].found[r.fp]].fp = r.fp
    <3>1. r.fp \in Fingerprints
      BY FindingsFit
    <3>2. r \notin Todo(p)
      BY <1>1, <2>1 DEF PublishInv, LinkedInv
    <3>3. pub[p].found[r.fp] # 0
      BY <3>2 DEF Todo
    <3>4. QED
      BY <1>1, <3>1, <3>3 DEF PublishInv, FoundInv
  <2>2. ASSUME NEW p \in Publishers, pub[p].at = "submit"
        PROVE  pub[p].shaken \/ Belongs(subjects, pub[p].subject)
    BY <1>1, <2>2 DEF PublishInv, SubjectInv
  <2>3. QED
    BY <2>1, <2>2 DEF SubmissionIsTrue
<1>2. QED
  BY <1>1, PublishInvariance, PTL

\* A publisher's runs are one run for SecMan, over ceilings, lost answers and
\* reruns, unless a finding has two issues (code_audit.py:436).
THEOREM RetriesAreTheSameRun == Publishing => []RetriesKeepTheRun
<1>1. ASSUME PublishInv, NEW s \in remote, NEW t \in remote, s # t, s.by = t.by,
             Option[s.by].github, s.body.subject = t.body.subject
      PROVE  \E x \in s.body.findings, y \in t.body.findings :
                /\ x.finding = y.finding /\ x.link # y.link
                /\ \A k \in {x.link, y.link} :
                     k \in DOMAIN issues /\ issues[k].fp = x.finding.fp
  <2> DEFINE S == s.body.findings
             T == t.body.findings
  <2>1. ASSUME NEW u \in {s, t}
        PROVE  /\ u = [by |-> u.by, body |-> u.body]
               /\ u.body = [subject |-> u.body.subject, commit |-> Option[u.by].commit,
                            findings |-> u.body.findings]
               /\ {x.finding : x \in u.body.findings} = Findings[u.by]
               /\ \A x \in u.body.findings :
                    /\ x = [finding |-> x.finding, link |-> x.link]
                    /\ Option[u.by].github =>
                         x.link \in DOMAIN issues /\ issues[x.link].fp = x.finding.fp
    BY <1>1, <2>1 DEF PublishInv, RemoteInv
  <2>2. S # T
    BY <1>1, <2>1
  <2>3. {x.finding : x \in S} = {y.finding : y \in T}
    BY <1>1, <2>1
  <2>4. /\ \A x \in S : x = [finding |-> x.finding, link |-> x.link]
        /\ \A x \in S : x.link \in DOMAIN issues /\ issues[x.link].fp = x.finding.fp
        /\ \A y \in T : y = [finding |-> y.finding, link |-> y.link]
        /\ \A y \in T : y.link \in DOMAIN issues /\ issues[y.link].fp = y.finding.fp
    BY <1>1, <2>1
  <2> HIDE DEF S, T
  <2>5. PICK x \in S, y \in T : x.finding = y.finding /\ x # y
    <3>1. CASE \E x \in S : x \notin T
      BY <2>3, <3>1
    <3>2. CASE \E y \in T : y \notin S
      BY <2>3, <3>2
    <3>3. QED
      BY <2>2, <3>1, <3>2
  <2>6. x.link # y.link
    BY <2>4, <2>5
  <2>7. QED
    BY <2>4, <2>5, <2>6 DEF S, T
<1>2. PublishInv => RetriesKeepTheRun
  BY <1>1 DEF RetriesKeepTheRun
<1>3. QED
  BY <1>2, PublishInvariance, PTL

=============================================================================
