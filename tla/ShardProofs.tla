---------------------------- MODULE ShardProofs ----------------------------
(***************************************************************************)
(* Proofs about one shard, for every set of requests and for both kinds of *)
(* consumer: its types and its wake protocol.                              *)
(***************************************************************************)
EXTENDS ConditionShard, TLAPS

LEMMA InitTypeOK == Init => TypeOK
BY DEF Init, TypeOK, WakeCap

\* Every step of the shard keeps the types; appending and swapping are the
\* only steps that build a sequence.
LEMMA NextTypeOK == ASSUME TypeOK, [Next]_shard PROVE TypeOK'
<1> USE ShardAssumption DEF TypeOK, WakeCap
<1>1. ASSUME NEW r \in Requests, EnqueueAppend(r) PROVE TypeOK'
  BY <1>1 DEF EnqueueAppend
<1>2. ASSUME NEW r \in Requests, EnqueueWake(r) PROVE TypeOK'
  BY <1>2 DEF EnqueueWake
<1>3. CASE ReceiveWake
  BY <1>3 DEF ReceiveWake
<1>4. CASE LingerWake
  BY <1>4 DEF LingerWake
<1>5. CASE LingerTimer
  BY <1>5 DEF LingerTimer
<1>6. CASE TakeAll
  BY <1>6 DEF TakeAll
<1>7. CASE FinishBatch
  BY <1>7 DEF FinishBatch
<1>8. CASE UNCHANGED shard
  BY <1>8 DEF shard
<1> QED
  BY <1>1, <1>2, <1>3, <1>4, <1>5, <1>6, <1>7, <1>8
  DEF Next, Enqueue, Consume

LEMMA InitNoLostWakeup == Init => NoLostWakeup
BY DEF Init, NoLostWakeup

\* The wake-up invariant is inductive.  The consumer takes a token only to look
\* at the queue afterwards, and goes back to the channel only when the queue
\* was empty under the lock; whoever appends owes a token from then on, and a
\* token that is dropped finds another one in the channel.
LEMMA NextNoLostWakeup ==
    ASSUME TypeOK, NoLostWakeup, [Next]_shard PROVE NoLostWakeup'
<1> USE ShardAssumption DEF TypeOK, NoLostWakeup, WakeCap
<1>1. ASSUME NEW r \in Requests, EnqueueAppend(r) PROVE NoLostWakeup'
  <2>1. send'[r] = "appended"
    BY <1>1 DEF EnqueueAppend
  <2> QED BY <2>1
<1>2. ASSUME NEW r \in Requests, EnqueueWake(r) PROVE NoLostWakeup'
  <2>1. wake' > 0
    BY <1>2 DEF EnqueueWake
  <2> QED BY <2>1
<1>3. CASE ReceiveWake
  BY <1>3 DEF ReceiveWake
<1>4. CASE LingerWake
  BY <1>4 DEF LingerWake
<1>5. CASE LingerTimer
  BY <1>5 DEF LingerTimer
<1>6. CASE TakeAll
  BY <1>6 DEF TakeAll
<1>7. CASE FinishBatch
  BY <1>7 DEF FinishBatch
<1>8. CASE UNCHANGED shard
  BY <1>8 DEF shard
<1> QED
  BY <1>1, <1>2, <1>3, <1>4, <1>5, <1>6, <1>7, <1>8
  DEF Next, Enqueue, Consume

\* The types of a shard hold for any set of requests: in particular its channel
\* never holds a second token, so that no handler blocks in enqueue.
THEOREM ShardTypeCorrect == Spec => []TypeOK
<1>1. TypeOK /\ [Next]_shard => TypeOK'
  BY NextTypeOK
<1> QED
  BY InitTypeOK, <1>1, PTL DEF Spec

\* Requests never wait in a shard whose consumer sleeps with no wake-up due,
\* however many handlers enqueue at the same time.
THEOREM ShardNoLostWakeup == Spec => []NoLostWakeup
<1>1. TypeOK /\ NoLostWakeup /\ [Next]_shard => NoLostWakeup'
  BY NextNoLostWakeup
<1> QED
  BY InitNoLostWakeup, ShardTypeCorrect, <1>1, PTL DEF Spec
=============================================================================
