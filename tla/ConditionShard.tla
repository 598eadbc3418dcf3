--------------------------- MODULE ConditionShard ---------------------------
(***************************************************************************)
(* One conditionMemShard: a slice q under a mutex, a channel wake of       *)
(* capacity 1, the HTTP handlers that enqueue and the one goroutine that   *)
(* drains it.  The same struct is used twice per shard index, with two     *)
(* different consumers: conditionMemWriter (BatchWait = FALSE) and         *)
(* conditionDBWriter (BatchWait = TRUE), which after its wake-up lingers   *)
(* in waitConditionBatch before it drains.                                 *)
(*                                                                         *)
(* What the consumer does with a batch is left to the modules that build   *)
(* on this one: here a batch is only taken and finished.                   *)
(***************************************************************************)
EXTENDS Integers, Sequences

CONSTANTS Requests,   \* the POST requests routed to this shard
          BatchWait   \* does the consumer call waitConditionBatch?

ASSUME ShardAssumption == BatchWait \in BOOLEAN

VARIABLES q,      \* s.q: the queued requests
          wake,   \* number of tokens in the channel s.wake
          send,   \* how far the handler of each request is in enqueue
          pc,     \* control state of the consumer goroutine
          batch   \* what takeAll returned to the consumer

shard == <<q, wake, send, pc, batch>>

\* The channel is made with capacity 1.
WakeCap == 1

Init ==
    /\ q = <<>>
    /\ wake = 0
    /\ send = [r \in Requests |-> "new"]
    /\ pc = "wait"
    /\ batch = <<>>

----------------------------------------------------------------------------
\* Mutant of EnqueueAppend: the newest request jumps the queue.
EnqueuePrepend(r) ==
    /\ send[r] = "new"
    /\ q' = <<r>> \o q
    /\ send' = [send EXCEPT ![r] = "appended"]
    /\ UNCHANGED <<wake, pc, batch>>

\* enqueue, first half: append under s.mu.
EnqueueAppend(r) ==
    /\ send[r] = "new"
    /\ q' = Append(q, r)
    /\ send' = [send EXCEPT ![r] = "appended"]
    /\ UNCHANGED <<wake, pc, batch>>

\* enqueue, second half: the select sends a token unless the channel is full.
EnqueueWake(r) ==
    /\ send[r] = "appended"
    /\ wake' = IF wake < WakeCap THEN wake + 1 ELSE wake
    /\ send' = [send EXCEPT ![r] = "sent"]
    /\ UNCHANGED <<q, pc, batch>>

\* "for range s.wake": the consumer receives a token.
ReceiveWake ==
    /\ pc = "wait"
    /\ wake > 0
    /\ wake' = wake - 1
    /\ pc' = IF BatchWait THEN "linger" ELSE "take"
    /\ UNCHANGED <<q, send, batch>>

\* waitConditionBatch returns because of a second token ...
LingerWake ==
    /\ pc = "linger"
    /\ wake > 0
    /\ wake' = wake - 1
    /\ pc' = "take"
    /\ UNCHANGED <<q, send, batch>>

\* Mutant of LingerTimer: a timeout is taken for "nothing to do".
LingerTimerGivesUp ==
    /\ pc = "linger"
    /\ pc' = "wait"
    /\ UNCHANGED <<q, wake, send, batch>>

\* ... or because its timer fired.
LingerTimer ==
    /\ pc = "linger"
    /\ pc' = "take"
    /\ UNCHANGED <<q, wake, send, batch>>

\* Mutant of TakeAll: the queue is copied, not swapped out.
CopyAll ==
    /\ pc = "take"
    /\ pc' = IF q = <<>> THEN "wait" ELSE "work"
    /\ batch' = q
    /\ UNCHANGED <<q, wake, send>>

\* takeAll swaps the whole queue out; on an empty one the inner loop breaks
\* and the consumer goes back to the channel.
TakeAll ==
    /\ pc = "take"
    /\ pc' = IF q = <<>> THEN "wait" ELSE "work"
    /\ batch' = q
    /\ q' = <<>>
    /\ UNCHANGED <<wake, send>>

\* The consumer is through with its batch and calls takeAll again.
FinishBatch ==
    /\ pc = "work"
    /\ pc' = "take"
    /\ batch' = <<>>
    /\ UNCHANGED <<q, wake, send>>

Enqueue(r) == EnqueueAppend(r) \/ EnqueueWake(r)
Consume == ReceiveWake \/ LingerWake \/ LingerTimer \/ TakeAll \/ FinishBatch

Next == (\E r \in Requests : Enqueue(r)) \/ Consume

Spec == Init /\ [][Next]_shard

\* The Go scheduler runs every goroutine that can run: a handler inside
\* enqueue finishes it, the consumer keeps going.  No request has to arrive.
ShardFairness ==
    /\ \A r \in Requests : WF_shard(EnqueueWake(r))
    /\ WF_shard(ReceiveWake)
    /\ WF_shard(LingerTimer)
    /\ WF_shard(TakeAll)
    /\ WF_shard(FinishBatch)

FairSpec == Spec /\ ShardFairness

----------------------------------------------------------------------------
\* The requests that occur in a sequence.
InSeq(r, s) == \E k \in DOMAIN s : s[k] = r

\* Types: in particular the channel never holds more than its capacity.
TypeOK ==
    /\ q \in Seq(Requests)
    /\ wake \in 0..WakeCap
    /\ send \in [Requests -> {"new", "appended", "sent"}]
    /\ pc \in {"wait", "linger", "take", "work"}
    /\ batch \in Seq(Requests)

\* No lost wake-up: whenever requests are queued while the consumer is blocked
\* on the channel, a token is in it or some handler is just about to send one.
\* Were this false, accepted conditions would sit in the queue until the next
\* POST to the same shard.
NoLostWakeup ==
    q # <<>> => \/ wake > 0
                \/ pc # "wait"
                \/ \E r \in Requests : send[r] = "appended"
=============================================================================
