----------------------------- MODULE ShardFifo -----------------------------
(***************************************************************************)
(* ConditionShard with two history variables, the order in which requests  *)
(* were appended and the order in which the consumer finished them, and    *)
(* the proof obligation they exist for: the shard implements the Mailbox.  *)
(* The history variables constrain nothing.                                *)
(***************************************************************************)
EXTENDS ConditionShard

VARIABLES arrived,    \* requests in the order EnqueueAppend saw them
          processed   \* requests of the batches finished so far, in order

fifo == <<q, wake, send, pc, batch, arrived, processed>>

FifoInit == Init /\ arrived = <<>> /\ processed = <<>>

HistAppend(r) ==
    /\ EnqueueAppend(r)
    /\ arrived' = Append(arrived, r)
    /\ UNCHANGED processed

HistFinish ==
    /\ FinishBatch
    /\ processed' = processed \o batch
    /\ UNCHANGED arrived

HistOther ==
    /\ \/ \E r \in Requests : EnqueueWake(r)
       \/ ReceiveWake
       \/ LingerWake
       \/ LingerTimer
       \/ TakeAll
    /\ UNCHANGED <<arrived, processed>>

FifoNext == (\E r \in Requests : HistAppend(r)) \/ HistFinish \/ HistOther

FifoSpec == FifoInit /\ [][FifoNext]_fifo

\* The scheduling assumption of ConditionShard, over the larger state.
FifoFairness ==
    /\ \A r \in Requests : WF_fifo(EnqueueWake(r) /\ HistOther)
    /\ WF_fifo(ReceiveWake /\ HistOther)
    /\ WF_fifo(LingerTimer /\ HistOther)
    /\ WF_fifo(TakeAll /\ HistOther)
    /\ WF_fifo(HistFinish)

FairFifoSpec == FifoSpec /\ FifoFairness

----------------------------------------------------------------------------
\* The conservation law behind conditionMemWriter's promise to keep FIFO order
\* under parallel HTTP: what was handled, what is being handled and what is
\* queued, put one after the other, is exactly what arrived.
Conservation == arrived = (processed \o batch) \o q

\* A shard implements the Mailbox: order is kept, nothing is lost or handled
\* twice, and under fair scheduling nothing stays unhandled.
M == INSTANCE Mailbox
ImplementsMailbox == M!Spec
=============================================================================
