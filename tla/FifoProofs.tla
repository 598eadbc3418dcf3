----------------------------- MODULE FifoProofs -----------------------------
(***************************************************************************)
(* Proofs about a shard with its history, for every set of requests and    *)
(* for both kinds of consumer: conservation of the requests, and that the  *)
(* shard implements the safety part of the Mailbox.                        *)
(***************************************************************************)
EXTENDS ShardFifo, ShardProofs, TLAPS, SequenceTheorems

\* The strengthening of Conservation that is inductive: a consumer without a
\* batch holds the empty one, and a request that has not been appended yet is
\* not among the arrived ones.
FifoInv ==
    /\ TypeOK
    /\ arrived \in Seq(Requests)
    /\ processed \in Seq(Requests)
    /\ Conservation
    /\ pc # "work" => batch = <<>>
    /\ pc = "work" => batch # <<>>
    /\ \A k \in DOMAIN arrived : send[arrived[k]] # "new"

LEMMA FifoNextIsNext == [FifoNext]_fifo => [Next]_shard
BY DEF FifoNext, HistAppend, HistFinish, HistOther, Next, Enqueue, Consume,
       fifo, shard

LEMMA FifoInvInit == FifoInit => FifoInv
<1>1. Init => TypeOK
  BY InitTypeOK
<1> QED
  BY <1>1 DEF FifoInit, Init, FifoInv, Conservation

LEMMA FifoInvNext == ASSUME FifoInv, [FifoNext]_fifo PROVE FifoInv'
<1>1. TypeOK'
  BY NextTypeOK, FifoNextIsNext DEF FifoInv
<1> USE DEF FifoInv, Conservation
<1>2. ASSUME NEW r \in Requests, HistAppend(r) PROVE FifoInv'
  <2>1. /\ q' = Append(q, r) /\ arrived' = Append(arrived, r)
        /\ UNCHANGED <<processed, batch, pc>>
    BY <1>2 DEF HistAppend, EnqueueAppend
  <2>2. processed \o batch \in Seq(Requests)
    BY ConcatProperties DEF TypeOK
  <2>3. Conservation'
    <3> DEFINE done == processed \o batch
    <3>1. Append(done \o q, r) = done \o Append(q, r)
      <4>1. done \in Seq(Requests) /\ q \in Seq(Requests)
        BY <2>2 DEF TypeOK
      <4> HIDE DEF done
      <4>2. done \o q \in Seq(Requests) /\ <<r>> \in Seq(Requests)
        BY <4>1, ConcatProperties
      <4>3. Append(done \o q, r) = (done \o q) \o <<r>>
        BY <4>2, AppendIsConcat
      <4>4. Append(q, r) = q \o <<r>>
        BY <4>1, AppendIsConcat
      <4>5. (done \o q) \o <<r>> = done \o (q \o <<r>>)
        BY ONLY <4>1, <4>2, ConcatAssociative
      <4> QED BY <4>3, <4>4, <4>5
    <3> QED BY <2>1, <3>1
  <2>4. arrived' \in Seq(Requests)
    BY <2>1, AppendProperties
  <2>5. ASSUME NEW k \in DOMAIN arrived' PROVE send'[arrived'[k]] # "new"
    <3>1. send' = [send EXCEPT ![r] = "appended"]
      BY <1>2 DEF HistAppend, EnqueueAppend
    <3>2. /\ Len(arrived') = Len(arrived) + 1
          /\ arrived'[Len(arrived) + 1] = r
          /\ \A i \in 1..Len(arrived) : arrived'[i] = arrived[i]
      BY <2>1, AppendProperties
    <3>3. CASE k \in 1..Len(arrived)
      <4>1. k \in DOMAIN arrived /\ arrived[k] \in Requests
        BY <3>3, ElementOfSeq, LenProperties
      <4>2. send[arrived[k]] # "new"
        BY <4>1
      <4> QED BY <3>1, <3>2, <3>3, <4>1, <4>2 DEF TypeOK
    <3>4. CASE k = Len(arrived) + 1
      BY <3>1, <3>2, <3>4 DEF TypeOK
    <3>5. k \in 1..(Len(arrived) + 1)
      BY <2>4, <2>5, <3>2, LenProperties
    <3> QED BY <3>3, <3>4, <3>5, LenProperties
  <2> QED BY <1>1, <2>1, <2>3, <2>4, <2>5
<1>3. CASE HistFinish
  <2>1. /\ processed' = processed \o batch /\ batch' = <<>> /\ pc' = "take"
        /\ UNCHANGED <<q, send, arrived>>
    BY <1>3 DEF HistFinish, FinishBatch
  <2>2. processed' \in Seq(Requests)
    BY <2>1, ConcatProperties DEF TypeOK
  <2>3. Conservation'
    BY <2>1, <2>2, ConcatEmptySeq
  <2> QED BY <1>1, <2>1, <2>2, <2>3
<1>4. CASE HistOther
  <2>1. UNCHANGED <<arrived, processed>>
    BY <1>4 DEF HistOther
  <2>2. CASE TakeAll
    <3>1. /\ batch = <<>> /\ batch' = q /\ q' = <<>> /\ UNCHANGED send
          /\ pc' = IF q = <<>> THEN "wait" ELSE "work"
      BY <2>2 DEF TakeAll
    <3>2. /\ processed \o batch = processed
          /\ processed \o q \in Seq(Requests)
          /\ (processed \o q) \o <<>> = processed \o q
      BY <3>1, ConcatEmptySeq, ConcatProperties DEF TypeOK
    <3>3. Conservation'
      BY <2>1, <3>1, <3>2
    <3> QED BY <1>1, <2>1, <3>1, <3>3
  <2>3. ASSUME NEW r \in Requests, EnqueueWake(r) PROVE FifoInv'
    <3>1. /\ send' = [send EXCEPT ![r] = "sent"]
          /\ UNCHANGED <<q, pc, batch>>
      BY <2>3 DEF EnqueueWake
    <3>2. ASSUME NEW k \in DOMAIN arrived PROVE send'[arrived[k]] # "new"
      BY <3>1, <3>2 DEF TypeOK
    <3> QED BY <1>1, <2>1, <3>1, <3>2
  <2>4. CASE ReceiveWake
    BY <1>1, <2>1, <2>4 DEF ReceiveWake
  <2>5. CASE LingerWake
    BY <1>1, <2>1, <2>5 DEF LingerWake
  <2>6. CASE LingerTimer
    BY <1>1, <2>1, <2>6 DEF LingerTimer
  <2> QED BY <1>4, <2>2, <2>3, <2>4, <2>5, <2>6 DEF HistOther
<1>5. CASE UNCHANGED fifo
  BY <1>1, <1>5 DEF fifo
<1> QED BY <1>2, <1>3, <1>4, <1>5 DEF FifoNext

\* Nothing is lost, repeated or reordered on the way through a shard: the
\* FIFO promise in the comment of conditionMemWriter, for any number of POSTs.
THEOREM ShardConserves == FifoSpec => []Conservation
<1>1. FifoInv /\ [FifoNext]_fifo => FifoInv'
  BY FifoInvNext
<1>2. FifoInv => Conservation
  BY DEF FifoInv
<1> QED
  BY FifoInvInit, <1>1, <1>2, PTL DEF FifoSpec

\* What remains of a concatenation when the end is cut off.
LEMMA PrefixOfConcat ==
    ASSUME NEW S, NEW s \in Seq(S), NEW t \in Seq(S)
    PROVE  SubSeq(s \o t, 1, Len(s)) = s
<1>1. SubSeq(s \o t, 1, Len(s)) = SubSeq(s, 1, Len(s))
  <2>1. CASE Len(s) = 0
    BY <2>1, SubSeqEmpty, EmptySeq, ConcatEmptySeq, LenProperties
  <2>2. CASE Len(s) # 0
    BY <2>2, SubSeqOfConcat1, LenProperties
  <2> QED BY <2>1, <2>2
<1> QED BY <1>1, SubSeqFull

\* Every step of a shard is an arrival, a handling of the oldest waiting
\* requests, or invisible at the level of the Mailbox.
LEMMA FifoStepSimulates ==
    ASSUME FifoInv, [FifoNext]_fifo PROVE [M!Next]_(M!mailbox)
<1> USE DEF M!mailbox
<1>1. ASSUME NEW r \in Requests, HistAppend(r) PROVE M!Arrive(r)
  BY <1>1 DEF HistAppend, EnqueueAppend, M!Arrive, FifoInv
<1>2. CASE HistFinish
  <2>1. /\ pc = "work" /\ processed' = processed \o batch /\ arrived' = arrived
    BY <1>2 DEF HistFinish, FinishBatch
  <2>2. /\ processed \in Seq(Requests) /\ batch \in Seq(Requests)
        /\ q \in Seq(Requests) /\ batch # <<>>
    BY <2>1 DEF FifoInv, TypeOK
  <2> DEFINE done == processed \o batch
  <2>3. /\ done \in Seq(Requests)
        /\ Len(done) = Len(processed) + Len(batch)
        /\ arrived = done \o q
        /\ Len(arrived) = Len(done) + Len(q)
    BY <2>2, ConcatProperties DEF FifoInv, Conservation
  <2>4. SubSeq(arrived, 1, Len(done)) = done
    BY <2>2, <2>3, PrefixOfConcat
  <2>5. Len(batch) > 0
    BY <2>2, EmptySeq, LenProperties
  <2>6. Len(done) \in (Len(processed) + 1)..Len(arrived)
    BY <2>2, <2>3, <2>5, LenProperties
  <2>7. M!Handle
    BY <2>1, <2>4, <2>6 DEF M!Handle
  <2> QED BY <2>7 DEF M!Next
<1>3. CASE HistOther
  BY <1>3 DEF HistOther
<1>4. CASE UNCHANGED fifo
  BY <1>4 DEF fifo
<1> QED BY <1>1, <1>2, <1>3, <1>4 DEF FifoNext, M!Next

\* A shard implements the safety part of the Mailbox.
THEOREM ShardImplementsMailbox == FifoSpec => M!SafeSpec
<1>1. FifoInit => M!Init
  BY DEF FifoInit, M!Init
<1>2. FifoInv /\ [FifoNext]_fifo => FifoInv'
  BY FifoInvNext
<1>3. FifoInv /\ [FifoNext]_fifo => [M!Next]_(M!mailbox)
  BY FifoStepSimulates
<1> QED
  BY FifoInvInit, <1>1, <1>2, <1>3, PTL DEF FifoSpec, M!SafeSpec
=============================================================================
