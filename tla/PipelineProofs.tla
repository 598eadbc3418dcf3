--------------------------- MODULE PipelineProofs ---------------------------
(***************************************************************************)
(* Proofs about the condition pipeline, for any number of ISUs, requests,  *)
(* readers, failures and crashes and for every chunk size.                 *)
(*                                                                         *)
(* The two shards are instances of ConditionShard, so what ShardProofs     *)
(* proves of one shard is used here through two instances of that module.  *)
(***************************************************************************)
EXTENDS ConditionPipeline, TLAPS

MemP == INSTANCE ShardProofs WITH
          BatchWait <- FALSE, q <- memQ, wake <- memWake, send <- memSend,
          pc <- memPc, batch <- memBatch
DbP  == INSTANCE ShardProofs WITH
          BatchWait <- TRUE, q <- dbQ, wake <- dbWake, send <- dbSend,
          pc <- dbPc, batch <- dbBatch

----------------------------------------------------------------------------
(* The shards inside the pipeline.                                         *)

LEMMA MemSame == /\ Mem!Init <=> MemP!Init
                 /\ Mem!Next <=> MemP!Next
                 /\ Mem!TypeOK <=> MemP!TypeOK
                 /\ Mem!TypeOK' <=> MemP!TypeOK'
                 /\ Mem!NoLostWakeup <=> MemP!NoLostWakeup
                 /\ Mem!NoLostWakeup' <=> MemP!NoLostWakeup'
<1>1. Mem!Next <=> MemP!Next
  BY DEF Mem!Next, MemP!Next, Mem!Enqueue, MemP!Enqueue, Mem!Consume,
         MemP!Consume, Mem!EnqueueAppend, MemP!EnqueueAppend, Mem!EnqueueWake,
         MemP!EnqueueWake, Mem!ReceiveWake, MemP!ReceiveWake, Mem!LingerWake,
         MemP!LingerWake, Mem!LingerTimer, MemP!LingerTimer, Mem!TakeAll,
         MemP!TakeAll, Mem!FinishBatch, MemP!FinishBatch, Mem!WakeCap,
         MemP!WakeCap
<1>2. /\ Mem!TypeOK <=> MemP!TypeOK
      /\ Mem!TypeOK' <=> MemP!TypeOK'
  BY DEF Mem!TypeOK, MemP!TypeOK, Mem!WakeCap, MemP!WakeCap
<1>3. /\ Mem!NoLostWakeup <=> MemP!NoLostWakeup
      /\ Mem!NoLostWakeup' <=> MemP!NoLostWakeup'
  BY DEF Mem!NoLostWakeup, MemP!NoLostWakeup
<1>4. Mem!Init <=> MemP!Init
  BY DEF Mem!Init, MemP!Init
<1> QED BY <1>1, <1>2, <1>3, <1>4

LEMMA DbSame == /\ Db!Init <=> DbP!Init
                /\ Db!Next <=> DbP!Next
                /\ Db!TypeOK <=> DbP!TypeOK
                /\ Db!TypeOK' <=> DbP!TypeOK'
                /\ Db!NoLostWakeup <=> DbP!NoLostWakeup
                /\ Db!NoLostWakeup' <=> DbP!NoLostWakeup'
<1>1. Db!Next <=> DbP!Next
  BY DEF Db!Next, DbP!Next, Db!Enqueue, DbP!Enqueue, Db!Consume, DbP!Consume,
         Db!EnqueueAppend, DbP!EnqueueAppend, Db!EnqueueWake, DbP!EnqueueWake,
         Db!ReceiveWake, DbP!ReceiveWake, Db!LingerWake, DbP!LingerWake,
         Db!LingerTimer, DbP!LingerTimer, Db!TakeAll, DbP!TakeAll,
         Db!FinishBatch, DbP!FinishBatch, Db!WakeCap, DbP!WakeCap
<1>2. /\ Db!TypeOK <=> DbP!TypeOK
      /\ Db!TypeOK' <=> DbP!TypeOK'
  BY DEF Db!TypeOK, DbP!TypeOK, Db!WakeCap, DbP!WakeCap
<1>3. /\ Db!NoLostWakeup <=> DbP!NoLostWakeup
      /\ Db!NoLostWakeup' <=> DbP!NoLostWakeup'
  BY DEF Db!NoLostWakeup, DbP!NoLostWakeup
<1>4. Db!Init <=> DbP!Init
  BY DEF Db!Init, DbP!Init
<1> QED BY <1>1, <1>2, <1>3, <1>4

\* Unless the process crashes, each shard takes one of its own steps.
LEMMA ShardSteps ==
    ASSUME [Next]_vars
    PROVE  Crash \/ ([Mem!Next]_memShard /\ [Db!Next]_dbShard)
<1>1. ASSUME NEW r \in Requests, PostMem(r) \/ PostDb(r)
      PROVE  [Mem!Next]_memShard /\ [Db!Next]_dbShard
  BY <1>1 DEF PostMem, PostDb, Mem!Next, Db!Next
<1>2. CASE MemWriter
  BY <1>2 DEF MemWriter, MemLoop, MemTake, MemAppend, MemSetLatest, MemFinish,
              Mem!Next, Mem!Consume
<1>3. CASE DbWriter \/ DbFail
  BY <1>3 DEF DbWriter, DbLoop, DbTake, DbInsert, DbUpdate, DbRetry, DbFinish,
              DbFail, Db!Next, Db!Consume
<1>4. ASSUME NEW f \in Readers, Reader(f)
      PROVE  [Mem!Next]_memShard /\ [Db!Next]_dbShard
  BY <1>4 DEF Reader, FillSelect, FillLook, FillSet
<1>5. CASE UNCHANGED vars
  BY <1>5 DEF vars
<1> QED BY <1>1, <1>2, <1>3, <1>4, <1>5 DEF Next

\* Both shards stay well typed, through a crash too.
LEMMA ShardTypes ==
    ASSUME Mem!TypeOK, Db!TypeOK, [Next]_vars
    PROVE  Mem!TypeOK' /\ Db!TypeOK'
<1>1. CASE Crash
  <2>1. /\ memSend' \in [Requests -> {"new", "appended", "sent"}]
        /\ dbSend' \in [Requests -> {"new", "appended", "sent"}]
    BY <1>1 DEF Crash, RestartShards
  <2>2. <<>> \in Seq(Requests)
    OBVIOUS
  <2> QED
    BY <1>1, <2>1, <2>2 DEF Crash, RestartShards, Mem!TypeOK, Db!TypeOK,
                            Mem!WakeCap, Db!WakeCap
<1>2. CASE [Mem!Next]_memShard /\ [Db!Next]_dbShard
  <2>1. Mem!TypeOK'
    BY <1>2, MemP!NextTypeOK, MemSame DEF MemP!shard, memShard
  <2>2. Db!TypeOK'
    BY <1>2, DbP!NextTypeOK, DbSame DEF DbP!shard, dbShard
  <2> QED BY <2>1, <2>2
<1> QED BY <1>1, <1>2, ShardSteps

\* Both shards keep their wake protocol.
LEMMA ShardWakeups ==
    ASSUME Mem!TypeOK, Db!TypeOK, NoLostWakeup, [Next]_vars
    PROVE  NoLostWakeup'
<1> USE DEF NoLostWakeup
<1>1. CASE Crash
  BY <1>1 DEF Crash, RestartShards, Mem!NoLostWakeup, Db!NoLostWakeup
<1>2. CASE [Mem!Next]_memShard /\ [Db!Next]_dbShard
  <2>1. Mem!NoLostWakeup'
    BY <1>2, MemP!NextNoLostWakeup, MemSame DEF MemP!shard, memShard
  <2>2. Db!NoLostWakeup'
    BY <1>2, DbP!NextNoLostWakeup, DbSame DEF DbP!shard, dbShard
  <2> QED BY <2>1, <2>2
<1> QED BY <1>1, <1>2, ShardSteps

----------------------------------------------------------------------------
(* Types.                                                                  *)

\* The position in the memory writer's batch is kept only inside a batch.
TypeInv == TypeOK /\ (memPc # "work" => memPos = 0)

LEMMA RowsType ==
    /\ \A r \in Requests : RowsOf(r) \subseteq Isus \X Nat
    /\ \A r \in Requests : IsuOf[r] \in Isus
    /\ UNION {TimesOf[r] : r \in Requests} \subseteq Nat \ {None}
<1>1. ASSUME NEW r \in Requests
      PROVE  /\ IsuOf[r] \in Isus
             /\ TimesOf[r] \subseteq Nat \ {None}
  BY PipelineAssumption
<1> QED BY <1>1 DEF RowsOf

\* The conditions and the ISUs of a batch.
LEMMA BatchType ==
    ASSUME NEW b \in Seq(Requests)
    PROVE  /\ \A n \in 0..Len(b) : RowsOfFirst(b, n) \subseteq Isus \X Nat
           /\ RowsIn(b) \subseteq Isus \X Nat
           /\ IsusIn(b) \subseteq Isus
<1>1. ASSUME NEW k \in 1..Len(b) PROVE b[k] \in Requests
  OBVIOUS
<1>2. ASSUME NEW n \in 0..Len(b) PROVE RowsOfFirst(b, n) \subseteq Isus \X Nat
  <2>1. \A k \in 1..n : k \in 1..Len(b)
    OBVIOUS
  <2> QED BY <1>1, <2>1, RowsType DEF RowsOfFirst
<1>3. Len(b) \in 0..Len(b)
  OBVIOUS
<1>4. IsusIn(b) \subseteq Isus
  BY <1>1, RowsType DEF IsusIn
<1> QED BY <1>2, <1>3, <1>4 DEF RowsIn

\* Neither write to a latest timestamp ever lowers it, and the entry that was
\* written is at least the new timestamp.
LEMMA LatestWrites ==
    ASSUME latest \in [Isus -> Nat], rowLatest \in [Isus -> Nat],
           NEW i \in Isus, NEW t \in Nat
    PROVE  /\ CachedLatest(i, t) \in [Isus -> Nat]
           /\ \A j \in Isus : CachedLatest(i, t)[j] >= latest[j]
           /\ CachedLatest(i, t)[i] >= t
           /\ \A j \in Isus : \/ CachedLatest(i, t)[j] = latest[j]
                              \/ j = i /\ CachedLatest(i, t)[j] = t
           /\ UpdatedRowLatest(i, t) \in [Isus -> Nat]
           /\ \A j \in Isus : UpdatedRowLatest(i, t)[j] >= rowLatest[j]
           /\ \A j \in Isus : \/ UpdatedRowLatest(i, t)[j] = rowLatest[j]
                              \/ j = i /\ UpdatedRowLatest(i, t)[j] = t
BY DEF CachedLatest, UpdatedRowLatest, None

LEMMA TypeInit == Init => TypeInv
<1>1. <<>> \in Seq(Requests)
  OBVIOUS
<1> SUFFICES ASSUME Init PROVE TypeInv
  OBVIOUS
<1>2. Mem!TypeOK /\ Db!TypeOK
  BY <1>1 DEF Init, Mem!Init, Db!Init, Mem!TypeOK, Db!TypeOK, Mem!WakeCap,
              Db!WakeCap
<1>3. memPos = 0 /\ memPos \in 0..Len(memBatch)
  BY DEF Init, Mem!Init
<1>4. failures \in 0..MaxFailures /\ crashes \in 0..MaxCrashes
  BY PipelineAssumption DEF Init
<1>5. /\ latest \in [Isus -> Nat] /\ rowLatest \in [Isus -> Nat]
      /\ fillRow \in [Readers -> [Isus -> Nat]]
      /\ fillIsus \in [Readers -> SUBSET Isus]
      /\ fillMiss \in [Readers -> SUBSET Isus]
  BY DEF Init, None
<1> QED
  BY <1>2, <1>3, <1>4, <1>5 DEF Init, TypeInv, TypeOK

\* The types of the parts of the state outside the shards, by actor.
LEMMA TypeNext == ASSUME TypeInv, [Next]_vars PROVE TypeInv'
<1>1. Mem!TypeOK' /\ Db!TypeOK'
  BY ShardTypes DEF TypeInv, TypeOK
<1>2. memBatch \in Seq(Requests) /\ Len(memBatch) \in Nat
  BY DEF TypeInv, TypeOK, Mem!TypeOK
<1>3. dbBatch \in Seq(Requests) /\ memQ \in Seq(Requests) /\ dbQ \in Seq(Requests)
  BY DEF TypeInv, TypeOK, Mem!TypeOK, Db!TypeOK
<1> USE DEF TypeInv, TypeOK
<1>4. ASSUME NEW r \in Requests, PostMem(r) PROVE TypeInv'
  BY <1>1, <1>4 DEF PostMem, Mem!Enqueue, Mem!EnqueueAppend, Mem!EnqueueWake,
                    dbShard, memWork, memory, dbWork, database, filler, faults
<1>5. ASSUME NEW r \in Requests, PostDb(r) PROVE TypeInv'
  BY <1>1, <1>5 DEF PostDb, memShard, memWork, memory, dbWork, database,
                    filler, faults
<1>6. CASE MemLoop
  BY <1>1, <1>6 DEF MemLoop, Mem!ReceiveWake, dbShard, memWork, memory, dbWork,
                    database, filler, faults
<1>7. CASE MemTake
  <2>1. memTodo' \subseteq Isus
    BY <1>3, <1>7, BatchType DEF MemTake
  <2>2. memPos' = 0 /\ memPos' \in 0..Len(memBatch')
    BY <1>1, <1>7 DEF MemTake, Mem!TakeAll, Mem!TypeOK
  <2> QED
    BY <1>1, <1>7, <2>1, <2>2 DEF MemTake, dbShard, memory, dbWork, database,
                                  filler, faults
<1>8. CASE MemAppend
  <2>1. memBatch[memPos + 1] \in Requests
    BY <1>2, <1>8 DEF MemAppend
  <2>2. store' \subseteq Isus \X Nat
    BY <1>8, <2>1, RowsType DEF MemAppend
  <2> QED
    BY <1>1, <1>2, <1>8, <2>2 DEF MemAppend, memShard, dbShard, dbWork,
                                  database, filler, faults
<1>9. ASSUME NEW i \in Isus, MemSetLatest(i) PROVE TypeInv'
  <2>1. latest' \in [Isus -> Nat]
    <3>1. PICK t \in Nat : latest' = CachedLatest(i, t)
      BY <1>9, RowsType DEF MemSetLatest
    <3> QED BY <3>1, LatestWrites
  <2> QED
    BY <1>1, <1>9, <2>1 DEF MemSetLatest, memShard, dbShard, dbWork, database,
                            filler, faults
<1>10. CASE MemFinish
  <2>1. memPos' \in 0..Len(memBatch') /\ memPos' = 0
    BY <1>10 DEF MemFinish, Mem!FinishBatch
  <2> QED
    BY <1>1, <1>10, <2>1 DEF MemFinish, dbShard, memory, dbWork, database,
                             filler, faults
<1>11. CASE DbLoop
  BY <1>1, <1>11 DEF DbLoop, memShard, memWork, memory, dbWork, database,
                     filler, faults
<1>12. CASE DbTake
  BY <1>1, <1>3, <1>12, BatchType
  DEF DbTake, StartAttempt, memShard, memWork, memory, database, filler, faults
<1>13. CASE DbInsert
  BY <1>1, <1>13 DEF DbInsert, dbShard, memShard, memWork, memory, filler,
                     faults
<1>14. ASSUME NEW i \in Isus, DbUpdate(i) PROVE TypeInv'
  <2>1. rowLatest' \in [Isus -> Nat]
    <3>1. PICK t \in Nat : rowLatest' = UpdatedRowLatest(i, t)
      BY <1>14, RowsType DEF DbUpdate
    <3> QED BY <3>1, LatestWrites
  <2> QED
    BY <1>1, <1>14, <2>1 DEF DbUpdate, dbShard, memShard, memWork, memory,
                             filler, faults
<1>15. CASE DbFail
  BY <1>1, <1>15, PipelineAssumption
  DEF DbFail, dbShard, memShard, memWork, memory, database, filler
<1>16. CASE DbRetry
  BY <1>1, <1>3, <1>16, BatchType
  DEF DbRetry, StartAttempt, dbShard, memShard, memWork, memory, database,
      filler, faults
<1>17. CASE DbFinish
  BY <1>1, <1>17 DEF DbFinish, memShard, memWork, memory, dbWork, database,
                     filler, faults
<1>18. ASSUME NEW f \in Readers, FillSelect(f) PROVE TypeInv'
  BY <1>1, <1>18 DEF FillSelect, memShard, dbShard, memWork, memory, dbWork,
                     database, faults
<1>19. ASSUME NEW f \in Readers, NEW i \in Isus, FillLook(f, i) PROVE TypeInv'
  BY <1>1, <1>19 DEF FillLook, memShard, dbShard, memWork, memory, dbWork,
                     database, faults
<1>20. ASSUME NEW f \in Readers, NEW i \in Isus, FillSet(f, i) PROVE TypeInv'
  <2>1. latest' \in [Isus -> Nat]
    BY <1>20, LatestWrites DEF FillSet
  <2> QED
    BY <1>1, <1>20, <2>1 DEF FillSet, memShard, dbShard, memWork, dbWork,
                             database, faults
<1>21. CASE Crash
  <2>1. memPos' = 0 /\ memPos' \in 0..Len(memBatch')
    BY <1>21 DEF Crash, RestartShards
  <2>2. lost' \subseteq Requests
    BY <1>21 DEF Crash, RestartShards
  <2>3. crashes' \in 0..MaxCrashes
    BY <1>21, PipelineAssumption DEF Crash
  <2>4. /\ latest' \in [Isus -> Nat]
        /\ fillRow' \in [Readers -> [Isus -> Nat]]
        /\ fillIsus' \in [Readers -> SUBSET Isus]
        /\ fillMiss' \in [Readers -> SUBSET Isus]
    BY <1>21 DEF Crash, None
  <2> QED
    BY <1>1, <1>21, <2>1, <2>2, <2>3, <2>4 DEF Crash, database
<1>22. CASE UNCHANGED vars
  BY <1>1, <1>22 DEF vars, memShard, dbShard, memWork, memory, dbWork,
                     database, filler, faults
<1> QED
  BY <1>4, <1>5, <1>6, <1>7, <1>8, <1>9, <1>10, <1>11, <1>12, <1>13, <1>14,
     <1>15, <1>16, <1>17, <1>18, <1>19, <1>20, <1>21, <1>22
  DEF Next, MemWriter, DbWriter, Reader

LEMMA TypeInvariant == Spec => []TypeInv
<1>1. TypeInv /\ [Next]_vars => TypeInv'
  BY TypeNext
<1> QED BY TypeInit, <1>1, PTL DEF Spec

\* The pipeline is well typed for every instance.
THEOREM PipelineTypeCorrect == Spec => []TypeOK
<1>1. TypeInv => TypeOK
  BY DEF TypeInv
<1> QED BY TypeInvariant, <1>1, PTL

\* No writer of the pipeline oversleeps, crashes and retries included.
THEOREM PipelineNoLostWakeup == Spec => []NoLostWakeup
<1>1. Init => NoLostWakeup
  BY DEF Init, NoLostWakeup, Mem!Init, Db!Init, Mem!NoLostWakeup,
         Db!NoLostWakeup
<1>2. TypeInv /\ NoLostWakeup /\ [Next]_vars => NoLostWakeup'
  BY ShardWakeups DEF TypeInv, TypeOK
<1> QED BY TypeInvariant, <1>1, <1>2, PTL DEF Spec

----------------------------------------------------------------------------
(* The latest timestamps.                                                  *)

\* Every write to a latest timestamp goes through a comparison with the old
\* one, so neither kind ever runs backwards in a living process.
LEMMA StepNeverRegresses ==
    ASSUME TypeInv, [Next]_vars
    PROVE  [\A i \in Isus : /\ crashes' = crashes => latest'[i] >= latest[i]
                            /\ rowLatest'[i] >= rowLatest[i]]_vars
<1> DEFINE Kept == /\ crashes' = crashes
                   /\ \A i \in Isus : /\ latest'[i] >= latest[i]
                                      /\ rowLatest'[i] >= rowLatest[i]
<1>1. \A i \in Isus : latest[i] \in Nat /\ rowLatest[i] \in Nat
  BY DEF TypeInv, TypeOK
<1>2. ASSUME UNCHANGED <<latest, rowLatest, crashes>> PROVE Kept
  BY <1>1, <1>2
<1>3. ASSUME NEW r \in Requests, PostMem(r) \/ PostDb(r) PROVE Kept
  BY <1>2, <1>3 DEF PostMem, PostDb, memory, database, faults
<1>4. CASE MemLoop \/ MemTake \/ MemAppend \/ MemFinish
  BY <1>2, <1>4 DEF MemLoop, MemTake, MemAppend, MemFinish, memory, database,
                    faults
<1>5. ASSUME NEW i \in Isus, MemSetLatest(i) PROVE Kept
  <2>1. PICK t \in Nat : latest' = CachedLatest(i, t)
    BY <1>5, RowsType DEF MemSetLatest
  <2>2. \A j \in Isus : latest'[j] >= latest[j]
    BY <2>1, LatestWrites DEF TypeInv, TypeOK
  <2> QED BY <1>1, <1>5, <2>2 DEF MemSetLatest, database, faults
<1>6. CASE DbLoop \/ DbTake \/ DbInsert \/ DbFail \/ DbRetry \/ DbFinish
  BY <1>2, <1>6 DEF DbLoop, DbTake, DbInsert, DbFail, DbRetry, DbFinish,
                    memory, database, faults
<1>7. ASSUME NEW i \in Isus, DbUpdate(i) PROVE Kept
  <2>1. PICK t \in Nat : rowLatest' = UpdatedRowLatest(i, t)
    BY <1>7, RowsType DEF DbUpdate
  <2>2. \A j \in Isus : rowLatest'[j] >= rowLatest[j]
    BY <2>1, LatestWrites DEF TypeInv, TypeOK
  <2> QED BY <1>1, <1>7, <2>2 DEF DbUpdate, memory, faults
<1>8. ASSUME NEW f \in Readers, NEW i \in Isus, FillSelect(f) \/ FillLook(f, i)
      PROVE  Kept
  BY <1>2, <1>8 DEF FillSelect, FillLook, memory, database, faults
<1>9. ASSUME NEW f \in Readers, NEW i \in Isus, FillSet(f, i) PROVE Kept
  <2>1. fillRow[f][i] \in Nat
    BY DEF TypeInv, TypeOK
  <2>2. \A j \in Isus : latest'[j] >= latest[j]
    BY <1>9, <2>1, LatestWrites DEF FillSet, TypeInv, TypeOK
  <2> QED BY <1>1, <1>9, <2>2 DEF FillSet, database, faults
<1>10. ASSUME NEW f \in Readers, FillSelect(f) PROVE Kept
  BY <1>2, <1>10 DEF FillSelect, memory, database, faults
<1>11. CASE Crash
  <2>1. crashes' # crashes /\ rowLatest' = rowLatest
    BY <1>11 DEF Crash, database, TypeInv, TypeOK
  <2> QED BY <1>1, <2>1
<1>12. CASE UNCHANGED vars
  BY <1>12
<1> QED
  BY <1>3, <1>4, <1>5, <1>6, <1>7, <1>8, <1>9, <1>10, <1>11, <1>12
  DEF Next, MemWriter, DbWriter, Reader

\* The virtual present of an ISU never runs backwards.
THEOREM PipelineLatestNeverRegresses == Spec => LatestNeverRegresses
<1>1. TypeInv /\ [Next]_vars =>
        [\A i \in Isus : /\ crashes' = crashes => latest'[i] >= latest[i]
                         /\ rowLatest'[i] >= rowLatest[i]]_vars
  BY StepNeverRegresses
<1> QED BY TypeInvariant, <1>1, PTL DEF Spec, LatestNeverRegresses

----------------------------------------------------------------------------
(* Where the latest timestamps come from.                                  *)

\* An attempt of the database writer leaves no row behind: every row of its
\* batch is in the table or still to be inserted.
BatchCovered ==
    dbPc = "work" /\ ~dbSleep => RowsIn(dbBatch) \subseteq rows \cup dbTodoRows

\* The memory writer appends its batch request by request.
PrefixStored ==
    memPc = "work" => RowsOfFirst(memBatch, memPos) \subseteq store

\* What a reader has selected were latest timestamps of rows in the table.
SelectedInserted ==
    \A f \in Readers, i \in Isus :
        fillRow[f][i] # None => <<i, fillRow[f][i]>> \in rows

OriginInv == /\ RowLatestInserted /\ LatestIsReal
             /\ BatchCovered /\ PrefixStored /\ SelectedInserted

LEMMA OriginInit == Init => OriginInv
BY DEF Init, Mem!Init, Db!Init, OriginInv, RowLatestInserted, LatestIsReal,
       BatchCovered, PrefixStored, SelectedInserted

\* A step that touches none of the state OriginInv speaks about.
LEMMA OriginFrame ==
    ASSUME OriginInv,
           UNCHANGED <<latest, store, rows, rowLatest, fillRow, memPos,
                       memBatch, dbBatch, dbTodoRows, dbSleep>>,
           memPc' = "work" => memPc = "work",
           dbPc' = "work" => dbPc = "work"
    PROVE  OriginInv'
BY DEF OriginInv, RowLatestInserted, LatestIsReal, BatchCovered, PrefixStored,
       SelectedInserted, RowsIn, RowsOfFirst

LEMMA OriginNext == ASSUME TypeInv, OriginInv, [Next]_vars PROVE OriginInv'
<1>1. ASSUME NEW r \in Requests, PostMem(r) \/ PostDb(r) PROVE OriginInv'
  BY <1>1, OriginFrame
  DEF PostMem, PostDb, Mem!Enqueue, Mem!EnqueueAppend, Mem!EnqueueWake,
      Db!Enqueue, Db!EnqueueAppend, Db!EnqueueWake, memShard, dbShard, memWork,
      memory, dbWork, database, filler
<1>2. CASE MemLoop \/ MemFinish
  <2>1. CASE MemLoop
    BY <2>1, OriginFrame DEF MemLoop, Mem!ReceiveWake, dbShard, memWork,
                             memory, dbWork, database, filler
  <2>2. CASE MemFinish
    BY <2>2 DEF MemFinish, Mem!FinishBatch, dbShard, memory, dbWork, database,
                filler, OriginInv, RowLatestInserted, LatestIsReal,
                BatchCovered, PrefixStored, SelectedInserted, RowsIn,
                RowsOfFirst
  <2> QED BY <1>2, <2>1, <2>2
<1>3. CASE MemTake
  <2>1. memPos' = 0 /\ UNCHANGED <<store, latest, rows, rowLatest, fillRow,
                                   dbPc, dbBatch, dbTodoRows, dbSleep>>
    BY <1>3 DEF MemTake, Mem!TakeAll, TypeInv, memory, database, filler,
                dbShard, dbWork
  <2>2. RowsOfFirst(memBatch', 0) = {}
    BY DEF RowsOfFirst
  <2>3. PrefixStored'
    BY <2>1, <2>2 DEF PrefixStored, RowsOfFirst
  <2> QED
    BY <2>1, <2>3 DEF OriginInv, RowLatestInserted, LatestIsReal,
                      BatchCovered, SelectedInserted, RowsIn, RowsOfFirst
<1>4. CASE MemAppend
  <2>1. /\ store' = store \cup RowsOf(memBatch[memPos + 1])
        /\ memPos' = memPos + 1
        /\ UNCHANGED <<memBatch, memPc, latest, rows, rowLatest, fillRow,
                       dbPc, dbBatch, dbTodoRows, dbSleep>>
    BY <1>4 DEF MemAppend, memShard, dbShard, dbWork, database, filler
  <2>2. memPos \in Nat
    BY DEF TypeInv, TypeOK, Mem!TypeOK
  <2>3. RowsOfFirst(memBatch, memPos + 1)
          \subseteq RowsOfFirst(memBatch, memPos)
                      \cup RowsOf(memBatch[memPos + 1])
    BY <2>2 DEF RowsOfFirst
  <2>4. PrefixStored'
    BY <1>4, <2>1, <2>3 DEF PrefixStored, OriginInv, MemAppend, RowsOfFirst
  <2> QED
    BY <2>1, <2>4 DEF OriginInv, RowLatestInserted, LatestIsReal,
                      BatchCovered, SelectedInserted, RowsIn, RowsOfFirst
<1>5. ASSUME NEW i \in Isus, MemSetLatest(i) PROVE OriginInv'
  <2>1. PICK t \in Nat : /\ IsLatestIn(t, i, RowsIn(memBatch))
                         /\ latest' = CachedLatest(i, t)
    BY <1>5, RowsType DEF MemSetLatest
  <2>2. UNCHANGED <<store, memPos, memBatch, memPc, rows, rowLatest, fillRow,
                    dbPc, dbBatch, dbTodoRows, dbSleep>>
    BY <1>5 DEF MemSetLatest, memShard, dbShard, dbWork, database, filler
  <2>3. RowsIn(memBatch) \subseteq store
    BY <1>5 DEF MemSetLatest, OriginInv, PrefixStored, RowsIn
  <2>4. <<i, t>> \in store
    BY <2>1, <2>3 DEF IsLatestIn
  <2>5. LatestIsReal'
    <3>1. \A j \in Isus : \/ latest'[j] = latest[j]
                          \/ j = i /\ latest'[j] = t
      BY <2>1, LatestWrites DEF TypeInv, TypeOK
    <3> QED BY <2>2, <2>4, <3>1 DEF OriginInv, LatestIsReal
  <2> QED
    BY <2>2, <2>5 DEF OriginInv, RowLatestInserted, BatchCovered,
                      PrefixStored, SelectedInserted, RowsIn, RowsOfFirst
<1>6. CASE DbLoop \/ DbFinish
  BY <1>6, OriginFrame
  DEF DbLoop, DbFinish, Db!ReceiveWake, Db!LingerWake, Db!LingerTimer,
      Db!FinishBatch, memShard, memWork, memory, dbWork, database, filler,
      OriginInv, RowLatestInserted, LatestIsReal, BatchCovered, PrefixStored,
      SelectedInserted, RowsIn, RowsOfFirst
<1>7. CASE DbTake \/ DbRetry
  <2>1. /\ dbTodoRows' = RowsIn(dbBatch')
        /\ UNCHANGED <<latest, store, rows, rowLatest, fillRow, memPos,
                       memBatch, memPc>>
    BY <1>7 DEF DbTake, DbRetry, Db!TakeAll, StartAttempt, dbShard, memShard,
                memWork, memory, database, filler, RowsIn, RowsOfFirst
  <2>2. BatchCovered'
    BY <2>1 DEF BatchCovered, RowsIn, RowsOfFirst
  <2> QED
    BY <2>1, <2>2 DEF OriginInv, RowLatestInserted, LatestIsReal,
                      PrefixStored, SelectedInserted, RowsIn, RowsOfFirst
<1>8. CASE DbInsert
  <2>1. PICK chunk \in SUBSET dbTodoRows :
             /\ rows' = rows \cup chunk
             /\ dbTodoRows' = dbTodoRows \ chunk
    BY <1>8 DEF DbInsert
  <2>2. UNCHANGED <<latest, store, rowLatest, fillRow, memPos, memBatch,
                    memPc, dbPc, dbBatch, dbSleep>>
    BY <1>8 DEF DbInsert, dbShard, memShard, memWork, memory, filler
  <2>3. BatchCovered'
    BY <2>1, <2>2 DEF OriginInv, BatchCovered, RowsIn, RowsOfFirst
  <2> QED
    BY <2>1, <2>2, <2>3 DEF OriginInv, RowLatestInserted, LatestIsReal,
                            PrefixStored, SelectedInserted, RowsOfFirst
<1>9. ASSUME NEW i \in Isus, DbUpdate(i) PROVE OriginInv'
  <2>1. PICK t \in Nat : /\ IsLatestIn(t, i, RowsIn(dbBatch))
                         /\ rowLatest' = UpdatedRowLatest(i, t)
    BY <1>9, RowsType DEF DbUpdate
  <2>2. UNCHANGED <<latest, store, rows, fillRow, memPos, memBatch, memPc,
                    dbPc, dbBatch, dbTodoRows, dbSleep>>
    BY <1>9 DEF DbUpdate, dbShard, memShard, memWork, memory, filler
  <2>3. RowsIn(dbBatch) \subseteq rows
    BY <1>9 DEF DbUpdate, OriginInv, BatchCovered
  <2>4. <<i, t>> \in rows
    BY <2>1, <2>3 DEF IsLatestIn
  <2>5. RowLatestInserted'
    <3>1. \A j \in Isus : \/ rowLatest'[j] = rowLatest[j]
                          \/ j = i /\ rowLatest'[j] = t
      BY <2>1, LatestWrites DEF TypeInv, TypeOK
    <3> QED BY <2>2, <2>4, <3>1 DEF OriginInv, RowLatestInserted
  <2> QED
    BY <2>2, <2>5 DEF OriginInv, LatestIsReal, BatchCovered, PrefixStored,
                      SelectedInserted, RowsIn, RowsOfFirst
<1>10. CASE DbFail
  BY <1>10 DEF DbFail, dbShard, database, memShard, memWork, memory, filler,
               OriginInv, RowLatestInserted, LatestIsReal, BatchCovered,
               PrefixStored, SelectedInserted, RowsOfFirst
<1>11. ASSUME NEW f \in Readers, FillSelect(f) PROVE OriginInv'
  <2>1. /\ fillRow' = [fillRow EXCEPT ![f] = rowLatest]
        /\ UNCHANGED <<latest, store, rows, rowLatest, memPos, memBatch,
                       memPc, dbPc, dbBatch, dbTodoRows, dbSleep>>
    BY <1>11 DEF FillSelect, memShard, dbShard, memWork, memory, dbWork,
                 database
  <2>2. SelectedInserted'
    BY <2>1 DEF OriginInv, SelectedInserted, RowLatestInserted, TypeInv, TypeOK
  <2> QED
    BY <2>1, <2>2 DEF OriginInv, RowLatestInserted, LatestIsReal,
                      BatchCovered, PrefixStored, RowsIn, RowsOfFirst
<1>12. ASSUME NEW f \in Readers, NEW i \in Isus, FillLook(f, i)
       PROVE  OriginInv'
  BY <1>12, OriginFrame DEF FillLook, memShard, dbShard, memWork, memory,
                            dbWork, database
<1>13. ASSUME NEW f \in Readers, NEW i \in Isus, FillSet(f, i)
       PROVE  OriginInv'
  <2>1. /\ latest' = CachedLatest(i, fillRow[f][i])
        /\ UNCHANGED <<fillRow, store, rows, rowLatest, memPos, memBatch,
                       memPc, dbPc, dbBatch, dbTodoRows, dbSleep>>
    BY <1>13 DEF FillSet, memShard, dbShard, memWork, dbWork, database
  <2>2. fillRow[f][i] \in Nat
    BY DEF TypeInv, TypeOK
  <2>3. LatestIsReal'
    <3>1. \A j \in Isus : \/ latest'[j] = latest[j]
                          \/ j = i /\ latest'[j] = fillRow[f][i]
      BY <2>1, <2>2, LatestWrites DEF TypeInv, TypeOK
    <3> QED BY <2>1, <3>1 DEF OriginInv, LatestIsReal, SelectedInserted
  <2> QED
    BY <2>1, <2>3 DEF OriginInv, RowLatestInserted, BatchCovered,
                      PrefixStored, SelectedInserted, RowsIn, RowsOfFirst
<1>14. CASE Crash
  BY <1>14 DEF Crash, RestartShards, database, OriginInv, RowLatestInserted,
               LatestIsReal, BatchCovered, PrefixStored, SelectedInserted
<1>15. CASE UNCHANGED vars
  BY <1>15, OriginFrame DEF vars, memShard, dbShard, memWork, memory, dbWork,
                            database, filler
<1> QED
  BY <1>1, <1>2, <1>3, <1>4, <1>5, <1>6, <1>7, <1>8, <1>9, <1>10, <1>11,
     <1>12, <1>13, <1>14, <1>15
  DEF Next, MemWriter, DbWriter, Reader

LEMMA OriginInvariant == Spec => []OriginInv
<1>1. TypeInv /\ OriginInv /\ [Next]_vars => OriginInv'
  BY OriginNext
<1> QED BY TypeInvariant, OriginInit, <1>1, PTL DEF Spec

\* isu.latest_timestamp always names an inserted row, whatever statement of a
\* batch fails and whenever the process dies.
THEOREM PipelineRowLatestInserted == Spec => []RowLatestInserted
<1>1. OriginInv => RowLatestInserted
  BY DEF OriginInv
<1> QED BY OriginInvariant, <1>1, PTL

\* The virtual present of an ISU is always a condition it sent.
THEOREM PipelineLatestIsReal == Spec => []LatestIsReal
<1>1. OriginInv => LatestIsReal
  BY DEF OriginInv
<1> QED BY OriginInvariant, <1>1, PTL

----------------------------------------------------------------------------
(* The cached latest is no older than the conditions in memory.            *)

\* Inside a batch: a condition that is newer than the cached latest is one of
\* the batch, already appended, and its ISU is still on the list to be cached.
CoveredOrDue ==
    memPc = "work" =>
        \A c \in store : \/ c[2] <= latest[c[1]]
                         \/ /\ c \in RowsOfFirst(memBatch, memPos)
                            /\ c[1] \in memTodo

\* No ISU is ticked off before the whole batch has been appended.
NothingCachedEarly ==
    memPc = "work" /\ memPos < Len(memBatch) => memTodo = IsusIn(memBatch)

CoverInv == LatestCoversStore /\ CoveredOrDue /\ NothingCachedEarly

LEMMA CoverInit == Init => CoverInv
BY DEF Init, Mem!Init, CoverInv, LatestCoversStore, CoveredOrDue,
       NothingCachedEarly

\* A step that leaves the memory writer and its store alone, and lowers no
\* cached latest.
LEMMA CoverFrame ==
    ASSUME TypeInv, CoverInv, TypeInv',
           UNCHANGED <<memPc, memBatch, memPos, memTodo, store>>,
           \A i \in Isus : latest'[i] >= latest[i]
    PROVE  CoverInv'
<1>1. \A c \in store : /\ c[1] \in Isus /\ c[2] \in Nat
                       /\ latest[c[1]] \in Nat /\ latest'[c[1]] \in Nat
  BY DEF TypeInv, TypeOK
<1>2. \A c \in store : c[2] <= latest[c[1]] => c[2] <= latest'[c[1]]
  BY <1>1
<1>3. LatestCoversStore'
  BY <1>2 DEF CoverInv, LatestCoversStore
<1>4. CoveredOrDue'
  BY <1>2 DEF CoverInv, CoveredOrDue, RowsOfFirst
<1> QED
  BY <1>3, <1>4 DEF CoverInv, NothingCachedEarly, IsusIn

LEMMA CoverNext == ASSUME TypeInv, CoverInv, [Next]_vars PROVE CoverInv'
<1>0. TypeInv'
  BY TypeNext
<1>1. \A i \in Isus : latest[i] \in Nat
  BY DEF TypeInv, TypeOK
<1>2. ASSUME NEW i \in Isus, NEW t \in Nat, latest' = CachedLatest(i, t)
      PROVE  \A j \in Isus : latest'[j] >= latest[j]
  BY <1>2, LatestWrites DEF TypeInv, TypeOK
<1>3. CASE UNCHANGED <<memPc, memBatch, memPos, memTodo, store, latest>>
  <2>1. \A i \in Isus : latest'[i] >= latest[i]
    BY <1>1, <1>3
  <2> QED BY <1>0, <1>3, <2>1, CoverFrame
<1>4. ASSUME NEW r \in Requests, PostMem(r) \/ PostDb(r) PROVE CoverInv'
  BY <1>3, <1>4 DEF PostMem, PostDb, Mem!Enqueue, Mem!EnqueueAppend,
                    Mem!EnqueueWake, memShard, memWork, memory
<1>5. CASE MemLoop
  <2>1. /\ memPc = "wait" /\ memPc' = "take"
        /\ UNCHANGED <<store, latest>>
    BY <1>5 DEF MemLoop, Mem!ReceiveWake, memory
  <2> QED BY <2>1 DEF CoverInv, LatestCoversStore, CoveredOrDue,
                      NothingCachedEarly
<1>6. CASE MemTake
  <2>1. /\ memPc = "take" /\ memTodo' = IsusIn(memBatch')
        /\ UNCHANGED <<store, latest>>
    BY <1>6 DEF MemTake, Mem!TakeAll, memory, IsusIn
  <2>2. \A c \in store : c[2] <= latest[c[1]]
    BY <2>1 DEF CoverInv, LatestCoversStore
  <2> QED BY <2>1, <2>2 DEF CoverInv, LatestCoversStore, CoveredOrDue,
                            NothingCachedEarly, IsusIn
<1>7. CASE MemAppend
  <2> DEFINE r == memBatch[memPos + 1]
  <2>1. /\ memPc = "work" /\ memPos < Len(memBatch)
        /\ store' = store \cup RowsOf(r) /\ memPos' = memPos + 1
        /\ UNCHANGED <<memPc, memBatch, memTodo, latest>>
    BY <1>7 DEF MemAppend, memShard
  <2>2. /\ memPos \in Nat /\ memBatch \in Seq(Requests)
        /\ Len(memBatch) \in Nat
    BY DEF TypeInv, TypeOK, Mem!TypeOK
  <2>3. memTodo = IsusIn(memBatch) /\ memPos + 1 \in DOMAIN memBatch
    BY <2>1, <2>2 DEF CoverInv, NothingCachedEarly
  <2>4. /\ RowsOf(r) \subseteq RowsOfFirst(memBatch, memPos + 1)
        /\ RowsOfFirst(memBatch, memPos)
             \subseteq RowsOfFirst(memBatch, memPos + 1)
    BY <2>2 DEF RowsOfFirst
  <2>5. \A c \in RowsOf(r) : c[1] \in memTodo
    BY <2>3 DEF RowsOf, IsusIn
  <2>6. CoveredOrDue'
    BY <2>1, <2>4, <2>5 DEF CoverInv, CoveredOrDue, RowsOfFirst
  <2> QED
    BY <2>1, <2>3, <2>6 DEF CoverInv, LatestCoversStore, NothingCachedEarly,
                            IsusIn
<1>8. ASSUME NEW i \in Isus, MemSetLatest(i) PROVE CoverInv'
  <2>1. PICK t \in Nat : /\ IsLatestIn(t, i, RowsIn(memBatch))
                         /\ latest' = CachedLatest(i, t)
    BY <1>8, RowsType DEF MemSetLatest
  <2>2. /\ memPc = "work" /\ memPos = Len(memBatch)
        /\ memTodo' = memTodo \ {i}
        /\ UNCHANGED <<store, memPos, memBatch, memPc>>
    BY <1>8 DEF MemSetLatest, memShard
  <2>3. /\ \A j \in Isus : latest'[j] >= latest[j] /\ latest'[j] \in Nat
        /\ latest'[i] >= t
    BY <1>0, <2>1, LatestWrites DEF TypeInv, TypeOK
  <2>4. ASSUME NEW c \in store
        PROVE  \/ c[2] <= latest'[c[1]]
               \/ c \in RowsOfFirst(memBatch, memPos) /\ c[1] \in memTodo'
    <3>1. c[1] \in Isus /\ c[2] \in Nat
      BY DEF TypeInv, TypeOK
    <3>2. CASE c[2] <= latest[c[1]]
      BY <1>1, <2>3, <3>1, <3>2
    <3>3. CASE c \in RowsOfFirst(memBatch, memPos) /\ c[1] = i
      <4>1. c[2] <= t
        BY <2>1, <2>2, <3>3 DEF IsLatestIn, RowsIn
      <4> QED BY <2>3, <3>1, <3>3, <4>1
    <3> QED BY <2>2, <3>2, <3>3 DEF CoverInv, CoveredOrDue
  <2> QED
    BY <2>2, <2>4 DEF CoverInv, LatestCoversStore, CoveredOrDue,
                      NothingCachedEarly, RowsOfFirst, IsusIn
<1>9. CASE MemFinish
  <2>1. /\ memPc = "work" /\ memPc' = "take" /\ memTodo = {}
        /\ UNCHANGED <<store, latest>>
    BY <1>9 DEF MemFinish, Mem!FinishBatch, memory
  <2> QED BY <2>1 DEF CoverInv, LatestCoversStore, CoveredOrDue,
                      NothingCachedEarly
<1>10. CASE DbWriter \/ DbFail
  BY <1>3, <1>10 DEF DbWriter, DbLoop, DbTake, DbInsert, DbUpdate, DbRetry,
                     DbFinish, DbFail, memShard, memWork, memory
<1>11. ASSUME NEW f \in Readers, FillSelect(f) PROVE CoverInv'
  BY <1>3, <1>11 DEF FillSelect, memShard, memWork, memory
<1>12. ASSUME NEW f \in Readers, NEW i \in Isus, FillLook(f, i)
       PROVE  CoverInv'
  BY <1>3, <1>12 DEF FillLook, memShard, memWork, memory
<1>13. ASSUME NEW f \in Readers, NEW i \in Isus, FillSet(f, i)
       PROVE  CoverInv'
  <2>1. fillRow[f][i] \in Nat
    BY DEF TypeInv, TypeOK
  <2>2. /\ latest' = CachedLatest(i, fillRow[f][i])
        /\ UNCHANGED <<memPc, memBatch, memPos, memTodo, store>>
    BY <1>13 DEF FillSet, memShard, memWork
  <2> QED BY <1>0, <1>2, <2>1, <2>2, CoverFrame
<1>14. CASE Crash
  BY <1>14 DEF Crash, RestartShards, CoverInv, LatestCoversStore,
               CoveredOrDue, NothingCachedEarly
<1>15. CASE UNCHANGED vars
  BY <1>3, <1>15 DEF vars, memShard, memWork, memory
<1> QED
  BY <1>4, <1>5, <1>6, <1>7, <1>8, <1>9, <1>10, <1>11, <1>12, <1>13, <1>14,
     <1>15
  DEF Next, MemWriter, Reader

LEMMA CoverInvariant == Spec => []CoverInv
<1>1. TypeInv /\ CoverInv /\ [Next]_vars => CoverInv'
  BY CoverNext
<1> QED BY TypeInvariant, CoverInit, <1>1, PTL DEF Spec

\* Between two batches of the memory writer the cached latest of an ISU is no
\* older than any of its conditions in memory, in whatever order the
\* conditions came and whatever the readers filled in from the table.
THEOREM PipelineLatestCoversStore == Spec => []LatestCoversStore
<1>1. CoverInv => LatestCoversStore
  BY DEF CoverInv
<1> QED BY CoverInvariant, <1>1, PTL
----------------------------------------------------------------------------
(* Where the two paths end.                                                *)

\* The conditions of the requests that have entered a shard.
RowsGiven(send) == UNION {RowsOf(r) : r \in {x \in Requests : send[x] # "new"}}

\* A handler passes through the memory shard before the database shard, and
\* dies only in a crash.
MemFirst == /\ lost = {}
            /\ \A r \in Requests : dbSend[r] # "new" => memSend[r] # "new"

\* A writer holds a batch only while it works on it.
NoBatchLeft == /\ memPc # "work" => memBatch = <<>>
               /\ dbPc # "work" => dbBatch = <<>>

\* Conservation on both paths: what has entered a shard is where it should end
\* up, or on its way there, and nothing else is.
MemKept == RowsGiven(memSend) = store \cup RowsIn(memQ) \cup RowsIn(memBatch)
DbKept == RowsGiven(dbSend) = rows \cup RowsIn(dbQ) \cup RowsIn(dbBatch)

\* What an attempt has still to insert is of the batch.
TodoOfBatch == dbTodoRows \subseteq RowsIn(dbBatch)

\* Outside a batch the column isu.latest_timestamp is no older than any row;
\* inside one, a newer row is of the batch and its ISU is still to be updated.
RowLatestCovers ==
    \A c \in rows : \/ c[2] <= rowLatest[c[1]]
                    \/ /\ dbPc = "work"
                       /\ c \in RowsIn(dbBatch)
                       /\ c[1] \in dbTodo

\* No ISU is updated before the last row is in.
NothingUpdatedEarly ==
    dbPc = "work" /\ dbTodoRows # {} => dbTodo = IsusIn(dbBatch)

\* The invariant, which holds until the process crashes: a crash forgets the
\* queues and may interrupt a batch between its rows and its latests.
WhileAlive == /\ MemFirst /\ NoBatchLeft
              /\ MemKept /\ DbKept /\ TodoOfBatch
              /\ RowLatestCovers /\ NothingUpdatedEarly

AgreeInv == crashes = 0 => WhileAlive

\* The conditions of a queue grow with the queue.
LEMMA RowsInFacts ==
    /\ RowsIn(<<>>) = {}
    /\ \A s \in Seq(Requests), r \in Requests :
          RowsIn(Append(s, r)) = RowsIn(s) \cup RowsOf(r)
<1>1. RowsIn(<<>>) = {}
  BY DEF RowsIn, RowsOfFirst
<1>2. ASSUME NEW s \in Seq(Requests), NEW r \in Requests
      PROVE  RowsIn(Append(s, r)) = RowsIn(s) \cup RowsOf(r)
  <2> DEFINE t == Append(s, r)
  <2>1. /\ Len(s) \in Nat /\ Len(t) = Len(s) + 1 /\ t[Len(t)] = r
        /\ \A k \in 1..Len(s) : t[k] = s[k]
    OBVIOUS
  <2> HIDE DEF t
  <2>2. 1..Len(t) = 1..Len(s) \cup {Len(t)}
    BY <2>1
  <2>3. ASSUME NEW c
        PROVE  /\ c \in RowsIn(t) <=> \E k \in 1..Len(t) : c \in RowsOf(t[k])
               /\ c \in RowsIn(s) <=> \E k \in 1..Len(s) : c \in RowsOf(s[k])
    BY DEF RowsIn, RowsOfFirst
  <2>4. ASSUME NEW c
        PROVE  c \in RowsIn(t) <=> c \in RowsIn(s) \/ c \in RowsOf(r)
    <3>1. c \in RowsIn(t) <=> \/ \E k \in 1..Len(s) : c \in RowsOf(t[k])
                             \/ c \in RowsOf(t[Len(t)])
      BY <2>2, <2>3
    <3>2. (\E k \in 1..Len(s) : c \in RowsOf(t[k]))
             <=> (\E k \in 1..Len(s) : c \in RowsOf(s[k]))
      BY <2>1
    <3> QED BY <2>1, <2>3, <3>1, <3>2
  <2>5. RowsIn(t) = RowsIn(s) \cup RowsOf(r)
    BY <2>4
  <2> QED BY <2>5 DEF t
<1> QED BY <1>1, <1>2

\* A request enters a shard with its conditions; the wake-up that follows
\* changes nothing here.
LEMMA GivenFacts ==
    ASSUME NEW send \in [Requests -> {"new", "appended", "sent"}],
           NEW r \in Requests
    PROVE  /\ send[r] = "new" =>
                RowsGiven([send EXCEPT ![r] = "appended"])
                  = RowsGiven(send) \cup RowsOf(r)
           /\ send[r] = "appended" =>
                RowsGiven([send EXCEPT ![r] = "sent"]) = RowsGiven(send)
<1>1. ASSUME send[r] = "new"
      PROVE  RowsGiven([send EXCEPT ![r] = "appended"])
               = RowsGiven(send) \cup RowsOf(r)
  <2> DEFINE after == [send EXCEPT ![r] = "appended"]
  <2>1. {x \in Requests : after[x] # "new"}
          = {x \in Requests : send[x] # "new"} \cup {r}
    OBVIOUS
  <2> HIDE DEF after
  <2> QED BY <2>1 DEF RowsGiven, after
<1>2. ASSUME send[r] = "appended"
      PROVE  RowsGiven([send EXCEPT ![r] = "sent"]) = RowsGiven(send)
  <2> DEFINE after == [send EXCEPT ![r] = "sent"]
  <2>1. {x \in Requests : after[x] # "new"}
          = {x \in Requests : send[x] # "new"}
    BY <1>2
  <2> HIDE DEF after
  <2> QED BY <2>1 DEF RowsGiven, after
<1> QED BY <1>1, <1>2

LEMMA AgreeInit == Init => AgreeInv
<1> SUFFICES ASSUME Init PROVE WhileAlive
  BY DEF AgreeInv
<1>1. RowsGiven(memSend) = {} /\ RowsGiven(dbSend) = {}
  BY DEF Init, Mem!Init, Db!Init, RowsGiven
<1> QED
  BY <1>1, RowsInFacts
  DEF Init, Mem!Init, Db!Init, WhileAlive, MemFirst, NoBatchLeft, MemKept,
      DbKept, TodoOfBatch, RowLatestCovers, NothingUpdatedEarly

\* Only a crash counts as one, and only a crash kills a handler.
LEMMA CrashesStep ==
    ASSUME [Next]_vars PROVE Crash \/ UNCHANGED <<crashes, lost>>
BY DEF Next, MemWriter, DbWriter, Reader, PostMem, PostDb, MemLoop, MemTake,
       MemAppend, MemSetLatest, MemFinish, DbLoop, DbTake, DbInsert, DbUpdate,
       DbFail, DbRetry, DbFinish, FillSelect, FillLook, FillSet, vars, faults

\* The parts of WhileAlive by what they read.
AliveMem == MemKept /\ (memPc # "work" => memBatch = <<>>)
AliveDb == /\ DbKept /\ (dbPc # "work" => dbBatch = <<>>)
           /\ TodoOfBatch /\ RowLatestCovers /\ NothingUpdatedEarly

LEMMA AliveParts == /\ WhileAlive <=> (MemFirst /\ AliveMem /\ AliveDb)
                    /\ WhileAlive' <=> (MemFirst' /\ AliveMem' /\ AliveDb')
BY DEF WhileAlive, AliveMem, AliveDb, NoBatchLeft

LEMMA AliveMemFrame ==
    ASSUME AliveMem,
           UNCHANGED <<memQ, memSend, memBatch, store>>,
           memPc' # "work" => memPc # "work"
    PROVE  AliveMem'
<1>1. /\ RowsIn(memQ)' = RowsIn(memQ) /\ RowsIn(memBatch)' = RowsIn(memBatch)
      /\ RowsGiven(memSend)' = RowsGiven(memSend)
  BY DEF RowsIn, RowsOfFirst, RowsGiven
<1>2. MemKept'
  BY <1>1 DEF AliveMem, MemKept
<1> QED
  BY <1>2 DEF AliveMem

LEMMA AliveDbFrame ==
    ASSUME AliveDb,
           UNCHANGED <<dbQ, dbSend, dbBatch, dbTodoRows, dbTodo, rows,
                       rowLatest>>,
           dbPc' = "work" <=> dbPc = "work"
    PROVE  AliveDb'
<1>1. /\ RowsIn(dbQ)' = RowsIn(dbQ) /\ RowsIn(dbBatch)' = RowsIn(dbBatch)
      /\ RowsGiven(dbSend)' = RowsGiven(dbSend)
  BY DEF RowsIn, RowsOfFirst, RowsGiven
<1>2. DbKept'
  BY <1>1 DEF AliveDb, DbKept
<1>3. TodoOfBatch'
  BY <1>1 DEF AliveDb, TodoOfBatch, IsusIn
<1>4. RowLatestCovers'
  BY DEF AliveDb, RowLatestCovers
<1>5. NothingUpdatedEarly'
  BY DEF AliveDb, NothingUpdatedEarly
<1> QED
  BY <1>2, <1>3, <1>4, <1>5 DEF AliveDb

\* Neither end of a path moves when only the other one does, nor when a reader
\* fills the latest cache.
LEMMA AliveNext ==
    ASSUME TypeInv, OriginInv, WhileAlive, [Next]_vars, ~Crash
    PROVE  WhileAlive'
<1>0. UNCHANGED lost /\ lost = {}
  BY CrashesStep DEF WhileAlive, MemFirst
<1>a. MemFirst /\ AliveMem /\ AliveDb
  BY AliveParts
<1>t. /\ memSend \in [Requests -> {"new", "appended", "sent"}]
      /\ dbSend \in [Requests -> {"new", "appended", "sent"}]
      /\ memQ \in Seq(Requests) /\ memBatch \in Seq(Requests)
      /\ dbQ \in Seq(Requests) /\ dbBatch \in Seq(Requests)
      /\ memPos \in 0..Len(memBatch)
  BY DEF TypeInv, TypeOK, Mem!TypeOK, Db!TypeOK
<1>m. ASSUME UNCHANGED <<memSend, dbSend>> PROVE MemFirst'
  BY <1>0, <1>a, <1>m DEF MemFirst
<1>f. ASSUME UNCHANGED <<memShard, dbShard, store, dbTodoRows, dbTodo, rows,
                         rowLatest>>
      PROVE  WhileAlive'
  BY <1>a, <1>f, <1>m, AliveParts, AliveMemFrame, AliveDbFrame
  DEF memShard, dbShard
<1>1. ASSUME NEW r \in Requests, PostMem(r) PROVE WhileAlive'
  <2>1. /\ UNCHANGED <<dbQ, dbSend, dbBatch, dbPc, dbTodoRows, dbTodo, rows,
                       rowLatest, memBatch, memPc, store>>
        /\ memSend' \in {[memSend EXCEPT ![r] = "appended"],
                         [memSend EXCEPT ![r] = "sent"]}
    BY <1>1 DEF PostMem, Mem!Enqueue, Mem!EnqueueAppend, Mem!EnqueueWake,
                dbShard, dbWork, database, memory
  <2>2. MemFirst'
    BY <1>0, <1>a, <1>t, <2>1 DEF MemFirst
  <2>3. MemKept'
    <3>1. CASE Mem!EnqueueAppend(r)
      <4>1. /\ memSend[r] = "new" /\ memQ' = Append(memQ, r)
            /\ memSend' = [memSend EXCEPT ![r] = "appended"]
        BY <3>1 DEF Mem!EnqueueAppend
      <4>2. RowsIn(memQ)' = RowsIn(memQ) \cup RowsOf(r)
        <5>1. RowsIn(Append(memQ, r)) = RowsIn(memQ) \cup RowsOf(r)
          BY <1>t, RowsInFacts
        <5>2. RowsIn(memQ)' = RowsIn(Append(memQ, r))
          BY <4>1 DEF RowsIn, RowsOfFirst
        <5> QED BY <5>1, <5>2
      <4>3. RowsGiven(memSend)' = RowsGiven(memSend) \cup RowsOf(r)
        BY <1>t, <4>1, GivenFacts DEF RowsGiven
      <4>4. RowsIn(memBatch)' = RowsIn(memBatch)
        BY <2>1 DEF RowsIn, RowsOfFirst
      <4> QED BY <1>a, <2>1, <4>2, <4>3, <4>4 DEF AliveMem, MemKept
    <3>2. CASE Mem!EnqueueWake(r)
      <4>1. /\ memSend[r] = "appended" /\ memQ' = memQ
            /\ memSend' = [memSend EXCEPT ![r] = "sent"]
        BY <3>2 DEF Mem!EnqueueWake
      <4>2. RowsGiven(memSend)' = RowsGiven(memSend)
        BY <1>t, <4>1, GivenFacts DEF RowsGiven
      <4>3. /\ RowsIn(memQ)' = RowsIn(memQ)
            /\ RowsIn(memBatch)' = RowsIn(memBatch)
        BY <2>1, <4>1 DEF RowsIn, RowsOfFirst
      <4> QED BY <1>a, <2>1, <4>2, <4>3 DEF AliveMem, MemKept
    <3> QED BY <1>1, <3>1, <3>2 DEF PostMem, Mem!Enqueue
  <2>4. AliveMem'
    BY <1>a, <2>1, <2>3 DEF AliveMem
  <2>5. AliveDb'
    BY <1>a, <2>1, AliveDbFrame
  <2> QED BY <2>2, <2>4, <2>5, AliveParts
<1>2. ASSUME NEW r \in Requests, PostDb(r) PROVE WhileAlive'
  <2>1. /\ memSend[r] = "sent"
        /\ UNCHANGED <<memQ, memSend, memBatch, memPc, store, dbTodoRows,
                       dbTodo, rows, rowLatest, dbBatch, dbPc>>
        /\ dbSend' \in {[dbSend EXCEPT ![r] = "appended"],
                        [dbSend EXCEPT ![r] = "sent"]}
    BY <1>2 DEF PostDb, Db!Enqueue, Db!EnqueueAppend, Db!EnqueueWake,
                memShard, dbWork, database, memory
  <2>2. MemFirst'
    BY <1>0, <1>a, <1>t, <2>1 DEF MemFirst
  <2>3. DbKept'
    <3>1. CASE Db!EnqueueAppend(r)
      <4>1. /\ dbSend[r] = "new" /\ dbQ' = Append(dbQ, r)
            /\ dbSend' = [dbSend EXCEPT ![r] = "appended"]
        BY <3>1 DEF Db!EnqueueAppend
      <4>2. RowsIn(dbQ)' = RowsIn(dbQ) \cup RowsOf(r)
        BY <1>t, <4>1, RowsInFacts DEF RowsIn, RowsOfFirst
      <4>3. RowsGiven(dbSend)' = RowsGiven(dbSend) \cup RowsOf(r)
        BY <1>t, <4>1, GivenFacts DEF RowsGiven
      <4>4. RowsIn(dbBatch)' = RowsIn(dbBatch)
        BY <2>1 DEF RowsIn, RowsOfFirst
      <4> QED BY <1>a, <2>1, <4>2, <4>3, <4>4 DEF AliveDb, DbKept
    <3>2. CASE Db!EnqueueWake(r)
      <4>1. /\ dbSend[r] = "appended" /\ dbQ' = dbQ
            /\ dbSend' = [dbSend EXCEPT ![r] = "sent"]
        BY <3>2 DEF Db!EnqueueWake
      <4>2. RowsGiven(dbSend)' = RowsGiven(dbSend)
        BY <1>t, <4>1, GivenFacts DEF RowsGiven
      <4>3. /\ RowsIn(dbQ)' = RowsIn(dbQ)
            /\ RowsIn(dbBatch)' = RowsIn(dbBatch)
        BY <2>1, <4>1 DEF RowsIn, RowsOfFirst
      <4> QED BY <1>a, <2>1, <4>2, <4>3 DEF AliveDb, DbKept
    <3> QED BY <1>2, <3>1, <3>2 DEF PostDb, Db!Enqueue
  <2>4. AliveDb'
    BY <1>a, <2>1, <2>3 DEF AliveDb, TodoOfBatch, RowLatestCovers,
                            NothingUpdatedEarly, RowsIn, RowsOfFirst, IsusIn
  <2>5. AliveMem'
    BY <1>a, <2>1, AliveMemFrame
  <2> QED BY <2>2, <2>4, <2>5, AliveParts
<1>3. ASSUME UNCHANGED <<dbShard, dbTodoRows, dbTodo, rows, rowLatest>>,
             UNCHANGED memSend, AliveMem'
      PROVE  WhileAlive'
  BY <1>a, <1>3, <1>m, AliveParts, AliveDbFrame DEF dbShard
<1>4. CASE MemLoop
  <2>1. UNCHANGED <<dbShard, dbTodoRows, dbTodo, rows, rowLatest, memSend,
                    memQ, memBatch, store>>
    BY <1>4 DEF MemLoop, Mem!ReceiveWake, dbWork, database, memory
  <2>2. memPc # "work"
    BY <1>4 DEF MemLoop, Mem!ReceiveWake
  <2> QED BY <1>3, <1>a, <2>1, <2>2, AliveMemFrame
<1>5. CASE MemTake
  <2>1. /\ memPc = "take" /\ memBatch' = memQ /\ memQ' = <<>>
        /\ memPc' # "work" => memQ = <<>>
        /\ UNCHANGED <<dbShard, dbTodoRows, dbTodo, rows, rowLatest, memSend,
                       store>>
    BY <1>5 DEF MemTake, Mem!TakeAll, dbWork, database, memory
  <2>2. memBatch = <<>>
    BY <1>a, <2>1 DEF AliveMem
  <2>3. RowsIn(memBatch) = {} /\ RowsIn(memQ)' = {}
    BY <2>1, <2>2, RowsInFacts DEF RowsIn, RowsOfFirst
  <2>4. RowsIn(memBatch)' = RowsIn(memQ)
    BY <2>1 DEF RowsIn, RowsOfFirst
  <2>5. RowsGiven(memSend)' = RowsGiven(memSend)
    BY <2>1 DEF RowsGiven
  <2>6. AliveMem'
    BY <1>a, <2>1, <2>3, <2>4, <2>5 DEF AliveMem, MemKept
  <2> QED BY <1>3, <2>1, <2>6
<1>6. CASE MemAppend
  <2> DEFINE r == memBatch[memPos + 1]
  <2>1. /\ memPos < Len(memBatch) /\ store' = store \cup RowsOf(r)
        /\ UNCHANGED <<memShard, dbShard, dbTodoRows, dbTodo, rows, rowLatest>>
    BY <1>6 DEF MemAppend, dbWork, database
  <2>2. memPos + 1 \in 1..Len(memBatch)
    BY <1>t, <2>1
  <2>3. RowsOf(r) \subseteq RowsIn(memBatch)
    BY <2>2 DEF RowsIn, RowsOfFirst
  <2>4. /\ RowsGiven(memSend)' = RowsGiven(memSend)
        /\ RowsIn(memQ)' = RowsIn(memQ)
        /\ RowsIn(memBatch)' = RowsIn(memBatch)
    BY <2>1 DEF memShard, RowsGiven, RowsIn, RowsOfFirst
  <2>5. AliveMem'
    BY <1>a, <2>1, <2>3, <2>4 DEF AliveMem, MemKept, memShard
  <2> QED BY <1>3, <2>1, <2>5 DEF memShard
<1>7. ASSUME NEW i \in Isus, MemSetLatest(i) PROVE WhileAlive'
  BY <1>7, <1>f DEF MemSetLatest, dbWork, database
<1>8. CASE MemFinish
  <2>1. /\ memPc = "work" /\ memPos = Len(memBatch) /\ memBatch' = <<>>
        /\ UNCHANGED <<dbShard, dbTodoRows, dbTodo, rows, rowLatest, memSend,
                       memQ, store>>
    BY <1>8 DEF MemFinish, Mem!FinishBatch, dbWork, database, memory
  <2>2. RowsIn(memBatch) \subseteq store
    BY <2>1 DEF OriginInv, PrefixStored, RowsIn
  <2>3. /\ RowsIn(memBatch)' = {} /\ RowsIn(memQ)' = RowsIn(memQ)
        /\ RowsGiven(memSend)' = RowsGiven(memSend)
    BY <2>1, RowsInFacts DEF RowsIn, RowsOfFirst, RowsGiven
  <2>4. AliveMem'
    BY <1>a, <2>1, <2>2, <2>3 DEF AliveMem, MemKept
  <2> QED BY <1>3, <2>1, <2>4
<1>9. ASSUME UNCHANGED <<memShard, store, dbSend>>, AliveDb' PROVE WhileAlive'
  BY <1>a, <1>9, <1>m, AliveParts, AliveMemFrame DEF memShard
<1>10. CASE DbLoop
  <2>1. UNCHANGED <<memShard, store, dbSend, dbQ, dbBatch, dbTodoRows, dbTodo,
                    rows, rowLatest>>
    BY <1>10 DEF DbLoop, Db!ReceiveWake, Db!LingerWake, Db!LingerTimer,
                 dbWork, database, memory
  <2>2. dbPc # "work" /\ dbPc' # "work"
    BY <1>10 DEF DbLoop, Db!ReceiveWake, Db!LingerWake, Db!LingerTimer
  <2> QED BY <1>9, <1>a, <2>1, <2>2, AliveDbFrame
<1>11. CASE DbTake
  <2>1. /\ dbPc = "take" /\ dbBatch' = dbQ /\ dbQ' = <<>>
        /\ dbPc' # "work" => dbQ = <<>>
        /\ dbTodoRows' = RowsIn(dbBatch') /\ dbTodo' = IsusIn(dbBatch')
        /\ UNCHANGED <<memShard, store, dbSend, rows, rowLatest>>
    BY <1>11 DEF DbTake, Db!TakeAll, StartAttempt, database, memory, RowsIn,
                 RowsOfFirst, IsusIn
  <2>2. dbBatch = <<>>
    BY <1>a, <2>1 DEF AliveDb
  <2>3. RowsIn(dbBatch) = {} /\ RowsIn(dbQ)' = {}
    BY <2>1, <2>2, RowsInFacts DEF RowsIn, RowsOfFirst
  <2>4. RowsIn(dbBatch)' = RowsIn(dbQ)
    BY <2>1 DEF RowsIn, RowsOfFirst
  <2>5. RowsGiven(dbSend)' = RowsGiven(dbSend)
    BY <2>1 DEF RowsGiven
  <2>6. DbKept'
    BY <1>a, <2>1, <2>3, <2>4, <2>5 DEF AliveDb, DbKept
  <2>7. TodoOfBatch' /\ NothingUpdatedEarly'
    BY <2>1 DEF TodoOfBatch, NothingUpdatedEarly, RowsIn, RowsOfFirst, IsusIn
  <2>8. RowLatestCovers'
    BY <1>a, <2>1, <2>3 DEF AliveDb, RowLatestCovers
  <2> QED BY <1>9, <2>1, <2>6, <2>7, <2>8 DEF AliveDb
<1>12. CASE DbInsert
  <2>1. PICK chunk \in SUBSET dbTodoRows : /\ chunk # {}
                                           /\ rows' = rows \cup chunk
                                           /\ dbTodoRows' = dbTodoRows \ chunk
    BY <1>12 DEF DbInsert
  <2>2. /\ dbPc = "work"
        /\ UNCHANGED <<memShard, dbShard, store, rowLatest, dbTodo>>
    BY <1>12 DEF DbInsert, memory
  <2>3. /\ RowsGiven(dbSend)' = RowsGiven(dbSend)
        /\ RowsIn(dbQ)' = RowsIn(dbQ) /\ RowsIn(dbBatch)' = RowsIn(dbBatch)
        /\ IsusIn(dbBatch)' = IsusIn(dbBatch)
        /\ UNCHANGED <<dbPc, dbBatch>>
    BY <2>2 DEF dbShard, RowsGiven, RowsIn, RowsOfFirst, IsusIn
  <2>4. chunk \subseteq RowsIn(dbBatch) /\ dbTodo = IsusIn(dbBatch)
    BY <1>a, <2>1, <2>2 DEF AliveDb, TodoOfBatch, NothingUpdatedEarly
  <2>5. \A c \in RowsIn(dbBatch) : c[1] \in IsusIn(dbBatch)
    BY <1>t DEF RowsIn, RowsOfFirst, RowsOf, IsusIn
  <2>6. DbKept'
    BY <1>a, <2>1, <2>3, <2>4 DEF AliveDb, DbKept
  <2>7. TodoOfBatch' /\ NothingUpdatedEarly'
    BY <1>a, <2>1, <2>2, <2>3, <2>4 DEF AliveDb, TodoOfBatch,
                                        NothingUpdatedEarly
  <2>8. ASSUME NEW c \in rows'
        PROVE  \/ c[2] <= rowLatest'[c[1]]
               \/ dbPc' = "work" /\ c \in RowsIn(dbBatch)' /\ c[1] \in dbTodo'
    <3>1. CASE c \in rows
      BY <1>a, <2>2, <2>3, <3>1 DEF AliveDb, RowLatestCovers
    <3>2. CASE c \in chunk
      BY <2>2, <2>3, <2>4, <2>5, <3>2
    <3> QED BY <2>1, <3>1, <3>2
  <2>9. RowLatestCovers'
    BY <2>8 DEF RowLatestCovers
  <2> QED
    BY <1>9, <1>a, <2>2, <2>3, <2>6, <2>7, <2>9 DEF AliveDb, dbShard
<1>13. ASSUME NEW i \in Isus, DbUpdate(i) PROVE WhileAlive'
  <2>1. PICK t \in Nat : /\ IsLatestIn(t, i, RowsIn(dbBatch))
                         /\ rowLatest' = UpdatedRowLatest(i, t)
    BY <1>13, RowsType DEF DbUpdate
  <2>2. /\ dbPc = "work" /\ dbTodoRows = {} /\ dbTodo' = dbTodo \ {i}
        /\ UNCHANGED <<memShard, dbShard, store, rows, dbTodoRows>>
    BY <1>13 DEF DbUpdate, memory
  <2>3. /\ RowsGiven(dbSend)' = RowsGiven(dbSend)
        /\ RowsIn(dbQ)' = RowsIn(dbQ) /\ RowsIn(dbBatch)' = RowsIn(dbBatch)
        /\ UNCHANGED <<dbPc, dbBatch>>
    BY <2>2 DEF dbShard, RowsGiven, RowsIn, RowsOfFirst
  <2>4. /\ \A j \in Isus : /\ rowLatest[j] \in Nat /\ rowLatest'[j] \in Nat
                           /\ rowLatest'[j] >= rowLatest[j]
        /\ rowLatest'[i] >= t
    <3>1. latest \in [Isus -> Nat] /\ rowLatest \in [Isus -> Nat]
      BY DEF TypeInv, TypeOK
    <3>2. /\ rowLatest' \in [Isus -> Nat]
          /\ \A j \in Isus : rowLatest'[j] >= rowLatest[j]
      BY <2>1, <3>1, LatestWrites
    <3>3. rowLatest'[i] >= t
      BY <2>1, <3>1 DEF UpdatedRowLatest
    <3> QED BY <3>1, <3>2, <3>3
  <2>5. ASSUME NEW c \in rows
        PROVE  \/ c[2] <= rowLatest'[c[1]]
               \/ dbPc' = "work" /\ c \in RowsIn(dbBatch)' /\ c[1] \in dbTodo'
    <3>1. c[1] \in Isus /\ c[2] \in Nat
      BY DEF TypeInv, TypeOK
    <3>2. CASE c[2] <= rowLatest[c[1]]
      BY <2>4, <3>1, <3>2
    <3>3. CASE c \in RowsIn(dbBatch) /\ c[1] = i
      <4>1. c[2] <= t
        BY <2>1, <3>3 DEF IsLatestIn
      <4> QED BY <2>4, <3>1, <3>3, <4>1
    <3> QED
      BY <1>a, <2>2, <2>3, <3>2, <3>3 DEF AliveDb, RowLatestCovers
  <2>6. RowLatestCovers'
    BY <2>2, <2>5 DEF RowLatestCovers
  <2>7. DbKept' /\ TodoOfBatch' /\ NothingUpdatedEarly'
    BY <1>a, <2>2, <2>3 DEF AliveDb, DbKept, TodoOfBatch, NothingUpdatedEarly
  <2> QED BY <1>9, <1>a, <2>2, <2>3, <2>6, <2>7 DEF AliveDb, dbShard
<1>14. CASE DbFail
  BY <1>14, <1>f DEF DbFail, database, memory
<1>15. CASE DbRetry
  <2>1. /\ dbPc = "work"
        /\ dbTodoRows' = RowsIn(dbBatch) /\ dbTodo' = IsusIn(dbBatch)
        /\ UNCHANGED <<memShard, dbShard, store, rows, rowLatest>>
    BY <1>15 DEF DbRetry, StartAttempt, database, memory
  <2>2. /\ RowsGiven(dbSend)' = RowsGiven(dbSend)
        /\ RowsIn(dbQ)' = RowsIn(dbQ) /\ RowsIn(dbBatch)' = RowsIn(dbBatch)
        /\ IsusIn(dbBatch)' = IsusIn(dbBatch)
        /\ UNCHANGED <<dbPc, dbBatch>>
    BY <2>1 DEF dbShard, RowsGiven, RowsIn, RowsOfFirst, IsusIn
  <2>3. \A c \in RowsIn(dbBatch) : c[1] \in IsusIn(dbBatch)
    BY <1>t DEF RowsIn, RowsOfFirst, RowsOf, IsusIn
  <2>4. DbKept' /\ TodoOfBatch' /\ NothingUpdatedEarly'
    BY <1>a, <2>1, <2>2 DEF AliveDb, DbKept, TodoOfBatch, NothingUpdatedEarly
  <2>5. RowLatestCovers'
    BY <1>a, <2>1, <2>2, <2>3 DEF AliveDb, RowLatestCovers
  <2> QED BY <1>9, <1>a, <2>1, <2>2, <2>4, <2>5 DEF AliveDb, dbShard
<1>16. CASE DbFinish
  <2>1. /\ dbPc = "work" /\ ~dbSleep /\ dbTodoRows = {} /\ dbTodo = {}
        /\ dbPc' = "take" /\ dbBatch' = <<>>
        /\ UNCHANGED <<memShard, store, dbSend, dbQ, dbTodoRows, dbTodo, rows,
                       rowLatest>>
    BY <1>16 DEF DbFinish, Db!FinishBatch, dbWork, database, memory
  <2>2. RowsIn(dbBatch) \subseteq rows
    BY <2>1 DEF OriginInv, BatchCovered
  <2>3. /\ RowsIn(dbBatch)' = {} /\ RowsIn(dbQ)' = RowsIn(dbQ)
        /\ RowsGiven(dbSend)' = RowsGiven(dbSend)
    BY <2>1, RowsInFacts DEF RowsIn, RowsOfFirst, RowsGiven
  <2>4. DbKept'
    BY <1>a, <2>1, <2>2, <2>3 DEF AliveDb, DbKept
  <2>5. TodoOfBatch' /\ NothingUpdatedEarly'
    BY <2>1 DEF TodoOfBatch, NothingUpdatedEarly
  <2>6. RowLatestCovers'
    BY <1>a, <2>1 DEF AliveDb, RowLatestCovers
  <2> QED BY <1>9, <2>1, <2>4, <2>5, <2>6 DEF AliveDb
<1>17. ASSUME NEW f \in Readers, FillSelect(f) PROVE WhileAlive'
  BY <1>17, <1>f DEF FillSelect, memory, dbWork, database
<1>18. ASSUME NEW f \in Readers, NEW i \in Isus,
              FillLook(f, i) \/ FillSet(f, i)
       PROVE  WhileAlive'
  BY <1>18, <1>f DEF FillLook, FillSet, memory, dbWork, database
<1>19. CASE UNCHANGED vars
  BY <1>19, <1>f DEF vars, memory, dbWork, database
<1> QED
  BY <1>1, <1>2, <1>4, <1>5, <1>6, <1>7, <1>8, <1>10, <1>11, <1>12, <1>13,
     <1>14, <1>15, <1>16, <1>17, <1>18, <1>19
  DEF Next, MemWriter, DbWriter, Reader

LEMMA AgreeInvariant == Spec => []AgreeInv
<1>1. TypeInv /\ OriginInv /\ AgreeInv /\ [Next]_vars => AgreeInv'
  <2> SUFFICES ASSUME TypeInv, OriginInv, AgreeInv, [Next]_vars, crashes' = 0
               PROVE  WhileAlive'
    BY DEF AgreeInv
  <2>1. ~Crash
    BY DEF Crash, TypeInv, TypeOK
  <2>2. WhileAlive
    BY <2>1, CrashesStep DEF AgreeInv
  <2> QED BY <2>1, <2>2, AliveNext
<1> QED BY TypeInvariant, OriginInvariant, AgreeInit, <1>1, PTL DEF Spec

\* When both queues of a living process are drained, memory and table hold
\* exactly the conditions of the accepted requests, the cached latest and the
\* column agree, and both are the greatest timestamp of their ISU, whatever
\* the two writers, the readers and the retries have done in between.
THEOREM PipelineQuiescentAgreement == Spec => []QuiescentAgreement
<1>1. ASSUME TypeInv, OriginInv, CoverInv, AgreeInv PROVE QuiescentAgreement
  <2> SUFFICES ASSUME crashes = 0, Quiescent
               PROVE  /\ store = UNION {RowsOf(r) : r \in {x \in Requests : Accepted(x)}}
                      /\ rows = store
                      /\ rowLatest = latest
                      /\ \A i \in Isus :
                            IF \E c \in store : c[1] = i
                            THEN IsLatestIn(latest[i], i, store)
                            ELSE latest[i] = None
    BY DEF QuiescentAgreement
  <2>1. MemFirst /\ NoBatchLeft /\ MemKept /\ DbKept /\ RowLatestCovers
    BY <1>1 DEF AgreeInv, WhileAlive
  <2>2. /\ memQ = <<>> /\ memPc # "work" /\ dbQ = <<>> /\ dbPc # "work"
        /\ memBatch = <<>> /\ dbBatch = <<>>
    BY <2>1 DEF Quiescent, NoBatchLeft
  <2>3. store = RowsGiven(memSend) /\ rows = RowsGiven(dbSend)
    BY <2>1, <2>2, RowsInFacts DEF MemKept, DbKept
  <2>4. ASSUME NEW r \in Requests
        PROVE  /\ memSend[r] # "new" <=> Accepted(r)
               /\ dbSend[r] # "new" <=> Accepted(r)
    BY <2>1 DEF Quiescent, MemFirst, Accepted
  <2>5. /\ {x \in Requests : memSend[x] # "new"} = {x \in Requests : Accepted(x)}
        /\ {x \in Requests : dbSend[x] # "new"} = {x \in Requests : Accepted(x)}
    BY <2>4
  <2>6. /\ store = UNION {RowsOf(r) : r \in {x \in Requests : Accepted(x)}}
        /\ rows = store
    BY <2>3, <2>5 DEF RowsGiven
  <2>7. \A c \in store : /\ c[1] \in Isus /\ c[2] \in Nat \ {None}
                         /\ c = <<c[1], c[2]>>
    <3>1. \A c \in store : \E r \in Requests : c \in RowsOf(r)
      BY <2>6
    <3>2. \A r \in Requests : IsuOf[r] \in Isus /\ TimesOf[r] \subseteq Nat \ {None}
      BY PipelineAssumption
    <3> QED BY <3>1, <3>2 DEF RowsOf
  <2>8. \A c \in store : c[2] <= latest[c[1]] /\ c[2] <= rowLatest[c[1]]
    BY <1>1, <2>1, <2>2, <2>6 DEF CoverInv, LatestCoversStore, RowLatestCovers
  <2>9. \A i \in Isus : /\ latest[i] \in Nat /\ rowLatest[i] \in Nat
                        /\ latest[i] # None => <<i, latest[i]>> \in store
                        /\ rowLatest[i] # None => <<i, rowLatest[i]>> \in store
    BY <1>1, <2>6 DEF OriginInv, LatestIsReal, RowLatestInserted, TypeInv,
                      TypeOK
  <2>10. ASSUME NEW i \in Isus, NEW c \in store, c[1] = i
         PROVE  IsLatestIn(latest[i], i, store) /\ rowLatest[i] = latest[i]
    <3>1. latest[i] # None /\ rowLatest[i] # None
      BY <2>7, <2>8, <2>9, <2>10 DEF None
    <3>2. <<i, latest[i]>> \in store /\ <<i, rowLatest[i]>> \in store
      BY <2>9, <3>1
    <3>3. latest[i] <= rowLatest[i] /\ rowLatest[i] <= latest[i]
      BY <2>8, <3>2
    <3> QED BY <2>8, <2>9, <3>2, <3>3 DEF IsLatestIn
  <2>11. ASSUME NEW i \in Isus, \A c \in store : c[1] # i
         PROVE  latest[i] = None /\ rowLatest[i] = None
    BY <2>9, <2>11
  <2>12. \A i \in Isus : rowLatest[i] = latest[i]
    BY <2>10, <2>11
  <2>13. rowLatest = latest
    <3>1. latest \in [Isus -> Nat] /\ rowLatest \in [Isus -> Nat]
      BY <1>1 DEF TypeInv, TypeOK
    <3> QED BY <2>12, <3>1
  <2> QED BY <2>6, <2>10, <2>11, <2>13
<1> QED
  BY TypeInvariant, OriginInvariant, CoverInvariant, AgreeInvariant, <1>1, PTL

\* While the process lives and the database writer is not inside a batch, the
\* column covers the rows, whatever failed and was repeated before.
THEOREM PipelineRowLatestCoversRows == Spec => []RowLatestCoversRows
<1>1. AgreeInv => RowLatestCoversRows
  BY DEF AgreeInv, WhileAlive, RowLatestCovers, RowLatestCoversRows
<1> QED BY AgreeInvariant, <1>1, PTL

\* While the process lives, a drained memory writer has everything in memory
\* that the table has, and the cached latest is not behind the column.
THEOREM PipelineMemoryLeads == Spec => []MemoryLeads
<1>1. ASSUME TypeInv, OriginInv, CoverInv, AgreeInv PROVE MemoryLeads
  <2> SUFFICES ASSUME crashes = 0, memQ = <<>>, memPc # "work"
               PROVE  /\ rows \subseteq store
                      /\ \A i \in Isus : rowLatest[i] <= latest[i]
    BY DEF MemoryLeads
  <2>1. MemFirst /\ NoBatchLeft /\ MemKept /\ DbKept
    BY <1>1 DEF AgreeInv, WhileAlive
  <2>2. store = RowsGiven(memSend)
    BY <2>1, RowsInFacts DEF NoBatchLeft, MemKept
  <2>3. rows \subseteq RowsGiven(dbSend)
    BY <2>1 DEF DbKept
  <2>4. RowsGiven(dbSend) \subseteq RowsGiven(memSend)
    BY <2>1 DEF MemFirst, RowsGiven
  <2>5. rows \subseteq store
    BY <2>2, <2>3, <2>4
  <2>6. ASSUME NEW i \in Isus PROVE rowLatest[i] <= latest[i]
    <3>1. rowLatest[i] \in Nat /\ latest[i] \in Nat
      BY <1>1 DEF TypeInv, TypeOK
    <3>2. CASE rowLatest[i] = None
      BY <3>1, <3>2 DEF None
    <3>3. CASE rowLatest[i] # None
      <4>1. <<i, rowLatest[i]>> \in store
        BY <1>1, <2>5, <3>3 DEF OriginInv, RowLatestInserted
      <4> QED BY <1>1, <4>1 DEF CoverInv, LatestCoversStore
    <3> QED BY <3>2, <3>3
  <2> QED BY <2>5, <2>6
<1> QED
  BY TypeInvariant, OriginInvariant, CoverInvariant, AgreeInvariant, <1>1, PTL
=============================================================================
