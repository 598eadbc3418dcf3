------------------------- MODULE ConditionPipeline -------------------------
(***************************************************************************)
(* The path of a condition from POST /api/condition to the memory that the *)
(* GET handlers read and to the database.  One shard index: two shards     *)
(* (memory and database) fed by the same handlers, their two consumers,    *)
(* the database with its failures, the readers that fill the latest cache  *)
(* from the database, and a crash of the process with the restart that     *)
(* main performs.  Requests of different shard indexes share no queue and  *)
(* no ISU, so one index with several ISUs stands for all of them.          *)
(*                                                                         *)
(* A condition is the pair <<isu, timestamp>>: the timestamps of one ISU   *)
(* do not repeat (docs/app-manual.md), so they identify the condition, and *)
(* what else it carries plays no part here.                                *)
(***************************************************************************)
EXTENDS Integers, Sequences, FiniteSets

CONSTANTS Isus,         \* the ISUs of this shard index
          Requests,     \* the POST requests, each handled by one goroutine
          IsuOf,        \* the ISU in the URL of a request
          TimesOf,      \* the timestamps in the body of a request
          Readers,      \* goroutines that fill the latest cache from the rows
          InsertChunk,  \* conditionInsertChunk
          MaxFailures,  \* bound: how often the database fails
          MaxCrashes    \* bound: how often the process crashes

\* A latest timestamp that is absent (no entry in the cache, NULL in the row).
None == 0

ASSUME PipelineAssumption ==
    /\ IsuOf \in [Requests -> Isus]
    /\ TimesOf \in [Requests -> (SUBSET (Nat \ {None})) \ {{}}]
    /\ InsertChunk \in Nat \ {0}
    /\ MaxFailures \in Nat
    /\ MaxCrashes \in Nat

VARIABLES
    memQ, memWake, memSend, memPc, memBatch,  \* conditionMemShards[idx]
    dbQ, dbWake, dbSend, dbPc, dbBatch,       \* conditionDBShards[idx]
    memPos,     \* requests of memBatch already appended to the store
    memTodo,    \* ISUs of latestByIsu whose latest is not yet cached
    store,      \* conditionStore: the conditions in memory
    latest,     \* isuLatestConditionCache: timestamp per ISU, or None
    dbTodoRows, \* rows of dbBatch this attempt has still to INSERT
    dbTodo,     \* ISUs of latestByIsu this attempt has still to UPDATE
    dbSleep,    \* is the writer sleeping before a retry?
    rows,       \* table isu_condition
    rowLatest,  \* column isu.latest_timestamp, or None for NULL
    fillRow,    \* per reader: the column latest_timestamp it has selected
    fillIsus,   \* per reader: ISUs whose row it has still to visit
    fillMiss,   \* per reader: the ISU it found missing in the latest cache
    lost,       \* requests whose handler died in a crash
    failures, crashes

memShard == <<memQ, memWake, memSend, memPc, memBatch>>
dbShard  == <<dbQ, dbWake, dbSend, dbPc, dbBatch>>
memWork  == <<memPos, memTodo>>
memory   == <<store, latest>>
dbWork   == <<dbTodoRows, dbTodo, dbSleep>>
database == <<rows, rowLatest>>
filler   == <<fillRow, fillIsus, fillMiss>>
faults   == <<lost, failures, crashes>>
vars == <<memShard, dbShard, memWork, memory, dbWork, database, filler, faults>>

Mem == INSTANCE ConditionShard WITH
          BatchWait <- FALSE, q <- memQ, wake <- memWake, send <- memSend,
          pc <- memPc, batch <- memBatch
Db  == INSTANCE ConditionShard WITH
          BatchWait <- TRUE, q <- dbQ, wake <- dbWake, send <- dbSend,
          pc <- dbPc, batch <- dbBatch

----------------------------------------------------------------------------
\* The conditions of a request, of a batch, and of the first n of a batch.
RowsOf(r) == {IsuOf[r]} \X TimesOf[r]
RowsOfFirst(b, n) == UNION {RowsOf(b[k]) : k \in 1..n}
RowsIn(b) == RowsOfFirst(b, Len(b))
IsusIn(b) == {IsuOf[b[k]] : k \in DOMAIN b}

\* t is the greatest timestamp of ISU i in a set of conditions.
IsLatestIn(t, i, C) == /\ <<i, t>> \in C
                       /\ \A c \in C : c[1] = i => c[2] <= t

\* Mutants of CachedLatest: the last call wins; the first call wins.
LastCallCached(i, t) == [latest EXCEPT ![i] = t]
FirstCallCached(i, t) ==
    IF latest[i] # None THEN latest ELSE [latest EXCEPT ![i] = t]

\* setCachedIsuLatestCondition: an older timestamp never overwrites.
CachedLatest(i, t) ==
    IF latest[i] # None /\ t < latest[i] THEN latest
                                         ELSE [latest EXCEPT ![i] = t]

\* Mutant of UpdatedRowLatest: the WHERE clause has no comparison.
OverwrittenRowLatest(i, t) == [rowLatest EXCEPT ![i] = t]

\* UPDATE isu ... WHERE latest_timestamp IS NULL OR latest_timestamp < t.
UpdatedRowLatest(i, t) ==
    IF rowLatest[i] = None \/ rowLatest[i] < t
    THEN [rowLatest EXCEPT ![i] = t] ELSE rowLatest

Init ==
    /\ Mem!Init
    /\ Db!Init
    /\ memPos = 0 /\ memTodo = {}
    /\ store = {} /\ latest = [i \in Isus |-> None]
    /\ dbTodoRows = {} /\ dbTodo = {} /\ dbSleep = FALSE
    /\ rows = {} /\ rowLatest = [i \in Isus |-> None]
    /\ fillRow = [f \in Readers |-> [i \in Isus |-> None]]
    /\ fillIsus = [f \in Readers |-> {}]
    /\ fillMiss = [f \in Readers |-> {}]
    /\ lost = {} /\ failures = 0 /\ crashes = 0

----------------------------------------------------------------------------
(* The handler: enqueueConditionMemory, then 202.                          *)

PostMem(r) ==
    /\ Mem!Enqueue(r)
    /\ UNCHANGED <<dbShard, memWork, memory, dbWork, database, filler, faults>>

\* Mutant of PostDb: the database's queue is filled whether or not the memory's is.
PostDbAnyTime(r) ==
    /\ Db!Enqueue(r)
    /\ UNCHANGED <<memShard, memWork, memory, dbWork, database, filler, faults>>

PostDb(r) ==
    /\ memSend[r] = "sent"
    /\ Db!Enqueue(r)
    /\ UNCHANGED <<memShard, memWork, memory, dbWork, database, filler, faults>>

\* The handler of r has answered 202.
Accepted(r) == dbSend[r] = "sent" /\ r \notin lost

----------------------------------------------------------------------------
(* conditionMemWriter and applyConditionMemoryBatch.                       *)

MemLoop ==
    /\ Mem!ReceiveWake
    /\ UNCHANGED <<dbShard, memWork, memory, dbWork, database, filler, faults>>

MemTake ==
    /\ Mem!TakeAll
    /\ memTodo' = IsusIn(memQ)
    /\ UNCHANGED <<memPos, dbShard, memory, dbWork, database, filler, faults>>

\* appendIsuConditions of the next request, under the lock of its ISU.
MemAppend ==
    /\ memPc = "work"
    /\ memPos < Len(memBatch)
    /\ store' = store \cup RowsOf(memBatch[memPos + 1])
    /\ memPos' = memPos + 1
    /\ UNCHANGED <<memShard, memTodo, latest, dbShard, dbWork, database,
                   filler, faults>>

\* Mutant of MemSetLatest: the latest is cached before the conditions are in.
MemSetLatestEarly(i) ==
    /\ memPc = "work"
    /\ i \in memTodo
    /\ \E t \in UNION {TimesOf[r] : r \in Requests} :
          /\ IsLatestIn(t, i, RowsIn(memBatch))
          /\ latest' = CachedLatest(i, t)
    /\ memTodo' = memTodo \ {i}
    /\ UNCHANGED <<memShard, memPos, store, dbShard, dbWork, database,
                   filler, faults>>

\* The loop over latestByIsu: a Go map, so in any order.  The graph and list
\* caches that a turn of the loop also touches are not part of this module;
\* GraphCache has those of the graph.
MemSetLatest(i) ==
    /\ memPc = "work"
    /\ memPos = Len(memBatch)
    /\ i \in memTodo
    /\ \E t \in UNION {TimesOf[r] : r \in Requests} :
          /\ IsLatestIn(t, i, RowsIn(memBatch))
          /\ latest' = CachedLatest(i, t)
    /\ memTodo' = memTodo \ {i}
    /\ UNCHANGED <<memShard, memPos, store, dbShard, dbWork, database,
                   filler, faults>>

MemFinish ==
    /\ memPos = Len(memBatch)
    /\ memTodo = {}
    /\ Mem!FinishBatch
    /\ memPos' = 0
    /\ UNCHANGED <<memTodo, dbShard, memory, dbWork, database, filler, faults>>

----------------------------------------------------------------------------
(* conditionDBWriter and persistConditionBatchWithRetry.                   *)

DbLoop ==
    /\ Db!ReceiveWake \/ Db!LingerWake \/ Db!LingerTimer
    /\ UNCHANGED <<memShard, memWork, memory, dbWork, database, filler, faults>>

\* persistConditionBatch starts over on the batch: all rows, all latests.
StartAttempt(b) ==
    /\ dbTodoRows' = RowsIn(b)
    /\ dbTodo' = IsusIn(b)
    /\ dbSleep' = FALSE

DbTake ==
    /\ Db!TakeAll
    /\ StartAttempt(dbQ)
    /\ UNCHANGED <<memShard, memWork, memory, database, filler, faults>>

\* One INSERT IGNORE writes InsertChunk of the rows left, or all that is left.
\* Which rows make up a chunk is left open.
DbInsert ==
    /\ dbPc = "work" /\ ~dbSleep
    /\ \E chunk \in (SUBSET dbTodoRows) \ {{}} :
          /\ \/ Cardinality(chunk) = InsertChunk
             \/ chunk = dbTodoRows /\ Cardinality(chunk) < InsertChunk
          /\ rows' = rows \cup chunk
          /\ dbTodoRows' = dbTodoRows \ chunk
    /\ UNCHANGED <<rowLatest, dbTodo, dbSleep, dbShard, memShard, memWork,
                   memory, filler, faults>>

\* Mutant of DbUpdate: the rows need not be inserted first.
DbUpdateFirst(i) ==
    /\ dbPc = "work" /\ ~dbSleep
    /\ i \in dbTodo
    /\ \E t \in UNION {TimesOf[r] : r \in Requests} :
          /\ IsLatestIn(t, i, RowsIn(dbBatch))
          /\ rowLatest' = UpdatedRowLatest(i, t)
    /\ dbTodo' = dbTodo \ {i}
    /\ UNCHANGED <<rows, dbTodoRows, dbSleep, dbShard, memShard, memWork,
                   memory, filler, faults>>

\* The loop over latestByIsu comes after the last chunk.
DbUpdate(i) ==
    /\ dbPc = "work" /\ ~dbSleep
    /\ dbTodoRows = {}
    /\ i \in dbTodo
    /\ \E t \in UNION {TimesOf[r] : r \in Requests} :
          /\ IsLatestIn(t, i, RowsIn(dbBatch))
          /\ rowLatest' = UpdatedRowLatest(i, t)
    /\ dbTodo' = dbTodo \ {i}
    /\ UNCHANGED <<rows, dbTodoRows, dbSleep, dbShard, memShard, memWork,
                   memory, filler, faults>>

\* A statement of the attempt fails: log, then sleep conditionPersistRetryWait.
\* The failed statement is the next one, or it is the one executed last and
\* only its answer was lost.
DbFail ==
    /\ dbPc = "work" /\ ~dbSleep
    /\ failures < MaxFailures
    /\ failures' = failures + 1
    /\ dbSleep' = TRUE
    /\ UNCHANGED <<lost, crashes, dbTodoRows, dbTodo, dbShard, database,
                   memShard, memWork, memory, filler>>

\* Mutant of DbRetry: a failed batch is given up.
DbGiveUp ==
    /\ dbPc = "work" /\ dbSleep
    /\ StartAttempt(<<>>)
    /\ UNCHANGED <<dbShard, memShard, memWork, memory, database, filler, faults>>

DbRetry ==
    /\ dbPc = "work" /\ dbSleep
    /\ StartAttempt(dbBatch)
    /\ UNCHANGED <<dbShard, memShard, memWork, memory, database, filler, faults>>

\* Mutant of DbFinish: an UPDATE that failed is skipped instead of retried.
DbFinishSkipping ==
    /\ ~dbSleep /\ dbTodoRows = {}
    /\ Db!FinishBatch
    /\ UNCHANGED <<memShard, memWork, memory, dbWork, database, filler, faults>>

DbFinish ==
    /\ ~dbSleep /\ dbTodoRows = {} /\ dbTodo = {}
    /\ Db!FinishBatch
    /\ UNCHANGED <<memShard, memWork, memory, dbWork, database, filler, faults>>

----------------------------------------------------------------------------
(* buildTrendJSON and the database path of getIsuList: SELECT the rows of  *)
(* isu, then for each row look into the latest cache and fill a missing    *)
(* entry from the row.  The rows of one user's list are visited by a       *)
(* reader that stops early.                                                *)

FillSelect(f) ==
    /\ fillIsus[f] = {} /\ fillMiss[f] = {}
    /\ fillRow' = [fillRow EXCEPT ![f] = rowLatest]
    /\ fillIsus' = [fillIsus EXCEPT ![f] = Isus]
    /\ UNCHANGED <<fillMiss, memShard, dbShard, memWork, memory, dbWork,
                   database, faults>>

\* The look-up and the store are two critical sections of the cache's lock.
FillLook(f, i) ==
    /\ fillMiss[f] = {}
    /\ i \in fillIsus[f]
    /\ fillIsus' = [fillIsus EXCEPT ![f] = @ \ {i}]
    /\ fillMiss' = [fillMiss EXCEPT ![f] =
           IF latest[i] = None /\ fillRow[f][i] # None THEN {i} ELSE {}]
    /\ UNCHANGED <<fillRow, memShard, dbShard, memWork, memory, dbWork,
                   database, faults>>

FillSet(f, i) ==
    /\ i \in fillMiss[f]
    /\ latest' = CachedLatest(i, fillRow[f][i])
    /\ fillMiss' = [fillMiss EXCEPT ![f] = {}]
    /\ UNCHANGED <<fillRow, fillIsus, store, memShard, dbShard, memWork,
                   dbWork, database, faults>>

----------------------------------------------------------------------------
(* The process crashes and main starts it again: startConditionWriter makes *)
(* new shards, every cache is empty, and nothing warms them from the        *)
(* database: only POST /initialize does, after it has reset the tables.     *)

\* Both shards are new; a handler that was running is no more.
RestartShards ==
    /\ memQ' = <<>> /\ memWake' = 0 /\ memPc' = "wait" /\ memBatch' = <<>>
    /\ dbQ' = <<>> /\ dbWake' = 0 /\ dbPc' = "wait" /\ dbBatch' = <<>>
    /\ memSend' = [r \in Requests |->
                      IF memSend[r] = "new" THEN "new" ELSE "sent"]
    /\ dbSend' = memSend'
    /\ lost' = lost \cup {r \in Requests : /\ memSend[r] # "new"
                                           /\ dbSend[r] # "sent"}

Crash ==
    /\ crashes < MaxCrashes
    /\ crashes' = crashes + 1
    /\ RestartShards
    /\ memPos' = 0 /\ memTodo' = {}
    /\ dbTodoRows' = {} /\ dbTodo' = {} /\ dbSleep' = FALSE
    /\ store' = {} /\ latest' = [i \in Isus |-> None]
    /\ fillRow' = [f \in Readers |-> [i \in Isus |-> None]]
    /\ fillIsus' = [f \in Readers |-> {}]
    /\ fillMiss' = [f \in Readers |-> {}]
    /\ UNCHANGED <<database, failures>>

----------------------------------------------------------------------------
MemWriter == \/ MemLoop \/ MemTake \/ MemAppend
             \/ \E i \in Isus : MemSetLatest(i)
             \/ MemFinish

DbWriter == \/ DbLoop \/ DbTake \/ DbInsert
            \/ \E i \in Isus : DbUpdate(i)
            \/ DbRetry \/ DbFinish

Reader(f) == \/ FillSelect(f)
             \/ \E i \in Isus : FillLook(f, i) \/ FillSet(f, i)

Next == \/ \E r \in Requests : PostMem(r) \/ PostDb(r)
        \/ MemWriter
        \/ DbWriter
        \/ DbFail
        \/ \E f \in Readers : Reader(f)
        \/ Crash

Spec == Init /\ [][Next]_vars

\* A handler inside enqueueConditionMemory gets through it, and both writer
\* goroutines keep running.  Requests need not arrive, readers need not run,
\* and the database works again after MaxFailures failures.
Fairness ==
    /\ \A r \in Requests :
          WF_vars((memSend[r] = "appended" /\ PostMem(r)) \/ PostDb(r))
    /\ WF_vars(MemWriter)
    /\ WF_vars(DbWriter)

FairSpec == Spec /\ Fairness

----------------------------------------------------------------------------
TypeOK ==
    /\ Mem!TypeOK /\ Db!TypeOK
    /\ memPos \in 0..Len(memBatch) /\ memTodo \subseteq Isus
    /\ store \subseteq Isus \X Nat /\ latest \in [Isus -> Nat]
    /\ dbTodoRows \subseteq Isus \X Nat /\ dbTodo \subseteq Isus
    /\ dbSleep \in BOOLEAN
    /\ rows \subseteq Isus \X Nat /\ rowLatest \in [Isus -> Nat]
    /\ fillRow \in [Readers -> [Isus -> Nat]]
    /\ fillIsus \in [Readers -> SUBSET Isus]
    /\ fillMiss \in [Readers -> SUBSET Isus]
    /\ lost \subseteq Requests
    /\ failures \in 0..MaxFailures /\ crashes \in 0..MaxCrashes

\* Neither writer sleeps on a queue that nobody will wake it for: the wake
\* protocol of both shards survives crashes and the lingering of the database
\* writer.
NoLostWakeup == Mem!NoLostWakeup /\ Db!NoLostWakeup

\* persistConditionBatch inserts before it updates: whatever fails or crashes
\* in between, isu.latest_timestamp never names a condition that is not in
\* isu_condition.
RowLatestInserted ==
    \A i \in Isus : rowLatest[i] # None => <<i, rowLatest[i]>> \in rows

\* The virtual present of an ISU is a condition it really sent: one in memory,
\* or one in the table that a reader took it from.
LatestIsReal ==
    \A i \in Isus : latest[i] # None => <<i, latest[i]>> \in store \cup rows

\* While the memory writer is not inside a batch, the cached latest of an ISU
\* is no older than any of its conditions in memory, however late they came
\* and whichever readers filled the cache from stale rows meanwhile.
LatestCoversStore ==
    memPc # "work" => \A c \in store : c[2] <= latest[c[1]]

\* The same of the column, over failed attempts, repeated ones and statements
\* that were carried out although their answer was lost: as long as the process
\* lives, a database writer that is not inside a batch has left no ISU with a
\* latest_timestamp older than a row of it.
RowLatestCoversRows ==
    crashes = 0 /\ dbPc # "work" => \A c \in rows : c[2] <= rowLatest[c[1]]

\* GET reads memory only, so memory must not fall behind the table, although
\* each has a queue and a writer of its own: a living process whose memory
\* writer is through with its queue has every persisted condition in memory,
\* and no row names a later present than the cache.
MemoryLeads ==
    crashes = 0 /\ memQ = <<>> /\ memPc # "work" =>
        /\ rows \subseteq store
        /\ \A i \in Isus : rowLatest[i] <= latest[i]

\* setCachedIsuLatestCondition and the UPDATE both promise "only if newer":
\* the virtual present of an ISU never runs backwards, neither in memory (as
\* long as the process lives) nor in its row.
LatestNeverRegresses ==
    [][\A i \in Isus : /\ crashes' = crashes => latest'[i] >= latest[i]
                       /\ rowLatest'[i] >= rowLatest[i]]_vars

\* No handler is inside enqueue, and both shards are drained.
Quiescent ==
    /\ \A r \in Requests : memSend[r] = "new" \/ dbSend[r] = "sent"
    /\ memQ = <<>> /\ memPc # "work"
    /\ dbQ = <<>> /\ dbPc # "work"

\* The two paths run independently of one another, but as long as the process
\* lives they end at the same place: once drained, memory and table hold
\* exactly the accepted conditions, and both latests are the greatest of them.
QuiescentAgreement ==
    crashes = 0 /\ Quiescent =>
        /\ store = UNION {RowsOf(r) : r \in {x \in Requests : Accepted(x)}}
        /\ rows = store
        /\ rowLatest = latest
        /\ \A i \in Isus :
              IF \E c \in store : c[1] = i
              THEN IsLatestIn(latest[i], i, store)
              ELSE latest[i] = None

\* Every condition answered with 202 becomes visible to GET and reaches the
\* table, as long as the process lives and the database recovers.
AcceptedIsServed ==
    \A r \in Requests :
        (Accepted(r) /\ crashes = 0)
            ~> (RowsOf(r) \subseteq store /\ RowsOf(r) \subseteq rows)
                  \/ crashes > 0

\* docs/manual.md requires that data written under load can be read again
\* after the servers were restarted: once the writers are drained, what the
\* table holds is what GET /api/condition can return.
WrittenIsReadable == Quiescent => rows \subseteq store
=============================================================================
