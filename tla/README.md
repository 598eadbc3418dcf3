# ISUCONDITION: a TLA+ model of the condition service

The program is `webapp/go`: an HTTP service that registers devices ("ISU"),
accepts their conditions and shows them as lists, graphs and a trend. It was
rewritten for speed. A POST is answered before anything is stored, all reads are
served from memory, MySQL is written behind, and every response that can be
cached is. What makes it correct is therefore not in any single handler but in
the order in which goroutines touch queues, caches and locks; the repository has
no tests for that. This directory models those parts, checks them with TLC on
small instances and proves the central invariants with TLAPS for all instances.

## 1. Inventory

| Component | State | Operations | Modelled in |
|---|---|---|---|
| Shard queues (`handler_condition.go` 127-208) | 128 + 128 slices under a mutex, a wake channel of capacity 1 each, one consumer goroutine each | `enqueue`, `takeAll`, `waitConditionBatch`, the loops of `conditionMemWriter` and `conditionDBWriter` | `ConditionShard`, `ShardFifo`, `Mailbox` |
| Condition pipeline (`handler_condition.go` 210-344, `condition_store.go`, part of `cache.go`) | `conditionStore`, `isuLatestConditionCache`, tables `isu_condition` and `isu` | `enqueueConditionMemory`, `applyConditionMemoryBatch`, `persistConditionBatch` and its retry, fills of the latest cache, crash and restart | `ConditionPipeline` |
| Graph cache (`handler_graph.go`, part of `cache.go`) | per ISU and day: cached slots, `sealedThrough`, JSON, an RWMutex; per ISU the open-hour entry | `getIsuGraph`, `sealGraphHoursInRange`, `getOrGenerateOpenHourGraph`, `invalidateOpenHourGraphCache` | `GraphCache` |
| Registration (`postIsu`, the existence check of `postIsuCondition`) | row of `isu`, `isuExistenceCache`, `isuOwnerCache`, `isuActivateInFlight` | check, marker, activation at JIA, INSERT, cache fills | `Registration` |
| Trend cache (`handler_trend.go`) | body, expiry, stale limit, error, `refreshing`, `done` | `getTrendJSON`, `startTrendCacheRefresh`, `refreshTrendCache`, `resetTrendSchedule` | `TrendCache` |
| Condition queries (`condition_store.go`) | a slice of conditions per ISU, ascending, under an RWMutex | `appendIsuConditions`, `getIsuConditionsFromMem` | `ConditionStore` |
| ISU list, details, icons (`getIsuList`, `getIsuID`, `getIsuIcon`, the last part of `postIsu`, `cache.go` 53-260, 373-396) | owner, metadata, icon and latest condition per ISU; order of the list and list JSON per user | list, details, icon, prepend, invalidate | `IsuCatalog` |
| Front end (`webapp/frontend`) | React state; the hook of the condition page keeps the pages turned | search, next, prev, fetch | `Paging`; other views are not modelled |
| `POST /initialize` | all of the above | reset tables, clear, warm | at rest in `IsuCatalog`, against readers in `TrendCache`; its result is the initial state of `GraphCache` and `ConditionStore` |
| Sessions, authentication | the signing key | sign, verify | not modelled: pure |
| Start-up, routing, schema, provisioning | - | - | not modelled, apart from the restart |

How they interact: the handler of a condition POST checks existence, appends to a
memory shard, then to a database shard, and answers 202. The two consumers never
talk to each other. The memory consumer appends to `conditionStore`, seals graph
hours, moves the virtual present (`isuLatestConditionCache`) on, and drops the
list JSON and the open-hour entry. GET handlers read the store and the caches,
seal graph hours themselves, and (list, trend) fill the latest cache from MySQL.

What is hard, by kind; PROJECT.json lists each hazard at its line:

* concurrency: tokens dropped on a full channel; queues swapped out whole; values
  read under one lock and used under another; caches filled from a SELECT that is
  out of date by the time it is stored; two goroutines sealing the same hour;
* ordering: conditions that arrive late; memory and database progressing
  independently; the order "append, seal, move the present, invalidate";
* failure: a batch persisted by several statements without a transaction and
  retried as a whole; a JIA answer lost after the activation took effect; a crash
  anywhere;
* time: TTLs of the trend, the hour and the day that are still open.

What correctness means, per component: a shard is a FIFO mailbox that never
sleeps on work; the pipeline ends with memory = table = what was accepted, and
latests never regress; the store holds, in order, what came first for each
timestamp, and pages of it tile the history; a graph shows everything GET
condition showed before, and sealed slots are final; a user's list and details
show all of that user's rows and nothing else, whichever cache answers; no ISU is activated by two calls at once and caches never
claim what the table does not hold; the trend is rebuilt by one goroutine at a
time, never goes back and hangs nobody.

## 2. Modules

**ConditionShard** is one `conditionMemShard`. `EnqueueAppend` and `EnqueueWake` are
the two halves of `enqueue`, the second outside the lock; `wake` counts the
tokens in the channel. `ReceiveWake`, `LingerWake`, `LingerTimer`, `TakeAll` and
`FinishBatch` are the consumer; `BatchWait` says whether it lingers (the database
writer does). **ShardFifo** adds history variables that record arrivals and what
has been handled, and shows that a shard implements **Mailbox**, the abstract
specification: what is handled is always a prefix of what arrived, and under
fairness it catches up.

**ConditionPipeline** instantiates ConditionShard twice (`Mem`, `Db`) for one
shard index with several ISUs. Requests of other indexes share no queue and no
ISU with it. A condition is `<<isu, timestamp>>`. `MemAppend` and `MemSetLatest`
are the loops of `applyConditionMemoryBatch`; `DbInsert` writes one chunk of
`INSERT IGNORE`, `DbUpdate` one conditional UPDATE, `DbFail` and `DbRetry` a failing
statement and the repetition of the whole batch; the failed statement may have
taken effect. `FillSelect`, `FillLook`, `FillSet` are what `buildTrendJSON` and
`getIsuList` do to the latest cache: select, look, store, with nothing held in
between. `Crash` loses everything but the tables and does what `main` does.
**MCConditionPipeline** gives requests their ISU and timestamps.

**GraphCache** is one ISU. A slot is represented by the timestamps it was made
from, for score and percentages are functions of those conditions. Every critical
section of a cache mutex is one step; the per-day RWMutex is held across several
steps and is modelled with its waiting writers, which keep later readers out as
in Go's `sync.RWMutex`. The writer's steps are `Append`, `Compare`, `AskSealLock`,
`SealDay`, `SetLatest` or `DropLate`, `Invalidate`; a GET runs `Get`, `ReadNow`,
then `ReadEntry` (read lock) or `AskLock`, `LockDay` (which reads the entry again, and
seals only what is still open), `MakeHour`, `PutDay` (write lock),
then the open hour by `ReadLatest`, `LookOpen`, `MakeOpen`, `PutOpen`, and `LookAgain`.
A GET without a virtual present seals the whole day (`lockAll`, `sealAll`). `FillLook`,
`FillSet` and `FillInvalidate` are a trend or list request that finds no present and sets
the one of the row (`RowLatest`), which its own writer may have brought further than
memory; all such requests are one goroutine, for the second finds a present.

**ConditionStore** is one `isuConditionMem`. `Post` takes the lock for the conditions
of a POST, `InsertNext` is one turn of the loop in `appendIsuConditions`; `Search` is
`sort.Search`, `Page` is `getIsuConditionsFromMem`: `End` is its binary search, `Places`
what its loop comes by before it breaks, `Taken` the k-th of them on the way down. (Not
a filtered sequence, because what a recursive operator returns cannot be proved.) A
condition is its timestamp and the warnings that are true.
`posted` is history. **Paging** EXTENDS it with the condition page of the front end,
the client these queries are written for: `SearchFor`, `TurnNext` and `TurnPrev` are
clicks, each starts a request except `TurnPrev`, and `Serve`, `Receive` and `Fail` are the
fates of a request. An answer is shown whatever the query is by then, as in
`usePagingCondition`; the overlay (`loading`) covers Prev and Next but not the search
form. **MCPaging** gives seed, POSTs and queries.

**IsuCatalog** has the rows of table `isu` and the caches in front of them. A client is
served by one handler at a time; the handlers share steps (`SetOwner`, `SetRecord`)
because the code shares the setters. `Insert` to `Prepend` is the end of `postIsu`;
`GetList` answers from the JSON, else `ReadOrder`, `ReadRecord`, `BuildItem`, `SetJSON`
go through the cached order, else `SelectList`, then per row `SetOwner`, `SetRecord`,
`LookLatest`, `FillLatest`, `FillDrop`, `ReadBack`, `BuildItem`, then `SetOrder` and
`SetJSON`. `GetIsu` is one of the three handlers of a single ISU; `StartFill` and
`FillIcon` are the goroutine that puts an icon. The memory writer is `WriteLatest`,
`LookUpOwner`, `DropJSON`. `Restart` keeps the rows only, `Initialize` resets everything.
The existence cache, the marker and JIA are in Registration. A row of a list is
`[isu, id, at]`: names follow from the id. The `latest_*` columns are whatever the
database writer may have got to when a SELECT reads them.

**Registration** is one `jia_isu_uuid`. Registrars (users calling `postIsu`) and
posters (`postIsuCondition`) share the existence check `Check`, `Ask`, `Fill`;
posters end with 202, 400 or 404, registrars go on with `Claim` (LoadOrStore), `Activate`, `Insert`, `CacheExistence`,
`CacheOwner`, `Created`, or leave by `Fail` and `Release`. JIA and MySQL may carry a
request out and fail to say so. `Restart` keeps the row only.

**TrendCache** is the shared trend body. A body is represented by the version of
the data its SELECT saw; `age` is where `now` stands relative to `expiresAt` and
`staleUntil` (`TimePasses`). Each rebuild has its own `done` channel, closed by
`Store`. `Initialize` and `ResetTrendSchedule` are the first and last step of
`POST /initialize`. `newest` (the newest version any GET was answered with) and `since`
(what it was when a GET began) are history.

Operators described as "Mutant of X" are plausible wrong versions of X; no
specification uses them. PROJECT.json names, for each property, the mutant that
violates it.

## 3. Runs

All bounds are constants and are named as such in the modules.

| Run | Instance | Shows |
|---|---|---|
| `ShardFifo` | 4 requests, lingering consumer | no lost wake-up, conservation, refinement of `Mailbox` with liveness |
| `Pipeline` | 1 ISU, 2 requests (timestamps {1,3} and {2}), chunk of 2, 1 reader, 1 failure, 1 crash, fairness | latests, rows and agreement under faults; memory covers the table; what is answered 202 is served and persisted in the end unless the process crashes |
| `PipelineRestart` | as above, 1 crash | violation: rows are unreadable after a restart |
| `Graph` | 2 GETs, 3 days of 2 hours of 2 ticks, 1 condition warmed, 3 arrive in any order, one at a time | sealed slots never change; without late conditions they are exact; complete, consistent graphs of past, present and future days |
| `GraphLive` | 2 GETs, 1 day of 2 hours of 1 tick, no seed, a condition of the second hour arrives, the row may name the first, fairness | nobody waits for ever on a day lock |
| `GraphNewIsu` | 1 GET, no seed | violation: the day of a new ISU is sealed empty |
| `Register` | 2 users, 1 poster, 2 calls each, 1 restart, fairness | marker, caches and answers; a 409 has its cause; the marker is released |
| `RegisterForgotten` | 1 user, 1 poster | violation: a registered ISU is forgotten by the existence cache |
| `Trend` | 2 clients, 2 GETs each, 2 versions, 1 initialize, fairness | one rebuild, no going back, no answer older than one given before, every GET answered |
| `Catalog` | 2 clients of one user or of two, 3 requests in all, 3 ISUs (one seeded), 2 conditions of one of the others, 1 restart or initialize | lists, details and icons agree with the rows |
| `CatalogRestart` | 1 client, 2 requests, 1 restart | violation: a registration after a restart hides the user's older ISUs |
| `Paging` | page of 2, 4 conditions stored, 2 POSTs of 2 that insert between, repeat a timestamp and append, 1 other query, 7 clicks, 2 requests under way at once | the store keeps its order and its first conditions; answers are the newest that match; pages tile the history |

Why the bounds suffice for the cases that matter:

* `Pipeline`: two requests of one ISU with interleaved timestamps give every relation
  of late, early and in-between, and batches of one and of two requests; a chunk of
  two splits three conditions; one failure can hit every statement of either attempt
  and one crash every step. Batches of several ISUs are only in the proofs (any
  number of ISUs), not in the run: an UPDATE is per ISU and ISUs share only the queue.
* `Graph`: the warmed condition lies in the first hour of the middle day, the others in
  the second hour and in the day after. That gives an open and a sealed hour, a
  change of the hour and of the day, a late condition into a sealed hour (6 after 8,
  5 after 6), an empty day before and a GET for each of them; two GETs and the writer
  give two readers and one writer, or two writers, of a day lock.
* `GraphLive`: the filler gives the ISU the present of a row (as after a restart), so that
  one condition is enough for the writer to seal an hour while one GET reads the day and
  another waits to write it; without the filler the GETs seal the whole day.
* `Register`: two registrars and a poster are the three parties of every race around
  the marker and the existence cache; the second call gives each of them a retry
  after any outcome.
* `Catalog`: three requests are enough for one to fill a cache, one to change what it
  was filled from, and one to read it, in two handlers at a time; seeded and newly
  registered ISUs, one and two users, and an ISU that changes hands through an
  initialize. JSON, order, and SELECT are all reached as the source of a list.
* `Paging`: seven clicks reach a third page, return to the first, turn again to what has
  changed meanwhile and return once more, or search in between; two requests under way
  are enough to overtake one another; the POSTs bring a condition into a page already shown, one into a
  page still to come, one above all and one that is there already; levels and both
  ends of the interval cut the stored conditions. Requests may fail and overtake.

Deadlock is not checked where the number of calls is bounded and the system simply
ends (`ShardFifo`, the pipeline, `Register`, `Trend`, `Catalog`, `Paging`), and is checked
in the `Graph` runs, where GETs repeat for ever.

### What the properties leave out

Some properties hold only apart from situations in which the code does something
else. Each is a history variable, so that it is visible what is left out, and TLC
finds a violation as soon as it is dropped.

* `SealedIsExact` and the sealed part of `ResponseComplete` ask for conditions in order
  (`InOrder`): a condition that comes after its hour was sealed stays out of the graph.
* `crossed` in `IsuCatalog`: which requests of the *same* user have met. When a list has
  met a registration or a GET condition (not `Calm`), (a) a JSON rendered before the
  registration may be stored after `prependIsuListOrder` dropped it; (b) the order
  selected before may be set over the prepended one, or the prepended ISU be there
  twice; (c) metadata with a name only may replace the record just set, and
  `handler_isu.go` 78 reads an item of id 0 back. When two registrations have met (not
  `InTurn`), the one with the lower id may be prepended last, and the list is not in
  the order of `ORDER BY id DESC` until the order is dropped; nothing is missing or
  listed twice. A user who sends these requests one after the other never sees that.
* `forgotten` in `IsuCatalog`: what was registered before a restart (see the violation
  `CatalogRestart`).
* `over` in a JSON: the handler that rendered it was itself overtaken by a newer latest
  condition; the next one drops the JSON.
* `hasty`, `failed`, `returned` in `Paging`: a search that meets a request under way (its
  answer may come last and is shown under the new query); a failed request (the page
  number is already turned and the overlay stays); and going back to an *outdated* page,
  one that is kept otherwise than it was shown last (`outdated`). The last is a plain
  defect of the hook, in two ways. `search` keeps the conditions shown *before* it as
  page 1 of the new query, so search, Next, Prev shows the results of the query before.
  And Next does not replace a page that is kept (`paging.ts` 45), so when a page is
  fetched again after going back, with conditions that have come meanwhile, Prev shows
  its first version: next, next, prev, prev, next, next, prev ends on a page that does
  not continue the one before it. Both are listed as a hazard (`paging.ts` 36).

### Fairness

* Shards and pipeline: the Go scheduler runs a goroutine that can run, so a handler
  inside `enqueue` finishes and both consumers go on. Requests need not arrive,
  readers need not run. The database works again after `MaxFailures` failures; the
  code itself retries without limit, so a fault that never ends blocks its shard.
* Graph: weak fairness of writer and GETs, and strong fairness of taking a day
  lock, because `sync.RWMutex` hands the lock to its waiters in turn; weak fairness of
  a fill that has found no present. Neither POST nor GET nor fill has to begin.
* Registration: weak fairness of a started handler. MySQL and JIA answer or the
  connection breaks. `jiaHTTPClient` has no timeout, so this is an assumption about
  JIA; it is listed as a hazard.
* Trend: weak fairness of a started GET and of a started rebuild, for the same
  reason. Time need not pass and the data need not change.

### What the violations mean

Each is a disagreement between the code and a document or comment, quoted in
PROJECT.json under "findings":

1. `docs/manual.md` wants data to survive a restart; rows do, but `main` warms no
   cache and GET reads memory only (`PipelineRestart`).
2. `docs/manual.md` wants what GET condition shows to appear in GET graph within a
   second. A graph requested before the first condition seals its day empty, and
   breaks this for ever (`GraphNewIsu`). Once conditions are in memory and as long as
   they arrive in order, it holds (`Graph`).
3. The existence cache is said to reject a second registration after success. A
   SELECT that is older than the INSERT it races with overwrites the entry
   afterwards (`RegisterForgotten`).
4. `docs/manual.md` wants what was written to be readable after a restart. A
   registration that finds no list order makes one of the new ISU alone, and
   `getIsuList` takes an order for complete (`CatalogRestart`).

Some more were seen in the models and are hazards without a run of their own: the
outdated pages described above; a present that a trend or list request has taken from a
row ahead of memory, for which a GET graph seals past hours from an empty memory, so
that their conditions never appear although they come in order (`FillSet` of
`GraphCache`; it needs a memory writer that is slower than an INSERT and an UPDATE); two registrations of a user that meet, after which the
list may not be in the order that the comment of `prependIsuListOrder` (`cache.go` 154)
promises; a registration that passed the check before another one's
INSERT and takes the marker after its Delete sends an activate for a registered ISU,
which the INSERT then refuses (`AnswersJustified`); a GET trend whose rebuild is
emptied by an initialize before the second look returns neither body nor error.

## 4. Proofs

The proofs hold for every value of the constants that satisfies the named
assumptions (`ShardAssumption`, `PipelineAssumption`, `RegistrationAssumption`,
`TrendAssumption`, `StoreAssumption`, `PagingAssumption`, `GraphAssumption`,
`CatalogAssumption`): any number of requests, ISUs, users, clients, failures, crashes, conditions, clicks, days and GETs.

* **Shard** (`ShardProofs`). `TypeOK` is inductive. `NoLostWakeup` is inductive together
  with it: a non-empty queue has a token, a handler that is about to send one, or a
  consumer that will look again without a token.
* **FIFO** (`FifoProofs`). `Conservation` needs only what each action does to the three
  sequences. The refinement maps `EnqueueAppend` to `Arrive` (for which the invariant
  also says that everything that arrived belongs to a handler past its append),
  `FinishBatch` to `Handle` (because by `Conservation` the batch continues what was
  handled), everything else to a stutter. It covers the safety part of `Mailbox`.
* **Pipeline** (`PipelineProofs`). Shard lemmas are reused through the instances `Mem` and
  `Db`; a crash is the only step they do not cover. `RowLatestInserted` needs that the
  rows of a batch still to be inserted, with those already in the table, are all rows
  of the batch. `LatestIsReal` and `LatestCoversStore` need that the store holds the
  first `memPos` requests of the batch, that readers hold timestamps of inserted
  rows, and that an ISU of the batch is still to be visited or its latest covers the
  batch. `LatestNeverRegresses` follows from types and from the comparison in the
  cache and in the UPDATE. `QuiescentAgreement` needs an invariant that follows every
  condition through both queues while the process lives (`AgreeInv`): what has entered a
  shard is in its store, queue or batch, and nothing else is (`MemKept`, `DbKept`), where
  a batch under way keeps its conditions however often it is retried; what has entered
  the database shard entered the memory shard first (`MemFirst`); a row newer than its
  ISU's latest is of a batch whose UPDATE of that ISU is still to come
  (`RowLatestCovers`, `NothingUpdatedEarly`). When everything rests, queues and batches
  are empty and the two sides are left with the same set. The same invariant gives
  `RowLatestCoversRows` (outside a batch no UPDATE is still to come) and, with `MemFirst`,
  `MemoryLeads`; the second also needs that a row's latest names an inserted condition.
* **Registration** (`RegistrationProofs`). The invariant `Inv` adds to the properties
  `Progress`: what a handler may rely on at each place (a SELECT that saw the row is
  right for ever, past the INSERT the row is the caller's, the caller of an INSERT has
  been activated). The properties alone are not inductive: `CacheOwner` keeps
  `CachesFollowRow` only because the caller owns the row. `ConflictIsReal` is about the
  three steps that answer 409: a positive belief and a refused INSERT mean a row, a
  refused claim means a marker, and by `MarkerHeld` a marker has its call.
* **Trend** (`TrendProofs`). `TrendInv` joins `TypeOK`, `OneRefresh`, `WaitsForARebuild`, that
  there is a channel while the flag is up, and `Recent`, which has three parts. `Built`:
  what a rebuild has read is at least as new as everything stored before, and the body
  is the newest stored. `Answered`: `newest` and every `since` have been stored. `Since`: a
  stale body that a GET keeps, the result of a rebuild of its own and what it was
  answered with are no older than its `since`. A rebuild that begins after a GET reads
  at least what is stored by then; one that is under way has the flag, so that nothing
  was stored after it had read: `OneRefresh` is what makes `Recent` inductive.
  `TrendNeverGoesBack` follows from `Built`, `NeverOlderThanAnswered` from `Since`.
* **Store and paging** (`PagingProofs`). `Search` returns the one place where the order
  allows an insertion (`SearchIsPlace`, by the least natural number); inserting there
  keeps the slice ascending and adds exactly the condition, unless the timestamp is
  taken (`InsertedProperties`); what is accepted grows by the same (`AcceptedAppend`).
  `StoreInv` is `StoreTypeOK`, `StoreIsAscending` and `StoreHoldsFirst`: the last needs the
  second, for a binary search over an unsorted slice may miss the timestamp. `Paging`
  is shown to leave the store to `StoreSpec` (`PagingUsesStore`). `OneAtATime` is proved
  from `CoveredInv`: a request under way means `loading`, apart from hasty searches.
  `AnswersAreNewest` rests on `PageIsNewest`: the loop's k-th place exists and descends
  with k (`TakenInTurn`: the number of places above is a bijection, by the pigeonhole
  principle), the places are those of the matching conditions (`PlacesAreMatching`,
  which is where the ascending order justifies the break), hence as many as match.
  `PagesTile` is not inductive: `TileInv` also says that a request under way
  continues the pages turned (`Continues`: it asks for what is older than a full last
  page, and when served knew all that the first page could find), that earlier pages
  are full (`Tiled`), and that a page is kept as it was shown unless it is outdated.
  `TiledFirst`, `TiledAppend` and `TiledPrev` are what an answer to a search, an answer to
  Next and going back do to such pages; a condition that is not on a page is older than
  its last because the page is full (`NewestFull`, by counting).
* **Graph** (`GraphProofs`). `TypeOK` holds for every ISU; it needs `Progress` (a batch under
  way is not empty, a GET that seals has read a present and stays within its day). The
  other four theorems are about a warmed ISU (`Seed # {}`): without a present the first
  GET seals its whole day blindly, which is the violation `GraphNewIsu`, and one may be
  filled from a row ahead of memory; with a present there is nothing to fill
  (`NothingToFill`). The inductive
  invariant `GraphInv` has three more parts. `SealInv`: who seals holds the day's lock, so
  that the entry it started from is the current one; from this `SealedNeverChanges`
  follows. `PastInv`: what is sealed or open has been *reached* by a condition in memory,
  hence a condition that comes on time is newer and belongs to no sealed hour, and
  whatever a batch finished with is not newer than the present. `ShownInv`: the conditions
  on time are in every sealed slot, in every open-hour entry up to its `through`, and in
  a response as far as it has been made; `SealedIsExact`, `ResponseComplete` and
  `ResponseIsSnapshot` are consequences. The calendar (`DivFacts` to `TicksOfFacts`) and
  `RemadeFacts` are the lemmas it rests on.
* **Catalog** (`CatalogProofs`). `TypeInv` adds to `TypeOK` where a handler may be for its
  kind of request and that a list in work has a row left (`Place`), which `Head` and
  `Tail` need. `OnlyOwnIsus` and `DetailIsWhole` are not inductive: `OwnInv` says of every
  entry of the metadata, icon, order and JSON caches and of every icon still to be
  stored that it is the named user's own row, that an id in the metadata is the row's
  or missing, and of every handler that what it works on or shows is its user's and
  that past its SELECT it serves the owner. Between two initializes a row stays and
  keeps its id (`Stays`, from `InsertFacts`); POST /initialize takes rows away, but
  caches are reset with them and no handler is under way. That `ORDER BY id DESC` has
  an answer at all (`DescendingFacts`) is by the least counterexample.
  `JSONIsFresh` needs `FreshInv`: the owner of every ISU in a list, rendered or being
  rendered, is cached as its user (so that the writer finds the list), and its items
  carry the latest conditions unless the handler is marked as overtaken or somebody is
  about to drop the JSON. `ListShowsRegistered` and `ListFollowsRows` need `FollowInv`:
  the order of a calm user has every ISU that is due, in the order of the rows
  (`OrderFollows`); what a list has done and what it has still to do make up what it
  must show (`Split`), from whichever source it was started; the ISU that is being
  registered belongs in front of the order (`RegisterFollows`); and requests that
  disturb one another are on record (`MetInv`). `Split` is moved along one item at a
  time (`SplitMove`) and a registration prepends to it (`PrependFacts`).

Every invariant of a passing run is proved. The inductive invariants were themselves
checked by TLC on the instances of the runs before they were proved.

Only model-checked: liveness (`AcceptedIsServed`, `EverythingFinishes`, `MarkerReleased`,
`GetAnswered` and the liveness part of `ImplementsMailbox`), because fairness and ENABLED
are out of the prover's reach.

## 5. Not modelled, and why

* The single steps of `POST /initialize` against handlers and writers under way. The
  code has no protection there (a writer that holds a batch of the old data writes it
  into the new tables), the benchmark sends nothing else meanwhile, and there is no
  promise to state. `IsuCatalog` therefore lets it run only at rest; `TrendCache` has
  its first and last step race with rebuilds and readers, because the trend is rebuilt
  in the background.
* Parsing, formats, JSON, images, scores, names: data that no checked property depends
  on; `isValidConditionFormat` is a pure function of a string.
* What `buildTrendJSON` groups and sorts, the TTL schedule of the trend and the
  parallel warm-up of the graphs: the trend is a version, the warm-up an initial state.
* Sessions and authentication (a signed cookie and a pure check), the JIA URL (one
  variable; it is lost in a restart, listed as a hazard), routing, the database pool,
  schema, provisioning, the other views of the front end: no protocol of their own.
* A reader's own response is not modelled in the pipeline (only what it does to the
  latest cache), nor is MySQL beyond atomic statements.

## 6. Plan

Done: shards, pipeline, graph, registration, trend, catalog, store and paging, and the
proofs above. What could follow: an abstract specification of the pipeline (a set of
accepted conditions that become visible) that it implements.
