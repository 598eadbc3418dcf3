----------------------------- MODULE IsuCatalog -----------------------------
(***************************************************************************)
(* The ISUs of the users as the web application shows them: the rows of    *)
(* table isu and the caches in front of it, which hold the owner, the      *)
(* metadata, the icon and the latest condition of an ISU and, per user,    *)
(* the order of the list and the list rendered as JSON.  Handlers of       *)
(* POST /api/isu (from its INSERT on), GET /api/isu, /api/isu/:id, its     *)
(* icon and its conditions run concurrently with the memory writer, which  *)
(* sets the latest condition and drops the JSON of the owner's list.       *)
(*                                                                         *)
(* An action is one critical section of one cache, one SQL statement, or   *)
(* one answer.  A row of the list is [isu, id, at]: name and character     *)
(* come with the id, and at stands for the latest condition.               *)
(***************************************************************************)
EXTENDS Integers, Sequences, SequencesExt

CONSTANTS Users, Isus, Clients,
          Seed,            \* rows of table isu after POST /initialize
          Accounts,        \* who the clients may be signed in as
          MaxRequests,     \* bound: requests of all clients together
          Conditions,      \* bound: conditions [isu, at] that may be posted
          MaxResets        \* bound: restarts and initializes together

ASSUME CatalogAssumption ==
    /\ Seed \in Seq([isu : Isus, user : Users])
    /\ \A m, n \in DOMAIN Seed : Seed[m].isu = Seed[n].isu => m = n
    /\ Accounts \subseteq [Clients -> Users] /\ MaxRequests \in Nat
    /\ Conditions \subseteq [isu : Isus, at : Nat \ {0}]
    /\ MaxResets \in Nat
    /\ "nobody" \notin Users

Nobody == "nobody"   \* no owner, no icon, no metadata
NoIsu == "no isu"
Never == 0           \* no latest condition
Partial == 0         \* the id of metadata that hold a name only

Ops == {"register", "list", "detail", "icon", "conditions"}

VARIABLES
    account,   \* the user a client is signed in as
    rows,      \* table isu, in the order of id
    owner,     \* isuOwnerCache
    record,    \* isuMetadataCache: [user, id]
    icon,      \* isuIconCache: the user of the entry
    latest,    \* isuLatestConditionCache
    order,     \* isuListByUser.order: a set of at most one sequence
    listJSON,  \* isuListByUser.listJSON: a set of at most one body
    fills,     \* goroutines of setCachedIsuIconAsync
    writer,    \* the memory writer after it has set a latest condition
    req,       \* per client the handler that serves it
    acked,     \* history: ISUs whose registration was answered
    forgotten, \* history: ISUs that were registered before the last restart
    crossed,   \* history: <<user, ops>>: which requests of a user have met
    requests, resets   \* how many so far

caches == <<owner, record, icon, latest, order, listJSON>>
history == <<acked, forgotten, crossed>>
bounds == <<requests, resets>>
vars == <<account, rows, caches, fills, writer, req, history, bounds>>

----------------------------------------------------------------------------
\* AUTO_INCREMENT: the id of an ISU is its place among the rows.
IdIn(table, i) == SelectInSeq(table, LAMBDA r : r.isu = i)
Id(i) == IdIn(rows, i)
Registered == {r.isu : r \in Range(rows)}
Owns(u, i) == [isu |-> i, user |-> u] \in Range(rows)

\* WHERE jia_user_id = ? ORDER BY id DESC: the ids of the rows of a user.
Ids(table, u) == {n \in DOMAIN table : table[n].user = u}
Descending(S) == CHOOSE s \in [1..Cardinality(S) -> S] :
                     \A m, n \in DOMAIN s : m < n => s[m] > s[n]

\* SELECT of these rows.  The latest_* columns are moved on by the database
\* writer at its own pace: saved is what it got to.
ListOf(u, saved) ==
    LET ids == Descending(Ids(rows, u))
    IN  [n \in DOMAIN ids |-> [isu |-> rows[ids[n]].isu, id |-> ids[n],
                              at |-> saved[rows[ids[n]].isu]]]

IsusOf(items) == [n \in DOMAIN items |-> items[n].isu]

NoRecord == [user |-> Nobody, id |-> Partial]
Idle == [op |-> "none", pc |-> "idle", isu |-> NoIsu, todo |-> <<>>,
         items |-> <<>>, over |-> FALSE, due |-> {}]
AtRest == [pc |-> "idle", isu |-> NoIsu, user |-> Nobody]

NoCaches ==
    /\ owner' = [i \in Isus |-> Nobody] /\ record' = [i \in Isus |-> NoRecord]
    /\ icon' = [i \in Isus |-> Nobody] /\ latest' = [i \in Isus |-> Never]
    /\ order' = [u \in Users |-> {}] /\ listJSON' = [u \in Users |-> {}]

\* The tables and caches that POST /initialize leaves behind: init.sh, then
\* warmIsuLatestTimestamps and warmIsuMetadataCache.
SeedIsus == {r.isu : r \in Range(Seed)}
SeedUser(i) == IF i \in SeedIsus
               THEN (CHOOSE r \in Range(Seed) : r.isu = i).user ELSE Nobody
SeedLatest == [i \in Isus |-> IF i \in SeedIsus THEN 1 ELSE Never]
\* What the database writer may have got to.
Times(i) == {SeedLatest[i]} \cup {x.at : x \in {y \in Conditions : y.isu = i}}
Saved == {f \in [Isus -> UNION {Times(i) : i \in Isus}] :
             \A i \in Isus : f[i] \in Times(i) /\ SeedLatest[i] <= f[i]}
SeedRecord == [i \in Isus |-> [user |-> SeedUser(i), id |-> IdIn(Seed, i)]]
SeedOrder == [u \in Users |->
    LET ids == Descending(Ids(Seed, u))
    IN  IF ids = <<>> THEN {} ELSE {[n \in DOMAIN ids |-> Seed[ids[n]].isu]}]

Init ==
    /\ account \in Accounts
    /\ rows = Seed
    /\ owner = [i \in Isus |-> SeedUser(i)] /\ record = SeedRecord
    /\ icon = [i \in Isus |-> Nobody] /\ latest = SeedLatest
    /\ order = SeedOrder /\ listJSON = [u \in Users |-> {}]
    /\ fills = {} /\ writer = AtRest
    /\ req = [c \in Clients |-> Idle]
    /\ acked = SeedIsus /\ forgotten = {} /\ crossed = {}
    /\ requests = 0 /\ resets = 0

----------------------------------------------------------------------------
(* Steps of the handlers.                                                  *)

Serving(c, op, pc) == req[c].op = op /\ req[c].pc = pc
With(handler, changes) ==
    [f \in DOMAIN handler |->
        IF f \in DOMAIN changes THEN changes[f] ELSE handler[f]]
Step(c, changes) == req' = [req EXCEPT ![c] = With(@, changes)]
To(pc) == [pc |-> pc]
Reply(items) == [pc |-> "done", items |-> items]

Me(c) == account[c]
\* The ISU the handler is about to cache something of.
Subject(c) == IF req[c].op = "list" THEN Head(req[c].todo).isu ELSE req[c].isu
\* Its data in the answer; only a list shows the latest condition.
Plain(i, id) == [isu |-> i, id |-> id, at |-> Never]

\* A list is disturbed by a registration and by a condition handler of the
\* same user that is served at the same time, a registration by another one.
Disturbing == {{"list", "register"}, {"list", "conditions"}, {"register"}}
\* What a request of client c meets when it arrives.
Met(c, op) == {<<Me(c), {op, req[d].op}>> :
                  d \in {x \in Clients \ {c} : /\ Me(x) = Me(c)
                                               /\ {op, req[x].op} \in Disturbing}}

\* A request of client c arrives.
Arrive(c, op, i, changes) ==
    /\ req[c].pc = "idle" /\ requests < MaxRequests
    /\ requests' = requests + 1
    /\ Step(c, With([Idle EXCEPT !.op = op, !.isu = i,
                                 !.due = {j \in acked : Owns(Me(c), j)}],
                    changes))
    /\ crossed' = crossed \cup Met(c, op)
    /\ UNCHANGED <<account, fills, writer, acked, forgotten, resets>>

\* Mutant of Insert: jia_isu_uuid is not UNIQUE.
InsertAgain(c, i) ==
    /\ rows' = Append(rows, [isu |-> i, user |-> Me(c)])
    /\ Arrive(c, "register", i, To("owner"))
    /\ UNCHANGED caches

\* postIsu: the INSERT, after JIA has accepted the activation.
Insert(c, i) ==
    /\ i \notin Registered
    /\ rows' = Append(rows, [isu |-> i, user |-> Me(c)])
    /\ Arrive(c, "register", i, To("owner"))
    /\ UNCHANGED caches

\* getIsuList: an existing JSON is the answer.
GetList(c) ==
    /\ \/ \E body \in listJSON[Me(c)] :
              Arrive(c, "list", NoIsu, Reply(body.items))
       \/ /\ listJSON[Me(c)] = {}
          /\ Arrive(c, "list", NoIsu, To("order"))
    /\ UNCHANGED <<rows, caches>>

\* Mutants of RecordOf: the user is not compared; partial metadata will do.
RecordOfAnyone(u, i) == {r \in {record[i]} : r.id # Partial}
RecordInPart(u, i) == {r \in {record[i]} : r.user = u}

\* getCachedIsuRecord: partial metadata do not count.
RecordOf(u, i) == {r \in {record[i]} : r.user = u /\ r.id # Partial}

\* getIsuID and getIsuIcon are answered from their cache, getIsuConditions can
\* use partial metadata, too.
Cached(u, op, i) ==
    CASE op = "detail" -> RecordOf(u, i) # {}
      [] op = "icon" -> icon[i] = u
      [] op = "conditions" -> record[i].user = u

GetIsu(c, op, i) ==
    /\ op \in {"detail", "icon", "conditions"}
    /\ Arrive(c, op, i,
              IF Cached(Me(c), op, i) THEN Reply(<<Plain(i, record[i].id)>>)
                                      ELSE To("select"))
    /\ UNCHANGED <<rows, caches>>

\* Their SELECT of one row, or 404.
SelectRow(c) ==
    /\ req[c].op # "list" /\ req[c].pc = "select"
    /\ Step(c, IF Owns(Me(c), req[c].isu) THEN To("owner") ELSE Reply(<<>>))
    /\ UNCHANGED <<account, rows, caches, fills, writer, history, bounds>>

\* Mutant of SetOwner: a list leaves the owners out.
SetOwnerOfOne(c) ==
    /\ req[c].pc = "owner"
    /\ owner' = IF req[c].op = "list" THEN owner
                ELSE [owner EXCEPT ![Subject(c)] = Me(c)]
    /\ Step(c, IF req[c].op = "icon" THEN To("icon") ELSE To("record"))
    /\ UNCHANGED <<account, rows, record, icon, latest, order, listJSON, fills,
                   writer, history, bounds>>

\* setCachedIsuOwner
SetOwner(c) ==
    /\ req[c].pc = "owner"
    /\ owner' = [owner EXCEPT ![Subject(c)] = Me(c)]
    /\ Step(c, IF req[c].op = "icon" THEN To("icon") ELSE To("record"))
    /\ UNCHANGED <<account, rows, record, icon, latest, order, listJSON, fills,
                   writer, history, bounds>>

\* setCachedIsuMetadata; getIsuConditions has selected the name only.
SetRecord(c) ==
    LET i == Subject(c) IN
    /\ req[c].pc = "record"
    /\ record' = [record EXCEPT ![i] =
           [user |-> Me(c),
            id |-> IF req[c].op = "conditions" THEN Partial ELSE Id(i)]]
    /\ Step(c, CASE req[c].op = "register" -> To("icon")
                 [] req[c].op = "list" -> To("look")
                 [] OTHER -> Reply(<<Plain(i, Id(i))>>))
    /\ UNCHANGED <<account, rows, owner, icon, latest, order, listJSON, fills,
                   writer, history, bounds>>

\* postIsu puts the icon itself, getIsuIcon leaves that to a goroutine.
SetIcon(c) ==
    /\ Serving(c, "register", "icon")
    /\ icon' = [icon EXCEPT ![req[c].isu] = Me(c)]
    /\ Step(c, To("prepend"))
    /\ UNCHANGED <<account, rows, owner, record, latest, order, listJSON,
                   fills, writer, history, bounds>>

StartFill(c) ==
    /\ Serving(c, "icon", "icon")
    /\ fills' = fills \cup {[isu |-> req[c].isu, user |-> Me(c)]}
    /\ Step(c, Reply(<<Plain(req[c].isu, Id(req[c].isu))>>))
    /\ UNCHANGED <<account, rows, caches, writer, history, bounds>>

FillIcon(f) ==
    /\ icon' = [icon EXCEPT ![f.isu] = f.user]
    /\ fills' = fills \ {f}
    /\ UNCHANGED <<account, rows, owner, record, latest, order, listJSON,
                   writer, req, history, bounds>>

\* Mutants of Prepend: the JSON is kept; the ISU goes to the end.
PrependKeepsJSON(c) ==
    LET u == Me(c)
        old == IF order[u] = {} THEN <<>> ELSE CHOOSE o \in order[u] : TRUE
    IN  /\ Serving(c, "register", "prepend")
        /\ order' = [order EXCEPT ![u] = {<<req[c].isu>> \o old}]
        /\ Step(c, Reply(<<Plain(req[c].isu, Id(req[c].isu))>>))
        /\ acked' = acked \cup {req[c].isu}
        /\ UNCHANGED <<account, rows, owner, record, icon, latest, listJSON,
                       fills, writer, forgotten, crossed, bounds>>
AppendToOrder(c) ==
    LET u == Me(c)
        old == IF order[u] = {} THEN <<>> ELSE CHOOSE o \in order[u] : TRUE
    IN  /\ Serving(c, "register", "prepend")
        /\ order' = [order EXCEPT ![u] = {Append(old, req[c].isu)}]
        /\ listJSON' = [listJSON EXCEPT ![u] = {}]
        /\ Step(c, Reply(<<Plain(req[c].isu, Id(req[c].isu))>>))
        /\ acked' = acked \cup {req[c].isu}
        /\ UNCHANGED <<account, rows, owner, record, icon, latest, fills,
                       writer, forgotten, crossed, bounds>>

\* prependIsuListOrder and 201: without an order it starts a new one.
Prepend(c) ==
    LET u == Me(c)
        old == IF order[u] = {} THEN <<>> ELSE CHOOSE o \in order[u] : TRUE
    IN  /\ Serving(c, "register", "prepend")
        /\ order' = [order EXCEPT ![u] = {<<req[c].isu>> \o old}]
        /\ listJSON' = [listJSON EXCEPT ![u] = {}]
        /\ Step(c, Reply(<<Plain(req[c].isu, Id(req[c].isu))>>))
        /\ acked' = acked \cup {req[c].isu}
        /\ UNCHANGED <<account, rows, owner, record, icon, latest, fills,
                       writer, forgotten, crossed, bounds>>

----------------------------------------------------------------------------
(* getIsuList without a JSON.                                              *)

\* getCachedIsuListOrder
ReadOrder(c) ==
    /\ Serving(c, "list", "order")
    /\ \/ \E o \in order[Me(c)] :
              Step(c, [pc |-> IF o = <<>> THEN "setJSON" ELSE "known",
                       todo |-> [n \in DOMAIN o |-> Plain(o[n], Partial)]])
       \/ order[Me(c)] = {} /\ Step(c, To("select"))
    /\ UNCHANGED <<account, rows, caches, fills, writer, history, bounds>>

\* The items in the cached order: one ISU without its record, and the handler
\* starts over with a SELECT.
ReadRecord(c) ==
    /\ Serving(c, "list", "known")
    /\ \/ \E r \in RecordOf(Me(c), Subject(c)) :
              Step(c, [pc |-> "knownItem",
                       todo |-> <<Plain(Subject(c), r.id)>> \o Tail(req[c].todo)])
       \/ /\ RecordOf(Me(c), Subject(c)) = {}
          /\ Step(c, [pc |-> "select", todo |-> <<>>, items |-> <<>>,
                      over |-> FALSE])
    /\ UNCHANGED <<account, rows, caches, fills, writer, history, bounds>>

SelectList(c) ==
    /\ Serving(c, "list", "select")
    /\ \E saved \in Saved : LET todo == ListOf(Me(c), saved) IN
          Step(c, [pc |-> IF todo = <<>> THEN "setOrder" ELSE "owner",
                   todo |-> todo])
    /\ UNCHANGED <<account, rows, caches, fills, writer, history, bounds>>

\* A row that has a latest condition where the cache has none fills the cache.
LookLatest(c) ==
    LET row == Head(req[c].todo) IN
    /\ Serving(c, "list", "look")
    /\ Step(c, IF latest[row.isu] = Never /\ row.at # Never
               THEN To("latest") ELSE To("again"))
    /\ UNCHANGED <<account, rows, caches, fills, writer, history, bounds>>

\* setCachedIsuLatestCondition, first half.  Lists that hold an older latest
\* condition of the ISU already are marked: they have been overtaken (history).
SetLatest(i, t) ==
    latest' = [latest EXCEPT ![i] = t]
Overtaken(i, t) ==
    [c \in Clients |->
        [req[c] EXCEPT !.over = @ \/ /\ req[c].op = "list" /\ req[c].pc # "done"
                                     /\ \E x \in Range(req[c].items) :
                                           x.isu = i /\ x.at # t]]

FillLatest(c) ==
    LET row == Head(req[c].todo) IN
    /\ Serving(c, "list", "latest")
    /\ IF latest[row.isu] <= row.at
       THEN /\ SetLatest(row.isu, row.at)
            /\ req' = [Overtaken(row.isu, row.at) EXCEPT ![c].pc = "drop"]
       ELSE Step(c, To("again")) /\ UNCHANGED latest
    /\ UNCHANGED <<account, rows, owner, record, icon, order, listJSON, fills,
                   writer, history, bounds>>

\* Its second half, invalidateIsuListJSONByIsu: this handler has set the owner.
FillDrop(c) ==
    /\ Serving(c, "list", "drop")
    /\ listJSON' = [listJSON EXCEPT ![Me(c)] = {}]
    /\ Step(c, To("again"))
    /\ UNCHANGED <<account, rows, owner, record, icon, latest, order, fills,
                   writer, history, bounds>>

\* The metadata are read back from the cache; whether they are there is not
\* looked at, and a missing record makes an item without id and name.
ReadBack(c) ==
    LET i == Subject(c)
        id == IF RecordOf(Me(c), i) = {} THEN Partial ELSE record[i].id
    IN  /\ Serving(c, "list", "again")
        /\ Step(c, [pc |-> "item", todo |-> <<Plain(i, id)>> \o Tail(req[c].todo)])
        /\ UNCHANGED <<account, rows, caches, fills, writer, history, bounds>>

\* buildIsuListItem
BuildItem(c) ==
    LET i == Subject(c)
        rest == Tail(req[c].todo)
    IN  /\ req[c].pc \in {"item", "knownItem"}
        /\ Step(c, [todo |-> rest,
                    items |-> Append(req[c].items,
                                     [Head(req[c].todo) EXCEPT !.at = latest[i]]),
                    pc |-> CASE req[c].pc = "item" /\ rest # <<>> -> "owner"
                             [] req[c].pc = "item" /\ rest = <<>> -> "setOrder"
                             [] req[c].pc = "knownItem" /\ rest # <<>> -> "known"
                             [] OTHER -> "setJSON"])
        /\ UNCHANGED <<account, rows, caches, fills, writer, history, bounds>>

\* setIsuListOrder, which drops the JSON, too.
SetOrder(c) ==
    /\ Serving(c, "list", "setOrder")
    /\ order' = [order EXCEPT ![Me(c)] = {IsusOf(req[c].items)}]
    /\ listJSON' = [listJSON EXCEPT ![Me(c)] = {}]
    /\ Step(c, To("setJSON"))
    /\ UNCHANGED <<account, rows, owner, record, icon, latest, fills, writer,
                   history, bounds>>

\* setCachedIsuListJSON and the answer.
SetJSON(c) ==
    /\ Serving(c, "list", "setJSON")
    /\ listJSON' = [listJSON EXCEPT ![Me(c)] =
           {[items |-> req[c].items, over |-> req[c].over]}]
    /\ Step(c, To("done"))
    /\ UNCHANGED <<account, rows, owner, record, icon, latest, order, fills,
                   writer, history, bounds>>

Done(c) ==
    /\ req[c].pc = "done"
    /\ req' = [req EXCEPT ![c] = Idle]
    /\ UNCHANGED <<account, rows, caches, fills, writer, history, bounds>>

Handle(c) ==
    \/ SelectRow(c) \/ SetOwner(c) \/ SetRecord(c) \/ SetIcon(c) \/ StartFill(c)
    \/ Prepend(c) \/ ReadOrder(c) \/ ReadRecord(c) \/ SelectList(c)
    \/ LookLatest(c) \/ FillLatest(c) \/ FillDrop(c) \/ ReadBack(c)
    \/ BuildItem(c) \/ SetOrder(c) \/ SetJSON(c) \/ Done(c)

----------------------------------------------------------------------------
(* The memory writer, the database writer, the process.                    *)

\* applyConditionMemoryBatch calls setCachedIsuLatestCondition; an older
\* timestamp changes nothing.
WriteLatest(i, t) ==
    /\ writer.pc = "idle" /\ i \in Registered /\ latest[i] <= t
    /\ SetLatest(i, t)
    /\ writer' = [pc |-> "owner", isu |-> i, user |-> Nobody]
    /\ req' = Overtaken(i, t)
    /\ UNCHANGED <<account, rows, owner, record, icon, order, listJSON, fills,
                   history, bounds>>

\* invalidateIsuListJSONByIsu: whose list is it?
LookUpOwner ==
    /\ writer.pc = "owner"
    /\ writer' = IF owner[writer.isu] = Nobody THEN AtRest
                 ELSE [writer EXCEPT !.pc = "drop", !.user = owner[writer.isu]]
    /\ UNCHANGED <<account, rows, caches, fills, req, history, bounds>>

\* invalidateIsuListJSON
DropJSON ==
    /\ writer.pc = "drop"
    /\ listJSON' = [listJSON EXCEPT ![writer.user] = {}]
    /\ writer' = AtRest
    /\ UNCHANGED <<account, rows, owner, record, icon, latest, order, fills,
                   req, history, bounds>>

\* The process dies and starts again: main warms no cache.
Restart ==
    /\ resets < MaxResets
    /\ resets' = resets + 1
    /\ NoCaches
    /\ fills' = {} /\ writer' = AtRest /\ req' = [c \in Clients |-> Idle]
    /\ forgotten' = forgotten \cup acked /\ acked' = acked /\ crossed' = {}
    /\ UNCHANGED <<account, rows, requests>>

\* POST /initialize, which the benchmark sends before it sends anything else.
Initialize ==
    /\ resets < MaxResets
    /\ \A c \in Clients : req[c].pc = "idle"
    /\ fills = {} /\ writer = AtRest
    /\ rows' = Seed
    /\ owner' = [i \in Isus |-> SeedUser(i)] /\ record' = SeedRecord
    /\ icon' = [i \in Isus |-> Nobody] /\ latest' = SeedLatest
    /\ order' = SeedOrder /\ listJSON' = [u \in Users |-> {}]
    /\ acked' = SeedIsus /\ forgotten' = {} /\ crossed' = {}
    /\ resets' = resets + 1
    /\ UNCHANGED <<account, fills, writer, req, requests>>

Next ==
    \/ \E c \in Clients :
          \/ GetList(c) \/ Handle(c)
          \/ \E i \in Isus : Insert(c, i) \/ \E op \in Ops : GetIsu(c, op, i)
    \/ \E f \in fills : FillIcon(f)
    \/ \E x \in Conditions : WriteLatest(x.isu, x.at)
    \/ LookUpOwner \/ DropJSON \/ Restart \/ Initialize

Spec == Init /\ [][Next]_vars

----------------------------------------------------------------------------
Items == [isu : Isus, id : Nat, at : Nat]
Places == {"idle", "order", "known", "knownItem", "select", "owner", "record",
           "icon", "prepend", "look", "latest", "drop", "again", "item",
           "setOrder", "setJSON", "done"}
Handlers == [op : Ops \cup {"none"}, pc : Places, isu : Isus \cup {NoIsu},
             todo : Seq(Items), items : Seq(Items), over : BOOLEAN,
             due : SUBSET Isus]
TypeOK ==
    /\ account \in [Clients -> Users]
    /\ rows \in Seq([isu : Isus, user : Users])
    /\ \A m, n \in DOMAIN rows : rows[m].isu = rows[n].isu => m = n
    /\ latest \in [Isus -> Nat]
    /\ owner \in [Isus -> Users \cup {Nobody}]
    /\ record \in [Isus -> [user : Users \cup {Nobody}, id : Nat]]
    /\ icon \in [Isus -> Users \cup {Nobody}]
    /\ order \in [Users -> SUBSET Seq(Isus)]
    /\ listJSON \in [Users -> SUBSET [items : Seq(Items), over : BOOLEAN]]
    /\ \A u \in Users : Cardinality(order[u]) <= 1 /\ Cardinality(listJSON[u]) <= 1
    /\ fills \subseteq [isu : Isus, user : Users]
    /\ writer \in [pc : {"idle", "owner", "drop"}, isu : Isus \cup {NoIsu},
                   user : Users \cup {Nobody}]
    /\ req \in [Clients -> Handlers]
    /\ acked \subseteq Registered /\ forgotten \subseteq acked

Answered(c, op) == Serving(c, op, "done")
Shown(c) == {x.isu : x \in Range(req[c].items)}

\* No list of u has met a registration or a condition request of u; no two
\* registrations of u have met.
Calm(u) == \A op \in {"register", "conditions"} : <<u, {"list", op}>> \notin crossed
InTurn(u) == <<u, {"register"}>> \notin crossed

\* GET /api/isu shows every ISU whose registration was answered before the GET
\* began, although handlers cache list and order while others change them, as
\* long as no registration of that user meets the GET.  What was registered
\* before a restart is left out: prependIsuListOrder starts a new list.
ListShowsRegistered ==
    \A c \in Clients : Answered(c, "list") /\ Calm(Me(c)) =>
        req[c].due \ forgotten \subseteq Shown(c)

\* The list is the one of the rows: every item has the id (hence name and
\* character) of its row, wherever it came from, and no ISU is listed twice.
\* The newest comes first, unless registrations of the user have overtaken one
\* another between INSERT and prependIsuListOrder.
ListFollowsRows ==
    \A c \in Clients : Answered(c, "list") /\ Calm(Me(c)) =>
        LET items == req[c].items IN
        /\ \A x \in Range(items) : x.id = Id(x.isu)
        /\ \A m, n \in DOMAIN items :
              m < n => \/ items[m].id > items[n].id
                       \/ ~InTurn(Me(c)) /\ items[m].id # items[n].id

\* Nothing else, whichever cache answers and whoever asked before: a user sees
\* only ISUs that are that user's own rows, also after POST /initialize has
\* given an ISU back and somebody else has registered it.
OnlyOwnIsus ==
    \A c \in Clients : req[c].pc = "done" =>
        \A i \in Shown(c) : Owns(Me(c), i)

\* GET /api/isu/:id finds the user's registered ISU and answers with its whole
\* row, although condition handlers put metadata with the name only into the
\* same cache, possibly over a whole record.
DetailIsWhole ==
    \A c \in Clients : Answered(c, "detail") /\ req[c].isu \in req[c].due =>
        req[c].items = <<Plain(req[c].isu, Id(req[c].isu))>>

\* A cached list JSON shows the latest conditions of the cache, except while
\* the goroutine that has set one is about to drop the JSON, and unless the
\* handler that stored it was itself overtaken.  In particular the owner of a
\* listed ISU is always cached, or the writer could not find the list.
JSONIsFresh ==
    \A u \in Users : \A body \in listJSON[u] : ~body.over =>
        \A x \in Range(body.items) :
            \/ x.at = latest[x.isu]
            \/ writer.isu = x.isu
            \/ \E c \in Clients : Serving(c, "list", "drop") /\ Subject(c) = x.isu

\* docs/manual.md requires that data written under load can be read again
\* after the servers were restarted: the list shows every registered ISU.
ListIsComplete ==
    \A c \in Clients : Answered(c, "list") /\ Calm(Me(c)) =>
        req[c].due \subseteq Shown(c)
=============================================================================
