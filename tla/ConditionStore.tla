--------------------------- MODULE ConditionStore ---------------------------
(***************************************************************************)
(* The conditions of one ISU in memory: a slice in ascending order of the  *)
(* timestamps, into which the memory writer inserts the conditions of a    *)
(* POST one by one under the lock of the ISU, and from which               *)
(* GET /api/condition reads a page under the read lock: the newest         *)
(* conditions of the wanted levels in [start_time, end_time).              *)
(*                                                                         *)
(* A condition is [ts, flags]: of its text only the warnings that are true *)
(* matter; is_sitting and message are carried along.                       *)
(***************************************************************************)
EXTENDS Integers, Sequences, FiniteSets, SequencesExt

CONSTANTS Seed,     \* items warmed from the table
          Batches,  \* bound: the POSTs that may arrive, sequences of conditions
          Limit     \* conditionLimit, also the page size of the front end

Flags == {"is_dirty", "is_overweight", "is_broken"}
Condition == [ts : Nat \ {0}, flags : SUBSET Flags]

\* Strictly ascending timestamps.
Ascending(s) == \A m, n \in 1..Len(s) : m < n => s[m].ts < s[n].ts

ASSUME StoreAssumption ==
    /\ Seed \in Seq(Condition) /\ Ascending(Seed)
    /\ Batches \subseteq Seq(Condition)
    /\ Limit \in Nat \ {0}

VARIABLES items,     \* isuConditionMem.items
          incoming,  \* what appendIsuConditions, holding the lock, has left
          posted     \* history: all conditions POSTed, in the order handled

store == <<items, incoming, posted>>

----------------------------------------------------------------------------
\* sort.Search over an ascending slice: the first place whose timestamp is not
\* below t, or the place after the last.
Search(s, t) ==
    CHOOSE n \in 1..(Len(s) + 1) :
        /\ \A m \in 1..Len(s) : m < n => s[m].ts < t
        /\ \A m \in 1..Len(s) : n <= m => t <= s[m].ts

\* Mutants of Inserted: a condition of an hour ago goes to the end; a second
\* condition of a timestamp replaces the first.
AppendedAnyway(s, c) == Append(s, c)
InsertedOver(s, c) ==
    LET n == Search(s, c.ts) IN
    IF n <= Len(s) /\ s[n].ts = c.ts THEN [s EXCEPT ![n] = c]
    ELSE InsertAt(s, n, c)

\* One turn of the loop in appendIsuConditions; a timestamp that is there
\* already keeps its condition, as INSERT IGNORE does.
Inserted(s, c) ==
    LET n == Search(s, c.ts) IN
    IF s = <<>> \/ s[Len(s)].ts < c.ts THEN Append(s, c)
    ELSE IF n <= Len(s) /\ s[n].ts = c.ts THEN s
    ELSE InsertAt(s, n, c)

Init == items = Seed /\ incoming = <<>> /\ posted = Seed

\* The writer takes the lock for the conditions of one POST.
Post(batch) ==
    /\ incoming = <<>>
    /\ incoming' = batch
    /\ UNCHANGED <<items, posted>>

InsertNext ==
    /\ incoming # <<>>
    /\ items' = Inserted(items, Head(incoming))
    /\ incoming' = Tail(incoming)
    /\ posted' = Append(posted, Head(incoming))

StoreNext == InsertNext \/ \E batch \in Batches : Post(batch)
StoreSpec == Init /\ [][StoreNext]_store

----------------------------------------------------------------------------
(* GET /api/condition.  A query is [levels, start, end]; start 0 is none.  *)

Query == [levels : SUBSET {"info", "warning", "critical"}, start : Nat, end : Nat]

\* calculateConditionLevel
Level(flags) == CASE flags = {} -> "info"
                  [] flags = Flags -> "critical"
                  [] OTHER -> "warning"

\* conditionStringsForLevels
Wanted(levels) == {flags \in SUBSET Flags : Level(flags) \in levels}

\* Mutant of End: end_time itself is included.
EndIncluded(s, q) == Search(s, q.end + 1) - 1

\* The last place before end_time.
End(s, q) == Search(s, q.end) - 1

\* What the loop comes by on its way down: it ends at the first condition
\* before start_time and passes over the conditions of other levels.
Places(s, q) ==
    {n \in 1..End(s, q) : /\ \A m \in n..End(s, q) : q.start <= s[m].ts
                          /\ s[n].flags \in Wanted(q.levels)}

\* The k-th of them on the way down.
Taken(P, k) == CHOOSE n \in P : Cardinality({m \in P : n <= m}) = k

\* Mutant of Page: the limit counts the conditions of other levels too.
PageLimitFirst(s, q) ==
    LET P == {n \in Places(s, q) : End(s, q) - n < Limit}
    IN  [k \in 1..Cardinality(P) |-> s[Taken(P, k)]]

\* getIsuConditionsFromMem
Page(s, q) ==
    LET P == Places(s, q)
    IN  [k \in 1..Min({Limit, Cardinality(P)}) |-> s[Taken(P, k)]]

----------------------------------------------------------------------------
(* What the store promises.                                                *)

\* A condition is in the history before every other one of its timestamp.
First(h, n) == \A m \in 1..(n - 1) : h[m].ts # h[n].ts
Accepted(h) == {h[n] : n \in {m \in DOMAIN h : First(h, m)}}

\* The conditions in S that a query asks for.
Matching(S, q) ==
    {c \in S : q.start <= c.ts /\ c.ts < q.end /\ Level(c.flags) \in q.levels}

\* The newest Limit of them, newest first: what GET /api/condition promises.
IsNewest(answer, S, q) ==
    /\ \A m, n \in DOMAIN answer : m < n => answer[m].ts > answer[n].ts
    /\ Range(answer) \subseteq Matching(S, q)
    /\ Len(answer) = Min({Limit, Cardinality(Matching(S, q))})
    /\ \A c \in Matching(S, q) \ Range(answer), d \in Range(answer) : c.ts < d.ts

StoreTypeOK == items \in Seq(Condition) /\ incoming \in Seq(Condition)
                                        /\ posted \in Seq(Condition)

\* The slice stays strictly ascending, in every intermediate state of an
\* insertion and whatever the order in which POSTs are handled: the binary
\* searches of the store and of the graph depend on it.
StoreIsAscending == Ascending(items)

\* Nothing is lost, moved or replaced by an insertion in the middle: memory
\* holds, for every timestamp handled, the condition that came first.
StoreHoldsFirst == Range(items) = Accepted(posted)
=============================================================================
