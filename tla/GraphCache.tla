----------------------------- MODULE GraphCache -----------------------------
(***************************************************************************)
(* The graph of one ISU: the memory writer that appends conditions, seals  *)
(* the hours the virtual present has left and moves the present on, and    *)
(* the GET handlers that read a day of it, seal what is not sealed yet and *)
(* keep a separate cache for the hour that is still open; and a goroutine  *)
(* that fills a missing present from the row of the ISU, which has a       *)
(* writer of its own and may be ahead of memory.                           *)
(*                                                                         *)
(* Time is counted in ticks, TicksPerHour to the hour and HoursPerDay to   *)
(* the day.  A slot of a graph is represented by the timestamps it was     *)
(* made from (ConditionTimestamps): score and percentages are a function   *)
(* of the conditions with these timestamps.  A day is the union of its     *)
(* slots.  The state behind the mutexes of conditionStore, graphCache,     *)
(* openHourGraphCache and isuLatestConditionCache is read and written in   *)
(* one step per critical section; the RWMutex of an ISU and a day, which   *)
(* is held across several of them, is modelled.                            *)
(***************************************************************************)
EXTENDS Integers, FiniteSets

CONSTANTS NumDays, HoursPerDay, TicksPerHour,
          Getters,    \* goroutines serving GET graph
          Arriving,   \* bound: timestamps of the conditions that may be posted
          Seed,       \* timestamps warmed by POST /initialize; {}: a new ISU
          MaxRequest, \* bound: conditions per POST
          RowLatest   \* bound: what latest_timestamp of the row may be found

Hours == 0..(NumDays * HoursPerDay - 1)
Days == 0..(NumDays - 1)
Ticks == 0..(NumDays * HoursPerDay * TicksPerHour - 1)

ASSUME GraphAssumption ==
    /\ NumDays \in Nat \ {0} /\ HoursPerDay \in Nat \ {0}
    /\ TicksPerHour \in Nat \ {0} /\ MaxRequest \in Nat \ {0}
    /\ Seed \subseteq Ticks /\ Arriving \subseteq Ticks
    /\ RowLatest \subseteq Ticks
    /\ "nobody" \notin Getters

\* No latest timestamp; no entry in the graph cache; nobody holds the lock.
None == -1
NoOne == "nobody"

VARIABLES
    store,    \* conditionStore of the ISU: the timestamps in memory
    latest,   \* isuLatestConditionCache: the virtual present, or None
    wPc,      \* where applyConditionMemoryBatch is
    wBatch,   \* timestamps of its batch
    wHour,    \* hourStart of sealGraphHoursInRange
    entry,    \* graphCache: per day the timestamps in the cached response
    sealed,   \* graphCache: sealedThrough per day, None without an entry
    openCache,   \* openHourGraphCache of the ISU, a set of at most one entry
    lockW, lockR, \* per day the writer and the readers of its RWMutex
    gPc,      \* where each GET is
    gDay,     \* the day it asks for
    gOpen,    \* openHour: the hour of the virtual present it has read
    gRes,     \* the response it is making
    gHour,    \* the hour it seals next
    gLatest,  \* latest as getOrGenerateOpenHourGraph has read it
    gItems,   \* the open hour it has generated
    fPc,      \* where a goroutine that fills the present from the row is
    fTime,    \* latest_timestamp of the row it has selected, until it is set
    settled,  \* history: timestamps of the batches the writer has finished
    onTime,   \* history: timestamps newer than all others when appended
    gDue      \* history: timestamps of its day settled when the GET began

present == <<store, latest>>
writer == <<wPc, wBatch, wHour>>
cache == <<entry, sealed>>
locks == <<lockW, lockR>>
getter == <<gPc, gDay, gOpen, gRes, gHour, gLatest, gItems>>
filler == <<fPc, fTime>>
history == <<settled, onTime, gDue>>
vars == <<present, writer, cache, openCache, locks, getter, filler, history>>

----------------------------------------------------------------------------
HourOf(t) == t \div TicksPerHour
DayOf(h) == h \div HoursPerDay
DayStart(d) == d * HoursPerDay
DayEnd(d) == (d + 1) * HoursPerDay
TicksOf(d) == {t \in Ticks : DayOf(HourOf(t)) = d}

Greatest(S) == CHOOSE t \in S : \A u \in S : u <= t
Lesser(m, n) == IF m <= n THEN m ELSE n

\* generateIsuGraphHour: one hour made from the conditions in memory.
Hour(h) == {t \in store : HourOf(t) = h}

\* A day in which the hours from..to-1 have been made anew.
Remade(ticks, from, to) ==
    {t \in ticks : HourOf(t) \notin from..(to - 1)}
        \cup UNION {Hour(h) : h \in from..(to - 1)}

\* getCachedGraphEntry: a day without an entry counts as sealed up to nothing.
SealedFrom(d) == IF sealed[d] = None THEN DayStart(d) ELSE sealed[d]
FullySealed(d) == sealed[d] = DayEnd(d)

\* warmGraphCache and warmIsuLatestTimestamps, or nothing for a new ISU.
Init ==
    /\ store = Seed
    /\ latest = IF Seed = {} THEN None ELSE Greatest(Seed)
    /\ entry = [d \in Days |-> Seed \cap TicksOf(d)]
    /\ sealed = [d \in Days |->
           IF Seed \cap TicksOf(d) = {} THEN None
           ELSE Lesser(DayEnd(d), HourOf(Greatest(Seed)))]
    /\ wPc = "idle" /\ wBatch = {} /\ wHour = 0
    /\ openCache = {}
    /\ lockW = [d \in Days |-> NoOne] /\ lockR = [d \in Days |-> {}]
    /\ gPc = [g \in Getters |-> "idle"]
    /\ gDay = [g \in Getters |-> 0] /\ gOpen = [g \in Getters |-> 0]
    /\ gRes = [g \in Getters |-> {}] /\ gHour = [g \in Getters |-> 0]
    /\ gLatest = [g \in Getters |-> None] /\ gItems = [g \in Getters |-> {}]
    /\ fPc = "idle" /\ fTime = 0
    /\ settled = Seed /\ onTime = Seed /\ gDue = [g \in Getters |-> {}]

----------------------------------------------------------------------------
(* applyConditionMemoryBatch.                                              *)

\* appendIsuConditions for one request of the batch.
Append(S) ==
    /\ wPc \in {"idle", "append"}
    /\ S \cap store = {}
    /\ store' = store \cup S
    /\ wBatch' = wBatch \cup S
    /\ wPc' = "append"
    /\ onTime' = onTime \cup {t \in S : \A u \in store : u < t}
    /\ UNCHANGED <<latest, wHour, cache, openCache, locks, getter, settled,
                   gDue, filler>>

\* The batch is in: does its newest condition begin a new hour?
Compare ==
    /\ wPc = "append"
    /\ IF latest # None /\ HourOf(latest) < HourOf(Greatest(wBatch))
       THEN wPc' = "seal" /\ wHour' = HourOf(latest)
       ELSE wPc' = "set" /\ UNCHANGED wHour
    /\ UNCHANGED <<present, wBatch, cache, openCache, locks, getter, history,
                   filler>>

\* One turn of the loop in sealGraphHoursInRange: the hours of one day, under
\* the day's lock, which the writer first has to ask for.
AskSealLock ==
    /\ wPc = "seal"
    /\ wPc' = "sealing"
    /\ UNCHANGED <<present, wBatch, wHour, cache, openCache, locks, getter,
                   history, filler>>

\* Mutant of SealDay: hours already sealed are made again.
SealDayFromStart ==
    LET d == DayOf(wHour)
        to == Lesser(HourOf(Greatest(wBatch)), DayEnd(d))
    IN  /\ wPc = "sealing"
        /\ lockW[d] = NoOne /\ lockR[d] = {}
        /\ entry' = [entry EXCEPT ![d] = Remade(@, DayStart(d), to)]
        /\ sealed' = [sealed EXCEPT ![d] = to]
        /\ wHour' = to
        /\ wPc' = IF to = HourOf(Greatest(wBatch)) THEN "set" ELSE "seal"
        /\ UNCHANGED <<present, wBatch, openCache, locks, getter, history,
                       filler>>

SealDay ==
    LET d == DayOf(wHour)
        to == Lesser(HourOf(Greatest(wBatch)), DayEnd(d))
    IN  /\ wPc = "sealing"
        /\ lockW[d] = NoOne /\ lockR[d] = {}
        /\ IF SealedFrom(d) < to
           THEN /\ entry' = [entry EXCEPT ![d] = Remade(@, SealedFrom(d), to)]
                /\ sealed' = [sealed EXCEPT ![d] = to]
           ELSE UNCHANGED cache
        /\ wHour' = to
        /\ wPc' = IF to = HourOf(Greatest(wBatch)) THEN "set" ELSE "seal"
        /\ UNCHANGED <<present, wBatch, openCache, locks, getter, history,
                       filler>>

Finished == wPc' = "idle" /\ wBatch' = {} /\ settled' = store

\* setCachedIsuLatestCondition drops an older timestamp and returns early.
DropLate ==
    /\ wPc = "set"
    /\ latest # None /\ Greatest(wBatch) < latest
    /\ Finished
    /\ UNCHANGED <<present, wHour, cache, openCache, locks, getter, onTime,
                   gDue, filler>>

SetLatest ==
    /\ wPc = "set"
    /\ latest = None \/ latest <= Greatest(wBatch)
    /\ latest' = Greatest(wBatch)
    /\ wPc' = "invalidate"
    /\ UNCHANGED <<store, wBatch, wHour, cache, openCache, locks, getter,
                   history, filler>>

\* invalidateOpenHourGraphCache, after the lock of the latest was released.
Invalidate ==
    /\ wPc = "invalidate"
    /\ openCache' = {}
    /\ Finished
    /\ UNCHANGED <<present, wHour, cache, locks, getter, onTime, gDue, filler>>

Writer == Compare \/ AskSealLock \/ SealDay \/ DropLate \/ SetLatest \/ Invalidate

----------------------------------------------------------------------------
(* buildTrendJSON and getIsuList, for the row of this ISU.                 *)

\* The cache has no present, and the row has: it names the newest condition the
\* database writer has persisted, whether or not memory has it yet.
FillLook(t) ==
    /\ fPc = "idle"
    /\ latest = None
    /\ fTime' = t
    /\ fPc' = "set"
    /\ UNCHANGED <<present, writer, cache, openCache, locks, getter, history>>

\* setCachedIsuLatestCondition, as in the writer: in a later critical section
\* than the look-up, and only if nothing newer is there by now ...
FillSet ==
    /\ fPc = "set"
    /\ IF latest = None \/ latest <= fTime
       THEN latest' = fTime /\ fPc' = "invalidate"
       ELSE UNCHANGED latest /\ fPc' = "idle"
    /\ fTime' = 0
    /\ UNCHANGED <<store, writer, cache, openCache, locks, getter, history>>

\* ... and then invalidateOpenHourGraphCache.
FillInvalidate ==
    /\ fPc = "invalidate"
    /\ openCache' = {}
    /\ fPc' = "idle"
    /\ UNCHANGED <<present, writer, cache, locks, getter, fTime, history>>

Filler == (\E t \in RowLatest : FillLook(t)) \/ FillSet \/ FillInvalidate

----------------------------------------------------------------------------
(* getIsuGraph for a day d of this ISU, after session and owner checks.    *)

Goto(g, to) == gPc' = [gPc EXCEPT ![g] = to]
Respond(g, ticks) == gRes' = [gRes EXCEPT ![g] = ticks]
\* Mutant of Unlock: only a read lock is released.
UnlockRead(g) ==
    /\ lockR' = [d \in Days |-> lockR[d] \ {g}]
    /\ UNCHANGED lockW
Unlock(g) ==
    /\ lockW' = [d \in Days |-> IF lockW[d] = g THEN NoOne ELSE lockW[d]]
    /\ lockR' = [d \in Days |-> lockR[d] \ {g}]

\* A fully sealed day is answered from its JSON.
Get(g, d) ==
    /\ gPc[g] = "idle"
    /\ gDay' = [gDay EXCEPT ![g] = d]
    /\ gDue' = [gDue EXCEPT ![g] = settled \cap TicksOf(d)]
    /\ IF FullySealed(d)
       THEN Respond(g, entry[d]) /\ Goto(g, "done")
       ELSE UNCHANGED gRes /\ Goto(g, "now")
    /\ UNCHANGED <<present, writer, cache, openCache, locks, gOpen, gHour,
                   gLatest, gItems, settled, onTime, filler>>

\* getIsuGraphResponse reads the virtual present.  Without one the whole day
\* will be sealed; a day after the present is empty.
ReadNow(g) ==
    /\ gPc[g] = "now"
    /\ IF latest = None
       THEN Goto(g, "lockAll") /\ UNCHANGED <<gOpen, gRes>>
       ELSE /\ gOpen' = [gOpen EXCEPT ![g] = HourOf(latest)]
            /\ IF gDay[g] > DayOf(HourOf(latest))
               THEN Respond(g, {}) /\ Goto(g, "final")
               ELSE UNCHANGED gRes /\ Goto(g, "rlock")
    /\ UNCHANGED <<present, writer, cache, openCache, locks, gDay, gHour,
                   gLatest, gItems, history, filler>>

\* Mutants of SealUntil: not clamped to the day; one hour too far.
SealUntilPresent(g) == gOpen[g]
SealUntilIncluded(g) == Lesser(gOpen[g] + 1, DayEnd(gDay[g]))

\* sealUntil: the open hour, or the end of a day that is past.
SealUntil(g) == Lesser(gOpen[g], DayEnd(gDay[g]))

\* Is the open hour one of this day?
HasOpen(g) == DayOf(gOpen[g]) = gDay[g]

\* sync.RWMutex: who waits for Lock keeps later readers out.
WriterWaits(d) ==
    \/ wPc = "sealing" /\ DayOf(wHour) = d
    \/ \E h \in Getters : gPc[h] \in {"locking", "lockingAll"} /\ gDay[h] = d

\* Under the read lock: is everything sealed that has to be?
ReadEntry(g) ==
    LET d == gDay[g] IN
    /\ gPc[g] = "rlock"
    /\ lockW[d] = NoOne /\ ~WriterWaits(d)
    /\ IF sealed[d] = None \/ sealed[d] < SealUntil(g)
       THEN Goto(g, "lock") /\ UNCHANGED <<gRes, lockR>>
       ELSE /\ Respond(g, entry[d])
            /\ IF HasOpen(g)
               THEN /\ lockR' = [lockR EXCEPT ![d] = @ \cup {g}]
                    /\ Goto(g, "open")
               ELSE UNCHANGED lockR /\ Goto(g, "final")
    /\ UNCHANGED <<present, writer, cache, openCache, lockW, gDay, gOpen,
                   gHour, gLatest, gItems, history, filler>>

AskLock(g) ==
    /\ \/ gPc[g] = "lock" /\ Goto(g, "locking")
       \/ gPc[g] = "lockAll" /\ Goto(g, "lockingAll")
    /\ UNCHANGED <<present, writer, cache, openCache, locks, gDay, gOpen, gRes,
                   gHour, gLatest, gItems, history, filler>>

\* Under the write lock: read the entry again, for another goroutine may have
\* sealed the day meanwhile, and seal from where it ends; or, without a present,
\* from the start of the day.
LockDay(g) ==
    LET d == gDay[g] IN
    /\ gPc[g] \in {"locking", "lockingAll"}
    /\ lockW[d] = NoOne /\ lockR[d] = {}
    /\ lockW' = [lockW EXCEPT ![d] = g]
    /\ IF gPc[g] = "locking"
       THEN /\ Respond(g, IF sealed[d] = None THEN {} ELSE entry[d])
            /\ gHour' = [gHour EXCEPT ![g] = SealedFrom(d)]
            /\ Goto(g, IF SealedFrom(d) < SealUntil(g) THEN "seal" ELSE "sealed")
       ELSE /\ Respond(g, {})
            /\ gHour' = [gHour EXCEPT ![g] = DayStart(d)]
            /\ Goto(g, "sealAll")
    /\ UNCHANGED <<present, writer, cache, openCache, lockR, gDay, gOpen,
                   gLatest, gItems, history, filler>>

Limit(g) == IF gPc[g] = "sealAll" THEN DayEnd(gDay[g]) ELSE SealUntil(g)

MakeHour(g) ==
    /\ gPc[g] \in {"seal", "sealAll"}
    /\ gHour[g] < Limit(g)
    /\ Respond(g, Remade(gRes[g], gHour[g], gHour[g] + 1))
    /\ gHour' = [gHour EXCEPT ![g] = @ + 1]
    /\ UNCHANGED <<present, writer, cache, openCache, locks, gPc, gDay, gOpen,
                   gLatest, gItems, history, filler>>

\* setCachedGraph; there is nothing to put when the day was sealed meanwhile.
PutDay(g) ==
    LET d == gDay[g] IN
    /\ \/ /\ gPc[g] \in {"seal", "sealAll"} /\ gHour[g] >= Limit(g)
          /\ entry' = [entry EXCEPT ![d] = gRes[g]]
          /\ sealed' = [sealed EXCEPT ![d] = Limit(g)]
       \/ gPc[g] = "sealed" /\ UNCHANGED cache
    /\ IF gPc[g] # "sealAll" /\ HasOpen(g)
       THEN Goto(g, "open") /\ UNCHANGED locks
       ELSE Goto(g, "final") /\ Unlock(g)
    /\ UNCHANGED <<present, writer, openCache, gDay, gOpen, gRes, gHour,
                   gLatest, gItems, history, filler>>

\* getOrGenerateOpenHourGraph: read the latest, look up, generate, put.
ReadLatest(g) ==
    /\ gPc[g] = "open"
    /\ gLatest' = [gLatest EXCEPT ![g] = latest]
    /\ Goto(g, "look")
    /\ UNCHANGED <<present, writer, cache, openCache, locks, gDay, gOpen, gRes,
                   gHour, gItems, history, filler>>

\* finishGraphDayResponse: the slots before the open hour, the open hour, and
\* empty slots.
WithOpen(g, items) ==
    {t \in gRes[g] : HourOf(t) < gOpen[g]} \cup items

\* Mutant of Usable: the hour of the entry is not compared.
UsableAnyHour(e, g) == gLatest[g] # None /\ e.through = gLatest[g]

\* The entry can be used if nothing has moved the present since.
Usable(e, g) == e.hour = gOpen[g] /\ gLatest[g] # None
                                  /\ e.through = gLatest[g]

LookOpen(g) ==
    /\ gPc[g] = "look"
    /\ \/ \E e \in openCache :
             /\ Usable(e, g)
             /\ Respond(g, WithOpen(g, e.items))
             /\ Goto(g, "final")
             /\ Unlock(g)
       \/ /\ \A e \in openCache : ~Usable(e, g)
          /\ Goto(g, "make")
          /\ UNCHANGED <<gRes, locks>>
    /\ UNCHANGED <<present, writer, cache, openCache, gDay, gOpen, gHour,
                   gLatest, gItems, history, filler>>

MakeOpen(g) ==
    /\ gPc[g] = "make"
    /\ gItems' = [gItems EXCEPT ![g] = Hour(gOpen[g])]
    /\ Goto(g, "put")
    /\ UNCHANGED <<present, writer, cache, openCache, locks, gDay, gOpen, gRes,
                   gHour, gLatest, history, filler>>

\* Mutant of PutOpen: the entry is marked with the present at the time of the
\* put, not with what it contains.
PutOpenAsLatest(g) ==
    /\ gPc[g] = "put"
    /\ openCache' = {[hour |-> gOpen[g], through |-> latest,
                      items |-> gItems[g]]}
    /\ Respond(g, WithOpen(g, gItems[g]))
    /\ Goto(g, "final")
    /\ Unlock(g)
    /\ UNCHANGED <<present, writer, cache, gDay, gOpen, gHour, gLatest, gItems,
                   history, filler>>

\* The entry is marked with the newest condition it contains.
PutOpen(g) ==
    /\ gPc[g] = "put"
    /\ openCache' = {[hour |-> gOpen[g],
                      through |-> IF gItems[g] = {} THEN gLatest[g]
                                  ELSE Greatest(gItems[g]),
                      items |-> gItems[g]]}
    /\ Respond(g, WithOpen(g, gItems[g]))
    /\ Goto(g, "final")
    /\ Unlock(g)
    /\ UNCHANGED <<present, writer, cache, gDay, gOpen, gHour, gLatest, gItems,
                   history, filler>>

\* Back in getIsuGraph: if the day has been sealed meanwhile, its JSON is sent
\* instead.
LookAgain(g) ==
    /\ gPc[g] = "final"
    /\ IF FullySealed(gDay[g]) THEN Respond(g, entry[gDay[g]])
                               ELSE UNCHANGED gRes
    /\ Goto(g, "done")
    /\ UNCHANGED <<present, writer, cache, openCache, locks, gDay, gOpen,
                   gHour, gLatest, gItems, history, filler>>

\* The response is sent; the goroutine serves another request.
Done(g) ==
    /\ gPc[g] = "done"
    /\ Goto(g, "idle")
    /\ gDay' = [gDay EXCEPT ![g] = 0] /\ gOpen' = [gOpen EXCEPT ![g] = 0]
    /\ gHour' = [gHour EXCEPT ![g] = 0] /\ gRes' = [gRes EXCEPT ![g] = {}]
    /\ gLatest' = [gLatest EXCEPT ![g] = None]
    /\ gItems' = [gItems EXCEPT ![g] = {}]
    /\ gDue' = [gDue EXCEPT ![g] = {}]
    /\ UNCHANGED <<present, writer, cache, openCache, locks, settled, onTime,
                   filler>>

Serve(g) == \/ ReadNow(g) \/ ReadEntry(g) \/ AskLock(g) \/ LockDay(g)
            \/ MakeHour(g) \/ PutDay(g) \/ ReadLatest(g) \/ LookOpen(g) \/ MakeOpen(g)
            \/ PutOpen(g) \/ LookAgain(g) \/ Done(g)

Requests == {S \in SUBSET Arriving : S # {} /\ Cardinality(S) <= MaxRequest}

Next == \/ \E S \in Requests : Append(S)
        \/ Writer
        \/ Filler
        \/ \E g \in Getters : Serve(g) \/ \E d \in Days : Get(g, d)

Spec == Init /\ [][Next]_vars

\* Goroutines that can run do.  Whoever asks for a lock that is free again and
\* again gets it: sync.RWMutex serves its waiters and starves none.
Fairness ==
    /\ WF_vars(Writer) /\ SF_vars(SealDay)
    /\ WF_vars(FillSet) /\ WF_vars(FillInvalidate)
    /\ \A g \in Getters : /\ WF_vars(Serve(g))
                          /\ SF_vars(LockDay(g)) /\ SF_vars(ReadEntry(g))

FairSpec == Spec /\ Fairness

----------------------------------------------------------------------------
TypeOK ==
    /\ store \subseteq Ticks /\ latest \in Ticks \cup {None}
    /\ wPc \in {"idle", "append", "seal", "sealing", "set", "invalidate"}
    /\ wBatch \subseteq Ticks /\ wHour \in Hours
    /\ entry \in [Days -> SUBSET Ticks] /\ sealed \in [Days -> Int]
    /\ \A d \in Days : /\ entry[d] \subseteq TicksOf(d)
                       /\ sealed[d] \in DayStart(d)..DayEnd(d) \cup {None}
    /\ openCache \subseteq [hour : Hours, through : Ticks, items : SUBSET Ticks]
    /\ Cardinality(openCache) <= 1
    /\ lockW \in [Days -> Getters \cup {NoOne}]
    /\ lockR \in [Days -> SUBSET Getters]
    /\ gPc \in [Getters -> {"idle", "now", "rlock", "lock", "lockAll", "locking",
                            "lockingAll", "seal", "sealAll", "sealed", "open", "look", "make", "put", "final",
                            "done"}]
    /\ gDay \in [Getters -> Days] /\ gOpen \in [Getters -> Hours]
    /\ gRes \in [Getters -> SUBSET Ticks]
    /\ gHour \in [Getters -> 0..(NumDays * HoursPerDay)]
    /\ gLatest \in [Getters -> Ticks \cup {None}]
    /\ gItems \in [Getters -> SUBSET Ticks]
    /\ fPc \in {"idle", "set", "invalidate"} /\ fTime \in Ticks
    /\ settled \subseteq store /\ onTime \subseteq store
    /\ gDue \in [Getters -> SUBSET settled]

\* Has every condition arrived after all those that are older?
InOrder == store = onTime

\* A sealed hour is final in the sense of the comment of graphCacheEntry: its
\* slot shows exactly the conditions of that hour that memory holds, although
\* several goroutines seal while conditions are appended.  A late condition of a
\* sealed hour is the one exception the code accepts.
SealedIsExact ==
    InOrder => \A d \in Days :
        {t \in entry[d] : HourOf(t) < SealedFrom(d)}
            = {t \in store \cap TicksOf(d) : HourOf(t) < SealedFrom(d)}

\* A GET of a day shows every condition of that day whose batch the writer had
\* finished when the GET began, whichever of the caches the answer came from:
\* the graph never contradicts an earlier GET condition.  Of the conditions
\* that came late it shows what it can.
ResponseComplete ==
    \A g \in Getters :
        gPc[g] = "done" => gDue[g] \cap onTime \subseteq gRes[g]

\* The slots of one response are read at different moments, yet together they
\* are a snapshot: no condition is missing that is older than one shown.
ResponseIsSnapshot ==
    InOrder => \A g \in Getters : gPc[g] = "done" =>
        \A t \in gRes[g] :
            {u \in store \cap TicksOf(gDay[g]) : u <= t} \subseteq gRes[g]

\* getCachedGraphEntry shares the contents of sealed slots between responses
\* because they never change: a step may seal more, but neither reopens an hour
\* nor alters a sealed slot.
SealedNeverChanges ==
    [][\A d \in Days :
          /\ SealedFrom(d)' >= SealedFrom(d)
          /\ {t \in entry'[d] : HourOf(t) < SealedFrom(d)}
               = {t \in entry[d] : HourOf(t) < SealedFrom(d)}]_vars

\* Every GET is answered and the writer gets through its batch, although all of
\* them keep taking the day locks: no lock order and no waiting writer keeps one
\* of them for ever.
EverythingFinishes ==
    /\ \A g \in Getters : gPc[g] # "idle" ~> gPc[g] = "done"
    /\ wPc # "idle" ~> wPc = "idle"
=============================================================================
