----------------------------- MODULE GraphProofs -----------------------------
(***************************************************************************)
(* Proofs about the graph cache, for any number of GETs, days, hours and   *)
(* ticks: the types, and, for an ISU that has been warmed (Seed # {}),     *)
(* that sealed hours never change and are exact, and that responses are    *)
(* complete snapshots.                                                     *)
(***************************************************************************)
EXTENDS GraphCache, TLAPS, FiniteSetTheorems, NaturalsInduction

\* Where a GET has read a virtual present and not yet made its response.
OpenPcs == {"rlock", "lock", "locking", "seal", "sealed", "open", "look",
            "make", "put"}

\* The types need: a batch is not empty, a GET that seals an hour or looks at
\* the open one has read a present and stays within its day.
Progress(g) ==
    /\ gPc[g] \in OpenPcs => latest # None /\ DayStart(gDay[g]) <= gOpen[g]
    /\ gPc[g] \in {"look", "make", "put"} => gLatest[g] # None
    /\ gPc[g] \in {"seal", "sealAll"} => /\ gRes[g] \subseteq TicksOf(gDay[g])
                                         /\ DayStart(gDay[g]) <= gHour[g]

TypeInv ==
    /\ TypeOK
    /\ wBatch \subseteq store /\ (wPc # "idle" => wBatch # {})
    /\ \A g \in Getters : Progress(g)

\* With a present from the start, none is filled from the row and no GET seals
\* a whole day blindly; who seals holds the day's lock, hence the entry it began with is still the current one.
Below(S, h) == {t \in S : HourOf(t) < h}

Sealing(g) ==
    /\ gPc[g] \notin {"lockAll", "lockingAll", "sealAll"}
    /\ gPc[g] = "seal" =>
          /\ lockW[gDay[g]] = g
          /\ SealedFrom(gDay[g]) < SealUntil(g)
          /\ SealedFrom(gDay[g]) <= gHour[g] /\ gHour[g] <= SealUntil(g)
          /\ Below(gRes[g], SealedFrom(gDay[g]))
                = Below(entry[gDay[g]], SealedFrom(gDay[g]))

SealInv == latest # None /\ fPc = "idle" /\ \A g \in Getters : Sealing(g)

\* Whatever is sealed or open lies no later than a condition in memory, so that
\* a condition on time is not older.  Caches and responses hold conditions that
\* are in memory, and a batch that is finished is in the past.
Reached(h) == \E u \in store : h <= HourOf(u)

Through(g) == IF gItems[g] = {} THEN gLatest[g] ELSE Greatest(gItems[g])

PastMemory ==
    /\ latest \in store
    /\ store = settled \cup wBatch
    /\ \A t \in settled : t <= latest
    /\ wPc = "idle" => wBatch = {}
    /\ wPc = "invalidate" => \A t \in wBatch : t <= latest

PastCache ==
    /\ \A d \in Days : entry[d] \subseteq store
    /\ \A d \in Days : sealed[d] # None => Reached(sealed[d])
    /\ \A e \in openCache : e.items \subseteq store /\ e.through \in store

PastGet(g) ==
    /\ gPc[g] \in OpenPcs => Reached(gOpen[g])
    /\ gRes[g] \subseteq store /\ gItems[g] \subseteq store
    /\ gLatest[g] \in store \cup {None}

PastInv == PastMemory /\ PastCache /\ \A g \in Getters : PastGet(g)

\* What came on time is in every slot that should have it.
Holds(S, d, h) == \A t \in onTime \cap TicksOf(d) : HourOf(t) < h => t \in S

OpenHolds(items, h, through) ==
    /\ \A t \in items : HourOf(t) = h /\ t <= through
    /\ \A t \in onTime : HourOf(t) = h /\ t <= through => t \in items

Answer(g) ==
    /\ gDue[g] \cap onTime \subseteq gRes[g]
    /\ \A t \in gRes[g] : \A u \in onTime \cap TicksOf(gDay[g]) :
          u <= t => u \in gRes[g]

Serving(g) ==
    /\ gDue[g] \subseteq TicksOf(gDay[g])
    /\ gPc[g] \in OpenPcs => \A t \in gDue[g] : HourOf(t) <= gOpen[g]
    /\ gPc[g] \in {"look", "make", "put"} => \A t \in gDue[g] : t <= gLatest[g]
    /\ gPc[g] = "seal" => Holds(gRes[g], gDay[g], gHour[g])
    /\ gPc[g] \in {"sealed", "open", "look", "make", "put"} =>
          Holds(gRes[g], gDay[g], SealUntil(g))
    /\ gPc[g] \in {"open", "look", "make", "put"} => HasOpen(g)
    /\ gPc[g] = "put" => OpenHolds(gItems[g], gOpen[g], Through(g))
    /\ gPc[g] = "put" => \A t \in gDue[g] : HourOf(t) = gOpen[g] => t \in gItems[g]
    /\ gPc[g] \in {"final", "done"} => Answer(g)

ShownCache ==
    /\ \A d \in Days : Holds(entry[d], d, SealedFrom(d))
    /\ \A e \in openCache : OpenHolds(e.items, e.hour, e.through)

ShownInv == ShownCache /\ \A g \in Getters : Serving(g)

----------------------------------------------------------------------------
(* The calendar, and the greatest of a set of ticks.                       *)

\* Hours follow ticks and days follow hours in the same order; a day is the
\* hours from its start to its end.
LEMMA DivFacts ==
    ASSUME NEW m \in Nat, NEW n \in Nat, NEW k \in Nat \ {0}, NEW p \in Nat
    PROVE  /\ m \div k \in Nat
           /\ n <= m => n \div k <= m \div k
           /\ m < p * k => m \div k < p
           /\ m \div k = n <=> n * k <= m /\ m < (n + 1) * k
<1>1. m \div k \in Nat /\ (m \div k) * k <= m /\ m < ((m \div k) + 1) * k
  OBVIOUS
<1>2. n <= m => n \div k <= m \div k
  OBVIOUS
<1>3. m < p * k => m \div k < p
  <2>1. ASSUME NEW q \in Nat, q * k <= m, m < p * k PROVE q < p
    <3>1. q * k < p * k
      BY <2>1
    <3> QED
      BY <3>1
  <2> QED
    BY <2>1, <1>1
<1>4. ASSUME n * k <= m, m < (n + 1) * k PROVE m \div k = n
  BY <1>4
<1> QED
  BY <1>1, <1>2, <1>3, <1>4

LEMMA Constants ==
    /\ NumDays \in Nat /\ 0 < NumDays
    /\ HoursPerDay \in Nat /\ 0 < HoursPerDay
    /\ TicksPerHour \in Nat /\ 0 < TicksPerHour
    /\ NumDays * HoursPerDay \in Nat
    /\ (NumDays * HoursPerDay) * TicksPerHour \in Nat
BY GraphAssumption

LEMMA TickFacts ==
    /\ \A t \in Ticks : t \in Int /\ 0 <= t /\ HourOf(t) \in Hours
    /\ \A s, t \in Ticks : s <= t => HourOf(s) <= HourOf(t)
    /\ 0 \in Ticks
<1> DEFINE Top == NumDays * HoursPerDay
<1>1. Top \in Nat
  BY Constants
<1>2. \A t \in Ticks : t \in Nat /\ t < Top * TicksPerHour
  BY Constants DEF Ticks
<1>3. ASSUME NEW t \in Ticks PROVE HourOf(t) \in Nat /\ HourOf(t) < Top
  <2> HIDE DEF Top
  <2> QED
    BY <1>1, <1>2, Constants, DivFacts DEF HourOf
<1>4. ASSUME NEW s \in Ticks, NEW t \in Ticks, s <= t
      PROVE  HourOf(s) <= HourOf(t)
  BY <1>4, <1>2, Constants, DivFacts DEF HourOf
<1>5. 0 \in Ticks
  <2>1. ASSUME NEW m \in Nat, NEW n \in Nat, 0 < m, 0 < n PROVE 0 < m * n
    BY <2>1
  <2>2. 0 < NumDays * HoursPerDay
    BY <2>1, Constants
  <2>3. 0 < (NumDays * HoursPerDay) * TicksPerHour
    BY <2>1, <2>2, Constants
  <2> QED
    BY <2>3, Constants DEF Ticks
<1> QED
  BY <1>1, <1>2, <1>3, <1>4, <1>5 DEF Hours

LEMMA HourFacts ==
    /\ \A h \in Hours : h \in Int /\ 0 <= h /\ h < NumDays * HoursPerDay
                                   /\ DayOf(h) \in Days
    /\ \A d \in Days : /\ d \in Int /\ DayStart(d) \in Int /\ DayEnd(d) \in Int
                       /\ 0 <= DayStart(d) /\ DayStart(d) < DayEnd(d)
                       /\ DayEnd(d) <= NumDays * HoursPerDay
    /\ \A d \in Days : \A h \in Hours :
          DayOf(h) = d <=> DayStart(d) <= h /\ h < DayEnd(d)
    /\ \A d, e \in Days : d <= e => DayStart(d) <= DayStart(e)
    /\ 0 \in Days /\ 0 \in Hours
<1>1. \A d \in Days : d \in Nat /\ d + 1 <= NumDays
  BY Constants DEF Days
<1>2. \A h \in Hours : h \in Nat /\ h < NumDays * HoursPerDay
  BY Constants DEF Hours
<1>3. ASSUME NEW h \in Hours PROVE DayOf(h) \in Days
  <2>1. DayOf(h) \in Nat /\ DayOf(h) < NumDays
    BY <1>2, Constants, DivFacts DEF DayOf
  <2> QED
    BY <2>1, Constants DEF Days
<1>4. ASSUME NEW d \in Days
      PROVE  /\ DayStart(d) \in Int /\ DayEnd(d) \in Int
             /\ 0 <= DayStart(d) /\ DayStart(d) < DayEnd(d)
             /\ DayEnd(d) <= NumDays * HoursPerDay
  <2>1. ASSUME NEW m \in Nat, NEW n \in Nat, NEW k \in Nat, 0 < k, m + 1 <= n
        PROVE  /\ m * k \in Int /\ (m + 1) * k \in Int /\ 0 <= m * k
               /\ m * k < (m + 1) * k /\ (m + 1) * k <= n * k
    BY <2>1
  <2> QED
    BY <2>1, <1>1, Constants DEF DayStart, DayEnd
<1>5. ASSUME NEW d \in Days, NEW h \in Hours
      PROVE  DayOf(h) = d <=> DayStart(d) <= h /\ h < DayEnd(d)
  BY <1>1, <1>2, Constants, DivFacts DEF DayOf, DayStart, DayEnd
<1>6. ASSUME NEW d \in Days, NEW e \in Days, d <= e
      PROVE  DayStart(d) <= DayStart(e)
  <2>1. ASSUME NEW m \in Nat, NEW n \in Nat, NEW k \in Nat, m <= n
        PROVE  m * k <= n * k
    BY <2>1
  <2> QED
    BY <2>1, <1>1, <1>6, Constants DEF DayStart
<1>7. 0 \in Days
  BY Constants DEF Days
<1>8. 0 \in Hours
  <2>1. 0 < NumDays * HoursPerDay
    BY Constants
  <2> QED
    BY <2>1, Constants DEF Hours
<1> QED
  BY <1>1, <1>2, <1>3, <1>4, <1>5, <1>6, <1>7, <1>8

\* A day is made of the ticks whose hour lies between its start and its end.
LEMMA TicksOfFacts ==
    ASSUME NEW d \in Days
    PROVE  /\ TicksOf(d) \subseteq Ticks
           /\ \A t \in Ticks : t \in TicksOf(d) <=>
                 DayStart(d) <= HourOf(t) /\ HourOf(t) < DayEnd(d)
BY TickFacts, HourFacts DEF TicksOf

LEMMA GreatestFacts ==
    ASSUME NEW S, S \subseteq Ticks, S # {}
    PROVE  Greatest(S) \in S /\ \A t \in S : t <= Greatest(S)
<1> DEFINE Bounds == {n \in Nat : \A t \in S : t <= n}
           Top == (NumDays * HoursPerDay) * TicksPerHour
<1>1. Top \in Nat /\ \A t \in S : t \in Nat /\ t <= Top
  BY Constants DEF Ticks
<1>2. Bounds # {} /\ Bounds \subseteq Nat
  BY <1>1
<1>3. PICK n \in Bounds : \A k \in Bounds : ~(<<k, n>> \in OpToRel(<, Nat))
  BY <1>2, WFMin, NatLessThanWellFounded
<1>4. \A k \in Bounds : ~(k < n)
  BY <1>2, <1>3 DEF OpToRel
<1>5. n \in S
  <2>1. SUFFICES ASSUME n \notin S PROVE FALSE
    OBVIOUS
  <2>2. PICK s \in S : TRUE
    OBVIOUS
  <2>3. \A t \in S : t \in Nat /\ t < n
    BY <2>1, <1>1
  <2>4. n - 1 \in Bounds
    BY <2>2, <2>3
  <2> QED
    BY <2>4, <1>4
<1> QED
  BY <1>5 DEF Greatest

LEMMA LesserFacts ==
    ASSUME NEW m \in Int, NEW n \in Int
    PROVE  /\ Lesser(m, n) \in Int
           /\ Lesser(m, n) <= m /\ Lesser(m, n) <= n
           /\ Lesser(m, n) = m \/ Lesser(m, n) = n
BY DEF Lesser

----------------------------------------------------------------------------
(* Types.                                                                  *)

LEMMA SealedFromFacts ==
    ASSUME TypeOK, NEW d \in Days
    PROVE  /\ SealedFrom(d) \in Int
           /\ DayStart(d) <= SealedFrom(d) /\ SealedFrom(d) <= DayEnd(d)
BY HourFacts DEF TypeOK, SealedFrom, None

\* The hours a batch or a GET seals lie within one day.
LEMMA SealUntilFacts ==
    ASSUME TypeOK, NEW g \in Getters
    PROVE  /\ SealUntil(g) \in Int
           /\ SealUntil(g) <= DayEnd(gDay[g]) /\ SealUntil(g) <= gOpen[g]
           /\ SealUntil(g) = DayEnd(gDay[g]) \/ SealUntil(g) = gOpen[g]
           /\ DayStart(gDay[g]) <= gOpen[g] => DayStart(gDay[g]) <= SealUntil(g)
<1>1. gOpen[g] \in Int
  BY HourFacts DEF TypeOK
<1>2. /\ DayStart(gDay[g]) \in Int /\ DayEnd(gDay[g]) \in Int
      /\ DayStart(gDay[g]) < DayEnd(gDay[g])
  <2>1. gDay[g] \in Days
    BY DEF TypeOK
  <2> QED
    BY <2>1, HourFacts
<1> QED
  BY <1>1, <1>2 DEF SealUntil, Lesser

\* Remade adds to what there was the hours it makes, and drops what else there
\* was of them.
LEMMA RemadeFacts ==
    ASSUME TypeOK, NEW S, S \subseteq Ticks, NEW a \in Int, NEW b \in Int
    PROVE  /\ Remade(S, a, b) \subseteq S \cup store
           /\ \A t \in Ticks :
                 t \in Remade(S, a, b) <=>
                     IF a <= HourOf(t) /\ HourOf(t) < b THEN t \in store
                                                       ELSE t \in S
<1>1. \A t \in Ticks : HourOf(t) \in Int
  BY TickFacts, HourFacts
<1>2. store \subseteq Ticks
  BY DEF TypeOK
<1> QED
  BY <1>1, <1>2 DEF Remade, Hour

LEMMA RemadeInDay ==
    ASSUME TypeOK, NEW d \in Days, NEW S, S \subseteq TicksOf(d),
           NEW a \in Int, NEW b \in Int, DayStart(d) <= a, b <= DayEnd(d)
    PROVE  Remade(S, a, b) \subseteq TicksOf(d)
<1>1. store \subseteq Ticks /\ S \subseteq Ticks
  BY TicksOfFacts DEF TypeOK
<1>2. \A t \in Ticks : HourOf(t) \in Int
  BY TickFacts, HourFacts
<1>3. DayStart(d) \in Int /\ DayEnd(d) \in Int
  BY HourFacts
<1>4. ASSUME NEW t \in Remade(S, a, b) PROVE t \in TicksOf(d)
  <2>1. t \in Ticks
    BY <1>1, RemadeFacts
  <2>2. CASE a <= HourOf(t) /\ HourOf(t) < b
    BY <2>1, <2>2, <1>2, <1>3, TicksOfFacts
  <2>3. CASE ~(a <= HourOf(t) /\ HourOf(t) < b)
    BY <2>1, <2>3, <1>1, RemadeFacts
  <2> QED
    BY <2>2, <2>3
<1> QED
  BY <1>4

LEMMA TypeInvInit == Init => TypeInv
<1> SUFFICES ASSUME Init PROVE TypeInv
  OBVIOUS
<1>1. Seed \subseteq Ticks /\ "nobody" \notin Getters
  BY GraphAssumption
<1>2. latest \in Ticks \cup {None}
  BY <1>1, GreatestFacts DEF Init
<1>3. ASSUME NEW d \in Days
      PROVE  /\ entry[d] \subseteq TicksOf(d)
             /\ sealed[d] \in DayStart(d)..DayEnd(d) \cup {None}
  <2>1. CASE Seed \cap TicksOf(d) = {}
    BY <2>1, <1>1 DEF Init
  <2>2. CASE Seed \cap TicksOf(d) # {}
    <3>1. PICK t \in Seed : t \in TicksOf(d)
      BY <2>2
    <3>2. Greatest(Seed) \in Ticks /\ t <= Greatest(Seed) /\ t \in Ticks
      BY <3>1, <1>1, GreatestFacts
    <3>3. DayStart(d) <= HourOf(t) /\ HourOf(t) <= HourOf(Greatest(Seed))
      BY <3>1, <3>2, TicksOfFacts, TickFacts
    <3>4. HourOf(t) \in Int /\ HourOf(Greatest(Seed)) \in Int
      BY <3>2, TickFacts, HourFacts
    <3>5. DayStart(d) \in Int /\ DayEnd(d) \in Int /\ DayStart(d) < DayEnd(d)
      BY HourFacts
    <3>6. Lesser(DayEnd(d), HourOf(Greatest(Seed))) \in DayStart(d)..DayEnd(d)
      BY <3>3, <3>4, <3>5 DEF Lesser
    <3> QED
      BY <3>6, <2>2 DEF Init
  <2> QED
    BY <2>1, <2>2
<1>4. TypeOK
  <2>1. openCache = {} /\ Cardinality(openCache) <= 1
    BY FS_EmptySet DEF Init
  <2>2. /\ 0 \in Days /\ 0 \in Hours /\ 0 \in 0..(NumDays * HoursPerDay)
        /\ 0 \in Ticks
    BY HourFacts, TickFacts, Constants
  <2>3. entry \in [Days -> SUBSET Ticks]
    BY <1>1 DEF Init
  <2>4. sealed \in [Days -> Int]
    <3>1. \A d \in Days : sealed[d] \in Int
      BY <1>3, HourFacts DEF None
    <3>2. sealed = [d \in Days |-> sealed[d]]
      BY DEF Init
    <3> QED
      BY <3>1, <3>2
  <2> QED
    BY <1>1, <1>2, <1>3, <2>1, <2>2, <2>3, <2>4 DEF Init, TypeOK, NoOne
<1>5. wBatch \subseteq store /\ (wPc # "idle" => wBatch # {})
  BY DEF Init
<1>6. \A g \in Getters : Progress(g)
  BY DEF Init, Progress, OpenPcs
<1> QED
  BY <1>4, <1>5, <1>6 DEF TypeInv

\* What is within its day, for every day, has the type of the cache.
LEMMA CacheTypes ==
    ASSUME TypeOK,
           UNCHANGED cache \/ \E d \in Days : \E S, n :
               /\ entry' = [entry EXCEPT ![d] = S]
               /\ sealed' = [sealed EXCEPT ![d] = n],
           \A d \in Days : /\ entry'[d] \subseteq TicksOf(d)
                          /\ sealed'[d] \in DayStart(d)..DayEnd(d) \cup {None}
    PROVE  entry' \in [Days -> SUBSET Ticks] /\ sealed' \in [Days -> Int]
<1>1. \A d \in Days : entry'[d] \subseteq Ticks /\ sealed'[d] \in Int
  BY TicksOfFacts, HourFacts DEF None
<1>2. /\ entry' = [d \in Days |-> entry'[d]]
      /\ sealed' = [d \in Days |-> sealed'[d]]
  BY DEF TypeOK, cache
<1> QED
  BY <1>1, <1>2

\* The batch has a newest condition, in memory.
LEMMA BatchFacts ==
    ASSUME TypeInv, wPc # "idle"
    PROVE  /\ Greatest(wBatch) \in wBatch /\ Greatest(wBatch) \in Ticks
           /\ HourOf(Greatest(wBatch)) \in Hours
           /\ \A t \in wBatch : t <= Greatest(wBatch)
BY GreatestFacts, TickFacts DEF TypeInv, TypeOK

LEMMA TypeInvAppend ==
    ASSUME TypeInv, NEW S, S \subseteq Ticks, S # {}, Append(S)
    PROVE  TypeInv'
<1> USE DEF Append, TypeInv
<1>1. TypeOK'
  BY DEF TypeOK, filler, cache, locks, getter
<1>2. wBatch' \subseteq store' /\ wBatch' # {}
  OBVIOUS
<1>3. \A g \in Getters : Progress(g)'
  BY DEF Progress, locks, getter
<1> QED
  BY <1>1, <1>2, <1>3

LEMMA TypeInvWriter == ASSUME TypeInv, Writer PROVE TypeInv'
<1> USE DEF TypeInv
<1>1. CASE Compare
  <2> USE <1>1 DEF Compare
  <2>1. wHour' \in Hours
    BY BatchFacts, TickFacts DEF TypeOK
  <2>2. TypeOK'
    BY <2>1 DEF TypeOK, filler, present, cache, locks, getter, history
  <2>3. wBatch' \subseteq store' /\ wBatch' # {}
    BY DEF present
  <2>4. \A g \in Getters : Progress(g)'
    BY DEF Progress, present, getter
  <2> QED
    BY <2>2, <2>3, <2>4
<1>2. CASE AskSealLock
  <2> USE <1>2 DEF AskSealLock
  <2>2. TypeOK'
    BY DEF TypeOK, filler, present, cache, locks, getter, history
  <2>3. wBatch' \subseteq store' /\ wBatch' # {}
    BY DEF present
  <2>4. \A g \in Getters : Progress(g)'
    BY DEF Progress, present, getter
  <2> QED
    BY <2>2, <2>3, <2>4
<1>3. CASE SealDay
  <2> DEFINE d == DayOf(wHour)
             top == HourOf(Greatest(wBatch))
             to == Lesser(top, DayEnd(d))
  <2> USE <1>3 DEF SealDay
  <2>1. wHour \in Hours /\ d \in Days /\ top \in Hours
    BY BatchFacts, HourFacts DEF TypeOK
  <2>2. /\ top \in Int /\ 0 <= top /\ top < NumDays * HoursPerDay
        /\ DayEnd(d) \in Int /\ 0 < DayEnd(d) /\ DayStart(d) \in Int
    BY <2>1, HourFacts
  <2>3. to \in Int /\ to <= DayEnd(d) /\ to <= top /\ 0 <= to
    BY <2>2 DEF Lesser
  <2>4. wHour' \in Hours
    BY <2>2, <2>3, Constants DEF Hours
  <2>6. \A e \in Days : /\ entry'[e] \subseteq TicksOf(e)
                        /\ sealed'[e] \in DayStart(e)..DayEnd(e) \cup {None}
    <3>1. CASE SealedFrom(d) < to
      <4>1. /\ SealedFrom(d) \in Int /\ DayStart(d) <= SealedFrom(d)
        BY <2>1, SealedFromFacts
      <4>2. to \in DayStart(d)..DayEnd(d)
        BY <4>1, <2>2, <2>3, <3>1
      <4>3. Remade(entry[d], SealedFrom(d), to) \subseteq TicksOf(d)
        <5>1. entry[d] \subseteq TicksOf(d)
          BY <2>1 DEF TypeOK
        <5> HIDE DEF d, to
        <5> QED
          BY <5>1, <2>1, <2>3, <4>1, RemadeInDay
      <4>4. /\ entry' = [entry EXCEPT ![d] = Remade(@, SealedFrom(d), to)]
            /\ sealed' = [sealed EXCEPT ![d] = to]
        BY <3>1
      <4>5. \A e \in Days : /\ entry'[e] \subseteq TicksOf(e)
                            /\ sealed'[e] \in DayStart(e)..DayEnd(e) \cup {None}
        <5> HIDE DEF d, to
        <5> QED
          BY <4>2, <4>3, <4>4 DEF TypeOK
      <4> QED
        BY <4>5
    <3>2. CASE ~(SealedFrom(d) < to)
      BY <3>2 DEF cache, TypeOK
    <3> QED
      BY <3>1, <3>2
  <2>7. wPc' \in {"set", "seal"}
    OBVIOUS
  <2>8. UNCHANGED <<present, wBatch, openCache, locks, getter, history>>
    OBVIOUS
  <2>9. TypeOK'
    <3>1. entry' \in [Days -> SUBSET Ticks] /\ sealed' \in [Days -> Int]
      <4>1. UNCHANGED cache \/ \E e \in Days : \E S, n :
                /\ entry' = [entry EXCEPT ![e] = S]
                /\ sealed' = [sealed EXCEPT ![e] = n]
        BY <2>1
      <4> QED
        BY <2>6, <4>1, CacheTypes
    <3> QED
      BY <2>4, <2>6, <2>7, <2>8, <3>1 DEF TypeOK, filler, present, locks, getter, history
  <2>10. wBatch' \subseteq store' /\ wBatch' # {}
    BY DEF present
  <2>11. \A g \in Getters : Progress(g)'
    BY DEF Progress, present, getter
  <2> QED
    BY <2>9, <2>10, <2>11
<1>4. CASE DropLate
  <2> USE <1>4 DEF DropLate, Finished
  <2>2. TypeOK'
    BY DEF TypeOK, filler, present, cache, locks, getter
  <2>3. wBatch' \subseteq store' /\ wPc' = "idle"
    OBVIOUS
  <2>4. \A g \in Getters : Progress(g)'
    BY DEF Progress, present, getter
  <2> QED
    BY <2>2, <2>3, <2>4
<1>5. CASE SetLatest
  <2> USE <1>5 DEF SetLatest
  <2>1. latest' \in Ticks /\ latest' # None
    BY BatchFacts, TickFacts DEF None
  <2>2. TypeOK'
    BY <2>1 DEF TypeOK, filler, cache, locks, getter, history
  <2>3. wBatch' \subseteq store' /\ wBatch' # {}
    OBVIOUS
  <2>4. \A g \in Getters : Progress(g)'
    BY <2>1 DEF Progress, getter
  <2> QED
    BY <2>2, <2>3, <2>4
<1>6. CASE Invalidate
  <2> USE <1>6 DEF Invalidate, Finished
  <2>1. openCache' = {} /\ Cardinality(openCache') <= 1
    BY FS_EmptySet
  <2>2. TypeOK'
    BY <2>1 DEF TypeOK, filler, present, cache, locks, getter
  <2>3. wBatch' \subseteq store' /\ wPc' = "idle"
    OBVIOUS
  <2>4. \A g \in Getters : Progress(g)'
    BY DEF Progress, present, getter
  <2> QED
    BY <2>2, <2>3, <2>4
<1> QED
  BY <1>1, <1>2, <1>3, <1>4, <1>5, <1>6 DEF Writer

\* A GET leaves the other GETs, memory and the writer alone.
LEMMA TypeInvFrame ==
    ASSUME TypeInv, TypeOK', NEW g \in Getters, UNCHANGED <<present, writer>>,
           Progress(g)',
           \A h \in Getters \ {g} : /\ gPc'[h] = gPc[h] /\ gDay'[h] = gDay[h]
                                   /\ gOpen'[h] = gOpen[h] /\ gRes'[h] = gRes[h]
                                   /\ gHour'[h] = gHour[h] /\ gLatest'[h] = gLatest[h]
    PROVE  TypeInv'
<1>1. \A h \in Getters : Progress(h)'
  <2> SUFFICES ASSUME NEW h \in Getters, h # g PROVE Progress(h)'
    OBVIOUS
  <2>1. Progress(h)
    BY DEF TypeInv
  <2> QED
    BY <2>1 DEF Progress, present
<1> QED
  BY <1>1 DEF TypeInv, present, writer

LEMMA TypeInvSeal ==
    ASSUME TypeInv, NEW g \in Getters,
           AskLock(g) \/ LockDay(g) \/ MakeHour(g) \/ PutDay(g)
    PROVE  TypeInv'
<1> DEFINE d == gDay[g]
<1>0. /\ TypeOK /\ Progress(g) /\ d \in Days
      /\ DayStart(d) \in Int /\ DayEnd(d) \in Int /\ 0 <= DayStart(d)
      /\ DayEnd(d) <= NumDays * HoursPerDay /\ NumDays * HoursPerDay \in Int
  BY HourFacts, Constants DEF TypeInv, TypeOK
<1>1. CASE AskLock(g)
  <2> USE <1>1 DEF AskLock, Goto
  <2>1. TypeOK'
    BY <1>0 DEF TypeOK, filler, present, writer, cache, locks, history
  <2>2. Progress(g)'
    BY <1>0 DEF Progress, OpenPcs, present, TypeOK
  <2> QED
    BY <2>1, <2>2, TypeInvFrame DEF TypeInv, TypeOK
<1>2. CASE LockDay(g)
  <2> USE <1>2 DEF LockDay, Goto, Respond
  <2>1. /\ SealedFrom(d) \in Int /\ DayStart(d) <= SealedFrom(d)
        /\ SealedFrom(d) <= DayEnd(d)
    BY <1>0, SealedFromFacts
  <2>2. entry[d] \subseteq TicksOf(d) /\ TicksOf(d) \subseteq Ticks
    BY <1>0, TicksOfFacts DEF TypeOK
  <2>3. gPc[g] \in {"locking", "lockingAll"}
    OBVIOUS
  <2>4. /\ gRes'[g] \subseteq TicksOf(d) /\ DayStart(d) <= gHour'[g]
        /\ gHour'[g] \in 0..(NumDays * HoursPerDay)
    BY <1>0, <2>1, <2>2, <2>3 DEF TypeOK
  <2>5. TypeOK'
    <3>1. gRes' \in [Getters -> SUBSET Ticks]
      BY <1>0, <2>2 DEF TypeOK
    <3>2. gHour' \in [Getters -> 0..(NumDays * HoursPerDay)]
      BY <1>0, <2>4 DEF TypeOK
    <3>3. lockW' \in [Days -> Getters \cup {NoOne}]
      BY <1>0 DEF TypeOK
    <3> QED
      BY <1>0, <3>1, <3>2, <3>3 DEF TypeOK, filler, present, writer, cache, history
  <2>6. Progress(g)'
    BY <1>0, <2>4 DEF Progress, OpenPcs, present, TypeOK
  <2>7. /\ UNCHANGED <<present, writer>>
        /\ \A h \in Getters \ {g} : /\ gPc'[h] = gPc[h] /\ gDay'[h] = gDay[h]
                                   /\ gOpen'[h] = gOpen[h] /\ gRes'[h] = gRes[h]
                                   /\ gHour'[h] = gHour[h] /\ gLatest'[h] = gLatest[h]
    BY <1>0 DEF TypeOK
  <2> QED
    BY <2>5, <2>6, <2>7, TypeInvFrame
<1>3. CASE MakeHour(g)
  <2> USE <1>3 DEF MakeHour, Respond
  <2>1. Limit(g) \in Int /\ Limit(g) <= DayEnd(d)
    BY <1>0, SealUntilFacts DEF Limit
  <2>2. /\ gHour[g] \in Int /\ 0 <= gHour[g] /\ gHour[g] + 1 \in Int
        /\ DayStart(d) <= gHour[g] /\ gHour[g] + 1 <= DayEnd(d)
    BY <1>0, <2>1 DEF TypeOK, Progress
  <2>3. gRes[g] \subseteq TicksOf(d)
    BY <1>0 DEF Progress
  <2>4. Remade(gRes[g], gHour[g], gHour[g] + 1) \subseteq TicksOf(d)
    <3> HIDE DEF d
    <3> QED
      BY <1>0, <2>2, <2>3, RemadeInDay
  <2>5. TypeOK'
    <3>1. TicksOf(d) \subseteq Ticks
      BY <1>0, TicksOfFacts
    <3>2. gRes' \in [Getters -> SUBSET Ticks]
      BY <1>0, <2>4, <3>1 DEF TypeOK
    <3>3. gHour[g] + 1 \in 0..(NumDays * HoursPerDay)
      BY <1>0, <2>2
    <3>4. gHour' \in [Getters -> 0..(NumDays * HoursPerDay)]
      BY <1>0, <3>3 DEF TypeOK
    <3> QED
      BY <1>0, <3>2, <3>4 DEF TypeOK, filler, present, writer, cache, locks, history
  <2>6. Progress(g)'
    BY <1>0, <2>2, <2>4 DEF Progress, OpenPcs, present, TypeOK
  <2> QED
    BY <2>5, <2>6, TypeInvFrame DEF TypeInv, TypeOK
<1>4. CASE PutDay(g)
  <2> USE <1>4 DEF PutDay, Goto, Unlock
  <2>1. \A e \in Days : /\ entry'[e] \subseteq TicksOf(e)
                        /\ sealed'[e] \in DayStart(e)..DayEnd(e) \cup {None}
    <3>1. CASE gPc[g] = "sealed"
      BY <3>1, <1>0 DEF cache, TypeOK
    <3>2. CASE gPc[g] \in {"seal", "sealAll"}
      <4>1. Limit(g) \in DayStart(d)..DayEnd(d)
        BY <1>0, <3>2, SealUntilFacts, HourFacts DEF Limit, Progress, OpenPcs
      <4>2. gRes[g] \subseteq TicksOf(d)
        BY <1>0, <3>2 DEF Progress
      <4>3. /\ entry' = [entry EXCEPT ![d] = gRes[g]]
            /\ sealed' = [sealed EXCEPT ![d] = Limit(g)]
        BY <3>2
      <4> HIDE DEF d
      <4> QED
        BY <1>0, <4>1, <4>2, <4>3 DEF TypeOK
    <3> QED
      BY <3>1, <3>2
  <2>2. TypeOK'
    <3>1. gPc'[g] \in {"open", "final"} /\ gPc' = [gPc EXCEPT ![g] = gPc'[g]]
      BY <1>0 DEF TypeOK
    <3>2. /\ lockW' \in [Days -> Getters \cup {NoOne}]
          /\ lockR' \in [Days -> SUBSET Getters]
      BY <1>0 DEF locks, TypeOK
    <3>3. entry' \in [Days -> SUBSET Ticks] /\ sealed' \in [Days -> Int]
      <4>1. UNCHANGED cache \/ \E e \in Days : \E S, n :
                /\ entry' = [entry EXCEPT ![e] = S]
                /\ sealed' = [sealed EXCEPT ![e] = n]
        BY <1>0
      <4> QED
        BY <1>0, <2>1, <4>1, CacheTypes
    <3> QED
      BY <1>0, <2>1, <3>1, <3>2, <3>3 DEF TypeOK, filler, present, writer, history
  <2>3. Progress(g)'
    BY <1>0 DEF Progress, OpenPcs, present, TypeOK, HasOpen
  <2> QED
    BY <2>2, <2>3, TypeInvFrame DEF TypeInv, TypeOK
<1> QED
  BY <1>1, <1>2, <1>3, <1>4

LEMMA TypeInvRead ==
    ASSUME TypeInv, NEW g \in Getters,
           (\E d \in Days : Get(g, d)) \/ ReadNow(g) \/ ReadEntry(g)
               \/ LookAgain(g) \/ Done(g)
    PROVE  TypeInv'
<1>0. /\ TypeOK /\ Progress(g) /\ gDay[g] \in Days
  BY DEF TypeInv, TypeOK
<1>01. \A d \in Days : entry[d] \subseteq TicksOf(d) /\ entry[d] \subseteq Ticks
  BY <1>0, TicksOfFacts DEF TypeOK
<1>1. ASSUME NEW d \in Days, Get(g, d) PROVE TypeInv'
  <2> USE <1>1 DEF Get, Goto, Respond
  <2>1. gRes' \in [Getters -> SUBSET Ticks]
    BY <1>0, <1>01 DEF TypeOK
  <2>2. gDue' \in [Getters -> SUBSET settled]
    BY <1>0 DEF TypeOK
  <2>3. /\ gPc'[g] \in {"now", "done"} /\ gPc' = [gPc EXCEPT ![g] = gPc'[g]]
    BY <1>0 DEF TypeOK
  <2>4. TypeOK'
    BY <1>0, <2>1, <2>2, <2>3 DEF TypeOK, filler, present, writer, cache, locks
  <2>5. Progress(g)'
    BY <2>3 DEF Progress, OpenPcs
  <2> QED
    BY <1>0, <2>4, <2>5, TypeInvFrame DEF TypeOK
<1>2. CASE ReadNow(g)
  <2> USE <1>2 DEF ReadNow, Goto, Respond
  <2>1. TypeOK'
    <3>1. gRes' \in [Getters -> SUBSET Ticks]
      BY <1>0 DEF TypeOK
    <3>2. gOpen' \in [Getters -> Hours]
      BY <1>0, TickFacts DEF TypeOK
    <3>3. /\ gPc'[g] \in {"lockAll", "final", "rlock"}
          /\ gPc' = [gPc EXCEPT ![g] = gPc'[g]]
      BY <1>0 DEF TypeOK
    <3> QED
      BY <1>0, <3>1, <3>2, <3>3 DEF TypeOK, filler, present, writer, cache, locks, history
  <2>2. Progress(g)'
    <3>1. CASE gPc'[g] = "rlock"
      <4>1. latest # None /\ ~(gDay[g] > DayOf(HourOf(latest)))
                          /\ gOpen'[g] = HourOf(latest)
        BY <1>0, <3>1 DEF TypeOK
      <4>2. HourOf(latest) \in Hours /\ HourOf(latest) \in Int
        BY <1>0, <4>1, TickFacts, HourFacts DEF TypeOK
      <4>3. DayOf(HourOf(latest)) \in Days
        BY <4>2, HourFacts
      <4>4. gDay[g] <= DayOf(HourOf(latest))
        BY <1>0, <4>1, <4>3, HourFacts
      <4>5. DayStart(gDay[g]) <= DayStart(DayOf(HourOf(latest)))
        BY <1>0, <4>3, <4>4, HourFacts
      <4>6. DayStart(DayOf(HourOf(latest))) <= HourOf(latest)
        BY <4>2, <4>3, HourFacts
      <4>7. /\ DayStart(gDay[g]) \in Int
            /\ DayStart(DayOf(HourOf(latest))) \in Int
        BY <1>0, <4>3, HourFacts
      <4>8. DayStart(gDay[g]) <= HourOf(latest)
        BY <4>2, <4>5, <4>6, <4>7
      <4> QED
        BY <3>1, <4>1, <4>8 DEF Progress, present
    <3>2. CASE gPc'[g] \in {"lockAll", "final"}
      BY <3>2 DEF Progress, OpenPcs
    <3> QED
      BY <1>0, <3>1, <3>2 DEF TypeOK
  <2> QED
    BY <1>0, <2>1, <2>2, TypeInvFrame DEF TypeOK
<1>3. CASE ReadEntry(g)
  <2> USE <1>3 DEF ReadEntry, Goto, Respond
  <2>1. TypeOK'
    <3>1. gRes' \in [Getters -> SUBSET Ticks]
      BY <1>0, <1>01 DEF TypeOK
    <3>2. lockR' \in [Days -> SUBSET Getters]
      BY <1>0 DEF TypeOK
    <3>3. /\ gPc'[g] \in {"lock", "open", "final"}
          /\ gPc' = [gPc EXCEPT ![g] = gPc'[g]]
      BY <1>0 DEF TypeOK
    <3> QED
      BY <1>0, <3>1, <3>2, <3>3 DEF TypeOK, filler, present, writer, cache, history
  <2>2. Progress(g)'
    BY <1>0 DEF Progress, OpenPcs, present, TypeOK
  <2> QED
    BY <1>0, <2>1, <2>2, TypeInvFrame DEF TypeOK
<1>4. CASE LookAgain(g)
  <2> USE <1>4 DEF LookAgain, Goto, Respond
  <2>1. gRes' \in [Getters -> SUBSET Ticks]
    BY <1>0, <1>01 DEF TypeOK
  <2>2. TypeOK'
    BY <1>0, <2>1 DEF TypeOK, filler, present, writer, cache, locks, history
  <2>3. Progress(g)'
    BY <1>0 DEF Progress, OpenPcs, TypeOK
  <2> QED
    BY <1>0, <2>2, <2>3, TypeInvFrame DEF TypeOK
<1>5. CASE Done(g)
  <2> USE <1>5 DEF Done, Goto
  <2>1. 0 \in Days /\ 0 \in Hours /\ 0 \in 0..(NumDays * HoursPerDay)
    BY HourFacts, Constants
  <2>2. TypeOK'
    BY <1>0, <2>1 DEF TypeOK, filler, present, writer, cache, locks
  <2>3. Progress(g)'
    BY <1>0 DEF Progress, OpenPcs, TypeOK
  <2> QED
    BY <1>0, <2>2, <2>3, TypeInvFrame DEF TypeOK
<1> QED
  BY <1>1, <1>2, <1>3, <1>4, <1>5

LEMMA TypeInvOpen ==
    ASSUME TypeInv, NEW g \in Getters,
           ReadLatest(g) \/ LookOpen(g) \/ MakeOpen(g) \/ PutOpen(g)
    PROVE  TypeInv'
<1>0. /\ TypeOK /\ Progress(g)
  BY DEF TypeInv
<1>01. ASSUME NEW S, S \subseteq Ticks PROVE WithOpen(g, S) \subseteq Ticks
  BY <1>0, <1>01 DEF WithOpen, TypeOK
<1>1. CASE ReadLatest(g)
  <2> USE <1>1 DEF ReadLatest, Goto
  <2>1. TypeOK'
    BY <1>0 DEF TypeOK, filler, present, writer, cache, locks, history
  <2>2. Progress(g)'
    BY <1>0 DEF Progress, OpenPcs, present, TypeOK
  <2> QED
    BY <1>0, <2>1, <2>2, TypeInvFrame DEF TypeOK
<1>2. CASE LookOpen(g)
  <2> USE <1>2 DEF LookOpen, Goto, Respond
  <2>1. gRes' \in [Getters -> SUBSET Ticks]
    <3>1. \A e \in openCache : e.items \subseteq Ticks
      BY <1>0 DEF TypeOK
    <3> QED
      BY <1>0, <1>01, <3>1 DEF TypeOK
  <2>2. /\ lockW' \in [Days -> Getters \cup {NoOne}]
        /\ lockR' \in [Days -> SUBSET Getters]
    BY <1>0 DEF locks, Unlock, TypeOK
  <2>3. gPc'[g] \in {"final", "make"} /\ gPc' = [gPc EXCEPT ![g] = gPc'[g]]
    BY <1>0 DEF TypeOK
  <2>4. TypeOK'
    BY <1>0, <2>1, <2>2, <2>3 DEF TypeOK, filler, present, writer, cache, history
  <2>5. Progress(g)'
    BY <1>0, <2>3 DEF Progress, OpenPcs, present, TypeOK
  <2> QED
    BY <1>0, <2>4, <2>5, TypeInvFrame DEF TypeOK
<1>3. CASE MakeOpen(g)
  <2> USE <1>3 DEF MakeOpen, Goto
  <2>1. Hour(gOpen[g]) \subseteq Ticks
    BY <1>0 DEF Hour, TypeOK
  <2>2. TypeOK'
    BY <1>0, <2>1 DEF TypeOK, filler, present, writer, cache, locks, history
  <2>3. Progress(g)'
    BY <1>0 DEF Progress, OpenPcs, present, TypeOK
  <2> QED
    BY <1>0, <2>2, <2>3, TypeInvFrame DEF TypeOK
<1>4. CASE PutOpen(g)
  <2> USE <1>4 DEF PutOpen, Goto, Respond
  <2>1. Through(g) \in Ticks /\ gItems[g] \subseteq Ticks /\ gOpen[g] \in Hours
    BY <1>0, GreatestFacts DEF Through, Progress, TypeOK
  <2>2. PICK e : openCache' = {e} /\ e = [hour |-> gOpen[g],
                                        through |-> Through(g), items |-> gItems[g]]
    BY DEF Through
  <2>3. /\ openCache' \subseteq [hour : Hours, through : Ticks, items : SUBSET Ticks]
        /\ Cardinality(openCache') <= 1
    <3>1. Cardinality(openCache') = 1
      BY <2>2, FS_Singleton
    <3> QED
      BY <2>1, <2>2, <3>1
  <2>4. gRes' \in [Getters -> SUBSET Ticks]
    BY <1>0, <1>01, <2>1 DEF TypeOK
  <2>5. /\ lockW' \in [Days -> Getters \cup {NoOne}]
        /\ lockR' \in [Days -> SUBSET Getters]
    BY <1>0 DEF Unlock, TypeOK
  <2>6. TypeOK'
    BY <1>0, <2>3, <2>4, <2>5 DEF TypeOK, filler, present, writer, cache, history
  <2>7. Progress(g)'
    BY <1>0 DEF Progress, OpenPcs, TypeOK
  <2> QED
    BY <1>0, <2>6, <2>7, TypeInvFrame DEF TypeOK
<1> QED
  BY <1>1, <1>2, <1>3, <1>4

LEMMA RequestFacts == \A S \in Requests : S \subseteq Ticks /\ S # {}
BY GraphAssumption DEF Requests

LEMMA TypeInvFiller == ASSUME TypeInv, Filler PROVE TypeInv'
<1> USE DEF TypeInv
<1>1. ASSUME NEW t \in RowLatest, FillLook(t) PROVE TypeInv'
  <2> USE <1>1 DEF FillLook
  <2>1. t \in Ticks
    BY GraphAssumption
  <2>2. TypeOK'
    BY <2>1 DEF TypeOK, present, writer, cache, locks, getter, history
  <2>3. \A g \in Getters : Progress(g)'
    BY DEF Progress, present, getter
  <2> QED
    BY <2>2, <2>3 DEF present, writer
<1>2. CASE FillSet
  <2> USE <1>2 DEF FillSet
  <2>1. latest' \in Ticks \cup {None} /\ (latest # None => latest' # None)
    BY TickFacts DEF TypeOK, None
  <2>2. TypeOK'
    BY <2>1, TickFacts DEF TypeOK, writer, cache, locks, getter, history
  <2>3. \A g \in Getters : Progress(g)'
    BY <2>1 DEF Progress, getter
  <2> QED
    BY <2>2, <2>3 DEF writer
<1>3. CASE FillInvalidate
  <2> USE <1>3 DEF FillInvalidate
  <2>1. openCache' = {} /\ Cardinality(openCache') <= 1
    BY FS_EmptySet
  <2>2. TypeOK'
    BY <2>1 DEF TypeOK, present, writer, cache, locks, getter, history
  <2>3. \A g \in Getters : Progress(g)'
    BY DEF Progress, present, getter
  <2> QED
    BY <2>2, <2>3 DEF present, writer
<1> QED
  BY <1>1, <1>2, <1>3 DEF Filler

LEMMA TypeInvNext == ASSUME TypeInv, [Next]_vars PROVE TypeInv'
<1>1. CASE UNCHANGED vars
  <2> USE <1>1 DEF vars, present, writer, cache, locks, getter, filler, history
  <2>1. TypeOK'
    BY DEF TypeInv, TypeOK
  <2>2. \A g \in Getters : Progress(g)'
    BY DEF TypeInv, Progress
  <2> QED
    BY <2>1, <2>2 DEF TypeInv
<1>2. ASSUME NEW S \in Requests, Append(S) PROVE TypeInv'
  BY <1>2, RequestFacts, TypeInvAppend
<1>3. CASE Writer
  BY <1>3, TypeInvWriter
<1>4. ASSUME NEW g \in Getters, Serve(g) PROVE TypeInv'
  BY <1>4, TypeInvRead, TypeInvSeal, TypeInvOpen DEF Serve
<1>5. ASSUME NEW g \in Getters, NEW d \in Days, Get(g, d) PROVE TypeInv'
  BY <1>5, TypeInvRead
<1>6. CASE Filler
  BY <1>6, TypeInvFiller
<1> QED
  BY <1>1, <1>2, <1>3, <1>4, <1>5, <1>6 DEF Next

LEMMA TypeInvariant == Spec => []TypeInv
<1> QED
  BY TypeInvInit, TypeInvNext, PTL DEF Spec

\* TypeOK holds for every calendar, set of GETs and seed: in particular sealing
\* never leaves its day, and an open-hour entry is marked with a timestamp.
THEOREM GraphTypeCorrect == Spec => []TypeOK
<1>1. TypeInv => TypeOK
  BY DEF TypeInv
<1> QED
  BY <1>1, TypeInvariant, PTL

----------------------------------------------------------------------------
(* Sealed hours never change.                                              *)

SameGet(g) ==
    /\ gPc'[g] = gPc[g] /\ gDay'[g] = gDay[g] /\ gOpen'[g] = gOpen[g]
    /\ gRes'[g] = gRes[g] /\ gHour'[g] = gHour[g]

SameDay(d) == lockW'[d] = lockW[d] /\ sealed'[d] = sealed[d] /\ entry'[d] = entry[d]

LEMMA SealingFrame ==
    ASSUME NEW g \in Getters, Sealing(g), SameGet(g),
           gPc[g] = "seal" => SameDay(gDay[g])
    PROVE  Sealing(g)'
BY DEF Sealing, SameGet, SameDay, SealedFrom, SealUntil, Below

\* Steps that leave locks and cache alone.
LEMMA SealInvFrame ==
    ASSUME SealInv, latest' # None, UNCHANGED <<cache, lockW, fPc>>,
           \A g \in Getters : SameGet(g) \/ Sealing(g)'
    PROVE  SealInv'
<1>1. ASSUME NEW g \in Getters, SameGet(g) PROVE Sealing(g)'
  BY <1>1, SealingFrame DEF SealInv, SameDay, cache
<1> QED
  BY <1>1 DEF SealInv

LEMMA SealInvInit == ASSUME Seed # {}, Init PROVE SealInv
<1>1. latest # None
  BY GraphAssumption, GreatestFacts, TickFacts DEF Init, None
<1>2. \A g \in Getters : Sealing(g)
  BY DEF Init, Sealing
<1> QED
  BY <1>1, <1>2 DEF SealInv, Init

\* A present is only filled in where there is none.
LEMMA NothingToFill == ASSUME SealInv PROVE ~Filler
BY DEF SealInv, Filler, FillLook, FillSet, FillInvalidate

LEMMA SealInvWriter ==
    ASSUME TypeInv, SealInv, (\E S \in Requests : Append(S)) \/ Writer
    PROVE  SealInv'
<1>0. \A g \in Getters : Sealing(g)
  BY DEF SealInv
<1>1. CASE ~SealDay
  <2>1. latest' # None
    BY <1>1, BatchFacts, TickFacts DEF SealInv, Append, Writer, Compare,
       AskSealLock, DropLate, SetLatest, Invalidate, present, None
  <2>2. UNCHANGED <<cache, lockW, getter, fPc>>
    BY <1>1 DEF Append, Writer, Compare, AskSealLock, DropLate, SetLatest,
       Invalidate, locks, filler
  <2> QED
    BY <2>1, <2>2, SealInvFrame DEF SameGet, getter
<1>2. CASE SealDay
  <2> DEFINE d == DayOf(wHour)
  <2>1. lockW[d] = NoOne /\ UNCHANGED <<present, locks, getter, fPc>>
    BY <1>2 DEF SealDay, filler
  <2>2. \A e \in Days \ {d} : sealed'[e] = sealed[e] /\ entry'[e] = entry[e]
    BY <1>2 DEF SealDay, TypeInv, TypeOK, cache
  <2>3. ASSUME NEW g \in Getters, gPc[g] = "seal" PROVE SameDay(gDay[g])
    <3>1. lockW[gDay[g]] = g /\ g # NoOne /\ gDay[g] \in Days
      BY <1>0, <2>3, GraphAssumption DEF Sealing, NoOne, TypeInv, TypeOK
    <3>2. gDay[g] # d
      BY <3>1, <2>1
    <3> QED
      BY <3>1, <3>2, <2>1, <2>2 DEF SameDay, locks
  <2>4. \A g \in Getters : Sealing(g)'
    BY <1>0, <2>1, <2>3, SealingFrame DEF SameGet, getter
  <2> QED
    BY <2>1, <2>4 DEF SealInv, present
<1> QED
  BY <1>1, <1>2

\* The day's lock is only ever taken over from nobody and given back by its
\* holder.
LEMMA LockFrame ==
    ASSUME TypeInv, NEW g \in Getters, NEW h \in Getters, h # g,
           lockW[gDay[h]] = h,
           LockDay(g) \/ UNCHANGED lockW \/ Unlock(g)
    PROVE  lockW'[gDay[h]] = h
<1>1. gDay[h] \in Days /\ h # NoOne /\ gDay[g] \in Days
  BY GraphAssumption DEF TypeInv, TypeOK, NoOne
<1> QED
  BY <1>1 DEF LockDay, Unlock, TypeInv, TypeOK

LEMMA SealInvServe ==
    ASSUME TypeInv, SealInv, NEW g \in Getters,
           Serve(g) \/ \E d \in Days : Get(g, d)
    PROVE  SealInv'
<1>0. /\ TypeOK /\ Progress(g) /\ Sealing(g) /\ gDay[g] \in Days /\ latest # None
      /\ \A h \in Getters : Sealing(h)
  BY DEF TypeInv, TypeOK, SealInv
<1>1. latest' # None /\ fPc' = fPc
  BY <1>0 DEF Serve, ReadNow, ReadEntry, AskLock, LockDay, MakeHour, PutDay,
     ReadLatest, LookOpen, MakeOpen, PutOpen, LookAgain, Done, Get, present, filler
<1>2. LockDay(g) \/ UNCHANGED lockW \/ Unlock(g)
  BY DEF Serve, ReadNow, ReadEntry, AskLock, MakeHour, PutDay,
     ReadLatest, LookOpen, MakeOpen, PutOpen, LookAgain, Done, Get, locks
<1>3. ASSUME NEW h \in Getters, h # g PROVE SameGet(h)
  BY <1>0, <1>3 DEF TypeOK, Serve, ReadNow, ReadEntry, AskLock, LockDay, MakeHour,
     PutDay, ReadLatest, LookOpen, MakeOpen, PutOpen, LookAgain, Done, Get,
     SameGet, Goto, Respond
<1>4. ASSUME NEW h \in Getters, h # g, gPc[h] = "seal" PROVE SameDay(gDay[h])
  <2>1. lockW[gDay[h]] = h /\ gDay[h] \in Days
    BY <1>0, <1>4 DEF Sealing, TypeOK
  <2>2. lockW'[gDay[h]] = h
    BY <1>2, <1>4, <2>1, LockFrame
  <2>3. CASE PutDay(g) /\ gPc[g] = "seal"
    <3>1. gDay[g] # gDay[h]
      BY <1>0, <1>4, <2>1, <2>3 DEF Sealing
    <3> QED
      BY <1>0, <2>1, <2>2, <2>3, <3>1 DEF PutDay, SameDay, TypeOK
  <2>4. CASE ~(PutDay(g) /\ gPc[g] = "seal")
    <3>1. UNCHANGED cache
      BY <1>0, <2>4 DEF Sealing, Serve, ReadNow, ReadEntry, AskLock, LockDay,
         MakeHour, PutDay, ReadLatest, LookOpen, MakeOpen, PutOpen, LookAgain,
         Done, Get
    <3> QED
      BY <2>1, <2>2, <3>1 DEF SameDay, cache
  <2> QED
    BY <2>3, <2>4
<1>5. Sealing(g)'
  <2>1. CASE LockDay(g)
    <3> DEFINE d == gDay[g]
    <3>1. gPc[g] = "locking"
      BY <1>0, <2>1 DEF LockDay, Sealing
    <3>2. /\ gPc'[g] \in {"seal", "sealed"} /\ gRes'[g] = IF sealed[d] = None THEN {} ELSE entry[d]
          /\ gHour'[g] = SealedFrom(d) /\ lockW'[d] = g
          /\ gPc'[g] = "seal" => SealedFrom(d) < SealUntil(g)
          /\ gDay' = gDay /\ gOpen' = gOpen /\ UNCHANGED cache
      BY <1>0, <2>1, <3>1 DEF LockDay, Goto, Respond, TypeOK
    <3>3. /\ SealedFrom(d) \in Int /\ SealUntil(g) \in Int
      BY <1>0, SealedFromFacts, SealUntilFacts
    <3>4. Below(gRes'[g], SealedFrom(d)) = Below(entry[d], SealedFrom(d))
      <4>1. CASE sealed[d] # None
        BY <3>2, <4>1
      <4>2. CASE sealed[d] = None
        <5>1. \A t \in entry[d] : HourOf(t) \in Int /\ DayStart(d) <= HourOf(t)
          BY <1>0, TicksOfFacts, TickFacts, HourFacts DEF TypeOK
        <5>2. SealedFrom(d) = DayStart(d) /\ DayStart(d) \in Int
          BY <1>0, <4>2, HourFacts DEF SealedFrom
        <5> QED
          BY <3>2, <4>2, <5>1, <5>2 DEF Below
      <4> QED
        BY <4>1, <4>2
    <3>5. SealedFrom(d)' = SealedFrom(d) /\ SealUntil(g)' = SealUntil(g)
      BY <3>2 DEF SealedFrom, SealUntil, cache
    <3> QED
      BY <3>2, <3>3, <3>4, <3>5 DEF Sealing, cache
  <2>2. CASE MakeHour(g)
    <3> DEFINE d == gDay[g]
    <3>1. /\ gPc[g] = "seal" /\ gHour[g] < SealUntil(g)
      BY <1>0, <2>2 DEF MakeHour, Sealing, Limit
    <3>2. /\ gPc' = gPc /\ gDay' = gDay /\ gOpen' = gOpen /\ UNCHANGED <<cache, locks>>
          /\ gRes'[g] = Remade(gRes[g], gHour[g], gHour[g] + 1)
          /\ gHour'[g] = gHour[g] + 1
      BY <1>0, <2>2 DEF MakeHour, Respond, TypeOK
    <3>3. /\ SealedFrom(d) \in Int /\ SealUntil(g) \in Int /\ gHour[g] \in Int
          /\ SealedFrom(d) <= gHour[g] /\ SealedFrom(d) < SealUntil(g)
          /\ lockW[d] = g
          /\ Below(gRes[g], SealedFrom(d)) = Below(entry[d], SealedFrom(d))
      BY <1>0, <3>1, SealedFromFacts, SealUntilFacts DEF Sealing, TypeOK
    <3>4. Below(gRes'[g], SealedFrom(d)) = Below(gRes[g], SealedFrom(d))
      <4>1. gRes[g] \subseteq Ticks /\ gRes'[g] \subseteq Ticks
        BY <1>0, <2>2, TypeInvSeal DEF TypeInv, TypeOK
      <4>2. \A t \in Ticks : HourOf(t) \in Int
        BY TickFacts, HourFacts
      <4>3. \A t \in Ticks : HourOf(t) < SealedFrom(d) =>
                (t \in gRes'[g] <=> t \in gRes[g])
        BY <1>0, <3>2, <3>3, <4>1, <4>2, RemadeFacts
      <4> QED
        BY <4>1, <4>3 DEF Below
    <3>5. SealedFrom(d)' = SealedFrom(d) /\ SealUntil(g)' = SealUntil(g)
      BY <3>2 DEF SealedFrom, SealUntil, cache
    <3> QED
      BY <3>1, <3>2, <3>3, <3>4, <3>5 DEF Sealing, cache, locks
  <2>3. CASE ~LockDay(g) /\ ~MakeHour(g)
    BY <1>0, <2>3 DEF Sealing, Serve, ReadNow, ReadEntry, AskLock, PutDay,
       ReadLatest, LookOpen, MakeOpen, PutOpen, LookAgain, Done, Get, Goto, TypeOK
  <2> QED
    BY <2>1, <2>2, <2>3
<1>6. ASSUME NEW h \in Getters, h # g PROVE Sealing(h)'
  BY <1>0, <1>3, <1>4, <1>6, SealingFrame
<1> QED
  BY <1>1, <1>5, <1>6 DEF SealInv

LEMMA SealInvNext == ASSUME TypeInv, SealInv, [Next]_vars PROVE SealInv'
<1>1. CASE UNCHANGED vars
  BY <1>1, SealInvFrame DEF vars, present, cache, locks, getter, filler, SameGet,
     SealInv
<1> QED
  BY <1>1, NothingToFill, SealInvWriter, SealInvServe DEF Next

LEMMA StepKeepsSealed ==
    ASSUME TypeInv, TypeInv', SealInv, [Next]_vars, NEW d \in Days
    PROVE  /\ SealedFrom(d)' >= SealedFrom(d)
           /\ Below(entry'[d], SealedFrom(d)) = Below(entry[d], SealedFrom(d))
<1>0. /\ TypeOK /\ SealedFrom(d) \in Int
      /\ DayStart(d) <= SealedFrom(d) /\ SealedFrom(d) <= DayEnd(d)
  BY SealedFromFacts DEF TypeInv
<1>1. CASE sealed'[d] = sealed[d] /\ entry'[d] = entry[d]
  BY <1>0, <1>1 DEF SealedFrom
<1>2. CASE SealDay /\ DayOf(wHour) = d
  <2> DEFINE to == Lesser(HourOf(Greatest(wBatch)), DayEnd(d))
  <2>1. CASE SealedFrom(d) < to
    <3>1. /\ HourOf(Greatest(wBatch)) \in Int /\ DayEnd(d) \in Int /\ to \in Int
      BY <1>2, BatchFacts, HourFacts DEF SealDay, Lesser
    <3>2. entry'[d] = Remade(entry[d], SealedFrom(d), to) /\ sealed'[d] = to
      BY <1>0, <1>2, <2>1 DEF SealDay, TypeOK
    <3>3. to # None
      BY <1>0, <2>1, HourFacts DEF None
    <3>4. SealedFrom(d)' = to
      BY <3>2, <3>3 DEF SealedFrom
    <3>5. entry[d] \subseteq Ticks /\ entry'[d] \subseteq Ticks
      BY DEF TypeInv, TypeOK
    <3>6. \A t \in Ticks : HourOf(t) \in Int
      BY TickFacts, HourFacts
    <3>7. \A t \in Ticks : HourOf(t) < SealedFrom(d) =>
              (t \in entry'[d] <=> t \in entry[d])
      <4> HIDE DEF to
      <4> QED
        BY <1>0, <3>1, <3>2, <3>5, <3>6, RemadeFacts
    <3> QED
      BY <1>0, <2>1, <3>1, <3>4, <3>5, <3>7 DEF Below
  <2>2. CASE ~(SealedFrom(d) < to)
    BY <1>1, <1>2, <2>2 DEF SealDay, cache
  <2> QED
    BY <2>1, <2>2
<1>3. ASSUME NEW g \in Getters, PutDay(g), gPc[g] = "seal", gDay[g] = d
      PROVE  /\ SealedFrom(d)' >= SealedFrom(d)
             /\ Below(entry'[d], SealedFrom(d)) = Below(entry[d], SealedFrom(d))
  <2>1. entry'[d] = gRes[g] /\ sealed'[d] = SealUntil(g)
    BY <1>0, <1>3 DEF PutDay, Limit, TypeOK
  <2>2. /\ SealedFrom(d) < SealUntil(g) /\ SealUntil(g) \in Int
        /\ Below(gRes[g], SealedFrom(d)) = Below(entry[d], SealedFrom(d))
    BY <1>0, <1>3, SealUntilFacts DEF SealInv, Sealing
  <2>3. SealUntil(g) # None
    BY <1>0, <2>2, HourFacts DEF None
  <2> QED
    BY <1>0, <2>1, <2>2, <2>3 DEF SealedFrom
<1>4. \/ sealed'[d] = sealed[d] /\ entry'[d] = entry[d]
      \/ SealDay /\ DayOf(wHour) = d
      \/ \E g \in Getters : PutDay(g) /\ gPc[g] = "seal" /\ gDay[g] = d
  <2>1. CASE SealDay
    BY <1>0, <2>1 DEF SealDay, TypeOK, cache
  <2>2. ASSUME NEW g \in Getters, PutDay(g) PROVE <1>4
    <3>1. gPc[g] \in {"seal", "sealed"}
      BY <2>2 DEF PutDay, SealInv, Sealing
    <3>2. CASE gPc[g] = "sealed"
      BY <2>2, <3>2 DEF PutDay, cache
    <3>3. CASE gPc[g] = "seal"
      BY <1>0, <2>2, <3>3 DEF PutDay, TypeOK
    <3> QED
      BY <3>1, <3>2, <3>3
  <2>3. CASE ~SealDay /\ \A g \in Getters : ~PutDay(g)
    <3>1. UNCHANGED cache
      BY <2>3, NothingToFill DEF Next, vars, Append, Writer, Compare, AskSealLock, DropLate,
         SetLatest, Invalidate, Serve, ReadNow, ReadEntry, AskLock, LockDay,
         MakeHour, ReadLatest, LookOpen, MakeOpen, PutOpen, LookAgain, Done, Get
    <3> QED
      BY <3>1 DEF cache
  <2> QED
    BY <2>1, <2>2, <2>3
<1> QED
  BY <1>1, <1>2, <1>3, <1>4

\* For an ISU that is warmed, no step of the writer or of any number of GETs
\* reopens a sealed hour or alters its slot, late conditions included: responses
\* may share it.
THEOREM GraphSealedNeverChanges == ASSUME Seed # {} PROVE Spec => SealedNeverChanges
<1>1. Init => SealInv
  BY SealInvInit
<1>2. TypeInv /\ SealInv /\ [Next]_vars => SealInv'
  BY SealInvNext
<1>3. TypeInv /\ TypeInv' /\ SealInv /\ [Next]_vars =>
          [\A d \in Days :
              /\ SealedFrom(d)' >= SealedFrom(d)
              /\ {t \in entry'[d] : HourOf(t) < SealedFrom(d)}
                   = {t \in entry[d] : HourOf(t) < SealedFrom(d)}]_vars
  BY StepKeepsSealed DEF Below
<1> QED
  BY <1>1, <1>2, <1>3, TypeInvariant, PTL DEF Spec, SealedNeverChanges

----------------------------------------------------------------------------
(* Caches and responses hold what is in memory, and lag behind it.         *)

LEMMA PastInvInit == ASSUME Seed # {}, Init PROVE PastInv
<1>1. Seed \subseteq Ticks
  BY GraphAssumption
<1>2. latest = Greatest(Seed) /\ latest \in store /\ latest \in Ticks
      /\ \A t \in store : t <= latest
  BY <1>1, GreatestFacts DEF Init
<1>3. PastMemory
  BY <1>2 DEF Init, PastMemory
<1>4. ASSUME NEW d \in Days, sealed[d] # None PROVE Reached(sealed[d])
  <2>1. sealed[d] = Lesser(DayEnd(d), HourOf(latest))
    BY <1>2, <1>4 DEF Init
  <2>2. /\ DayEnd(d) \in Int /\ HourOf(latest) \in Int
    BY <1>2, TickFacts, HourFacts
  <2> QED
    BY <1>2, <2>1, <2>2 DEF Reached, Lesser
<1>5. PastCache
  BY <1>4 DEF Init, PastCache
<1>6. \A g \in Getters : PastGet(g)
  BY DEF Init, PastGet, OpenPcs
<1> QED
  BY <1>3, <1>5, <1>6 DEF PastInv

LEMMA PastInvWriter ==
    ASSUME TypeInv, PastInv, (\E S \in Requests : Append(S)) \/ Writer
    PROVE  PastInv'
<1>1. store \subseteq store' /\ UNCHANGED getter
  BY DEF Append, Writer, Compare, AskSealLock, SealDay, DropLate, SetLatest,
     Invalidate, present
<1>2. \A g \in Getters : PastGet(g)'
  BY <1>1 DEF PastInv, PastGet, Reached, getter
<1>3. PastMemory'
  <2> USE DEF PastMemory
  <2>0. PastMemory /\ store \subseteq Ticks /\ wBatch \subseteq store
        /\ latest \in Ticks
    BY DEF PastInv, TypeInv, TypeOK
  <2>1. ASSUME NEW S \in Requests, Append(S) PROVE PastMemory'
    BY <2>0, <2>1 DEF Append
  <2>2. CASE Compare
    BY <2>0, <2>2 DEF Compare, present, history
  <2>3. CASE AskSealLock
    BY <2>0, <2>3 DEF AskSealLock, present, history
  <2>4. CASE SealDay
    BY <2>0, <2>4 DEF SealDay, present, history
  <2>5. CASE DropLate
    <3>1. /\ wPc = "set" /\ Greatest(wBatch) < latest /\ UNCHANGED present
          /\ wPc' = "idle" /\ wBatch' = {} /\ settled' = store
      BY <2>5 DEF DropLate, Finished
    <3>2. \A t \in wBatch : t <= latest
      <4>1. /\ Greatest(wBatch) \in Int /\ latest \in Int
            /\ \A t \in wBatch : t \in Int /\ t <= Greatest(wBatch)
        BY <2>0, <3>1, BatchFacts, TickFacts
      <4> QED
        BY <3>1, <4>1
    <3> QED
      BY <2>0, <3>1, <3>2 DEF present
  <2>6. CASE SetLatest
    <3>1. /\ wPc = "set" /\ (latest = None \/ latest <= Greatest(wBatch))
          /\ latest' = Greatest(wBatch) /\ wPc' = "invalidate"
          /\ UNCHANGED <<store, wBatch, history>>
      BY <2>6 DEF SetLatest
    <3>2. /\ Greatest(wBatch) \in wBatch /\ Greatest(wBatch) \in Int
          /\ \A t \in wBatch : t <= Greatest(wBatch)
      BY <3>1, BatchFacts, TickFacts
    <3>3. latest \in Int /\ latest # None /\ \A t \in settled : t \in Int
      BY <2>0, TickFacts DEF None
    <3>4. \A t \in settled : t <= Greatest(wBatch)
      BY <2>0, <3>1, <3>2, <3>3
    <3> QED
      BY <2>0, <3>1, <3>2, <3>4 DEF history
  <2>7. CASE Invalidate
    BY <2>0, <2>7 DEF Invalidate, Finished, present
  <2> QED
    BY <2>1, <2>2, <2>3, <2>4, <2>5, <2>6, <2>7 DEF Writer
<1>4. PastCache'
  <2>1. CASE ~SealDay
    <3>1. UNCHANGED cache /\ openCache' \subseteq openCache
      BY <2>1 DEF Append, Writer, Compare, AskSealLock, DropLate, SetLatest,
         Invalidate
    <3> QED
      BY <1>1, <3>1 DEF PastInv, PastCache, Reached, cache
  <2>2. CASE SealDay
    <3> DEFINE d == DayOf(wHour)
               top == HourOf(Greatest(wBatch))
               to == Lesser(top, DayEnd(d))
    <3>1. UNCHANGED <<present, openCache>> /\ wPc = "sealing"
      BY <2>2 DEF SealDay
    <3>2. /\ Greatest(wBatch) \in store /\ top \in Int /\ DayEnd(d) \in Int
          /\ d \in Days /\ to \in Int /\ to <= top
      <4>1. wHour \in Hours
        BY DEF TypeInv, TypeOK
      <4> QED
        BY <4>1, <3>1, BatchFacts, HourFacts DEF TypeInv, Lesser
    <3>3. CASE SealedFrom(d) < to
      <4>1. /\ entry' = [entry EXCEPT ![d] = Remade(@, SealedFrom(d), to)]
            /\ sealed' = [sealed EXCEPT ![d] = to]
        BY <2>2, <3>3 DEF SealDay
      <4>2. Remade(entry[d], SealedFrom(d), to) \subseteq store
        <5>1. entry[d] \subseteq store /\ entry[d] \subseteq Ticks
          BY <3>2 DEF PastInv, PastCache, TypeInv, TypeOK
        <5>2. SealedFrom(d) \in Int /\ TypeOK
          BY <3>2, SealedFromFacts DEF TypeInv
        <5> HIDE DEF d, to
        <5> QED
          BY <3>2, <5>1, <5>2, RemadeFacts
      <4>3. Reached(to)
        BY <3>2 DEF Reached
      <4> HIDE DEF d, to
      <4>4. \A e \in Days : entry'[e] \subseteq store
        BY <3>2, <4>1, <4>2 DEF PastInv, PastCache, TypeInv, TypeOK
      <4>5. \A e \in Days : sealed'[e] # None => Reached(sealed'[e])
        BY <3>2, <4>1, <4>3 DEF PastInv, PastCache, TypeInv, TypeOK
      <4> QED
        BY <3>1, <4>4, <4>5 DEF PastInv, PastCache, Reached, present
    <3>4. CASE ~(SealedFrom(d) < to)
      BY <2>2, <3>1, <3>4 DEF SealDay, PastInv, PastCache, Reached, cache, present
    <3> QED
      BY <3>3, <3>4
  <2> QED
    BY <2>1, <2>2
<1> QED
  BY <1>2, <1>3, <1>4 DEF PastInv

LEMMA PastInvServe ==
    ASSUME TypeInv, SealInv, PastInv, NEW g \in Getters,
           Serve(g) \/ \E d \in Days : Get(g, d)
    PROVE  PastInv'
<1>0. /\ TypeOK /\ Progress(g) /\ Sealing(g) /\ gDay[g] \in Days /\ latest # None
      /\ PastMemory /\ PastCache /\ PastGet(g)
      /\ store \subseteq Ticks /\ latest \in store
  BY DEF TypeInv, TypeOK, SealInv, PastInv, PastMemory
<1>1. UNCHANGED <<present, writer, settled>>
  BY DEF Serve, ReadNow, ReadEntry, AskLock, LockDay, MakeHour, PutDay,
     ReadLatest, LookOpen, MakeOpen, PutOpen, LookAgain, Done, Get, history
<1>2. PastMemory'
  BY <1>0, <1>1 DEF PastMemory, present, writer
<1>3. PastCache'
  <2>1. CASE PutDay(g) /\ gPc[g] = "seal"
    <3> DEFINE d == gDay[g]
    <3>1. /\ entry' = [entry EXCEPT ![d] = gRes[g]]
          /\ sealed' = [sealed EXCEPT ![d] = SealUntil(g)]
          /\ openCache' = openCache
      BY <2>1 DEF PutDay, Limit
    <3>2. SealUntil(g) \in Int /\ SealUntil(g) <= gOpen[g] /\ gOpen[g] \in Int
      BY <1>0, SealUntilFacts, HourFacts DEF TypeOK
    <3>3. Reached(gOpen[g])
      BY <1>0, <2>1 DEF PastGet, OpenPcs
    <3>4. Reached(SealUntil(g))
      <4>1. \A t \in store : HourOf(t) \in Int
        BY <1>0, TickFacts, HourFacts
      <4> QED
        BY <3>2, <3>3, <4>1 DEF Reached
    <3> HIDE DEF d
    <3>5. \A e \in Days : entry'[e] \subseteq store
      BY <1>0, <3>1 DEF PastGet, PastCache, TypeOK
    <3>6. \A e \in Days : sealed'[e] # None => Reached(sealed'[e])
      BY <1>0, <3>1, <3>4 DEF PastCache, TypeOK
    <3> QED
      BY <1>0, <1>1, <3>1, <3>5, <3>6 DEF PastCache, Reached, present
  <2>2. CASE PutOpen(g)
    <3>1. gPc[g] = "put" /\ UNCHANGED cache
      BY <2>2 DEF PutOpen
    <3>2. Through(g) \in store
      <4>1. gItems[g] \subseteq Ticks
        BY <1>0 DEF TypeOK
      <4> QED
        BY <1>0, <3>1, <4>1, GreatestFacts DEF Through, Progress, PastGet
    <3>3. openCache' = {[hour |-> gOpen[g], through |-> Through(g),
                         items |-> gItems[g]]}
      BY <2>2 DEF PutOpen, Through
    <3>4. \A e \in openCache' : e.items \subseteq store /\ e.through \in store
      BY <1>0, <3>2, <3>3 DEF PastGet
    <3> QED
      BY <1>0, <1>1, <3>1, <3>4 DEF PastCache, Reached, cache, present
  <2>3. CASE ~(PutDay(g) /\ gPc[g] = "seal") /\ ~PutOpen(g)
    <3>1. UNCHANGED <<cache, openCache>>
      BY <1>0, <2>3 DEF Sealing, Serve, ReadNow, ReadEntry, AskLock, LockDay,
         MakeHour, PutDay, ReadLatest, LookOpen, MakeOpen, LookAgain, Done, Get
    <3> QED
      BY <1>0, <1>1, <3>1 DEF PastCache, Reached, cache, present
  <2> QED
    BY <2>1, <2>2, <2>3
<1>4. ASSUME NEW h \in Getters, h # g PROVE PastGet(h)'
  <2>1. PastGet(h)
    BY DEF PastInv
  <2>2. /\ gPc'[h] = gPc[h] /\ gOpen'[h] = gOpen[h] /\ gRes'[h] = gRes[h]
        /\ gItems'[h] = gItems[h] /\ gLatest'[h] = gLatest[h]
    BY <1>0, <1>4 DEF TypeOK, Serve, ReadNow, ReadEntry, AskLock, LockDay, MakeHour,
       PutDay, ReadLatest, LookOpen, MakeOpen, PutOpen, LookAgain, Done, Get,
       Goto, Respond
  <2> QED
    BY <1>1, <2>1, <2>2 DEF PastGet, Reached, present
<1>5. PastGet(g)'
  <2>1. gRes'[g] \subseteq store
    <3>0. /\ gRes[g] \subseteq store /\ gItems[g] \subseteq store
          /\ \A d \in Days : entry[d] \subseteq store
          /\ \A e \in openCache : e.items \subseteq store
      BY <1>0 DEF PastGet, PastCache
    <3>1. CASE MakeHour(g)
      <4>1. gRes'[g] = Remade(gRes[g], gHour[g], gHour[g] + 1)
        BY <1>0, <3>1 DEF MakeHour, Respond, TypeOK
      <4>2. gHour[g] \in Int /\ gRes[g] \subseteq Ticks
        BY <1>0, Constants DEF TypeOK
      <4> QED
        BY <1>0, <3>0, <4>1, <4>2, RemadeFacts
    <3>2. CASE LookOpen(g) \/ PutOpen(g)
      BY <1>0, <3>0, <3>2 DEF LookOpen, PutOpen, Respond, WithOpen, TypeOK
    <3>3. CASE ~MakeHour(g) /\ ~LookOpen(g) /\ ~PutOpen(g)
      BY <1>0, <3>0, <3>3 DEF Serve, ReadNow, ReadEntry, AskLock, LockDay,
         PutDay, ReadLatest, MakeOpen, LookAgain, Done, Get, Respond, TypeOK
    <3> QED
      BY <3>1, <3>2, <3>3
  <2>2. gItems'[g] \subseteq store /\ gLatest'[g] \in store \cup {None}
    BY <1>0 DEF PastGet, TypeOK, Serve, ReadNow, ReadEntry, AskLock, LockDay,
       MakeHour, PutDay, ReadLatest, LookOpen, MakeOpen, PutOpen, LookAgain, Done,
       Get, Hour
  <2>3. ASSUME gPc'[g] \in OpenPcs PROVE Reached(gOpen'[g])
    <3>1. CASE ReadNow(g)
      <4>1. gOpen'[g] = HourOf(latest) /\ HourOf(latest) \in Int
        BY <1>0, <3>1, TickFacts, HourFacts DEF ReadNow, TypeOK
      <4> QED
        BY <1>0, <4>1 DEF Reached
    <3>2. CASE ~ReadNow(g)
      <4>1. gPc[g] \in OpenPcs /\ gOpen'[g] = gOpen[g]
        BY <1>0, <2>3, <3>2 DEF Sealing, OpenPcs, TypeOK, Serve, ReadEntry, AskLock,
           LockDay, MakeHour, PutDay, ReadLatest, LookOpen, MakeOpen, PutOpen,
           LookAgain, Done, Get, Goto
      <4> QED
        BY <1>0, <4>1 DEF PastGet
    <3> QED
      BY <3>1, <3>2
  <2> QED
    BY <1>1, <2>1, <2>2, <2>3 DEF PastGet, Reached, present
<1> QED
  BY <1>2, <1>3, <1>4, <1>5 DEF PastInv

LEMMA PastInvNext == ASSUME TypeInv, SealInv, PastInv, [Next]_vars PROVE PastInv'
<1>1. CASE UNCHANGED vars
  BY <1>1 DEF PastInv, PastMemory, PastCache, PastGet, Reached, vars, present,
     writer, cache, getter, history
<1> QED
  BY <1>1, NothingToFill, PastInvWriter, PastInvServe DEF Next

----------------------------------------------------------------------------
(* What came on time is shown.                                             *)

LEMMA ShownInvInit == ASSUME Init PROVE ShownInv
<1>1. ShownCache
  BY GraphAssumption DEF Init, ShownCache, Holds
<1>2. \A g \in Getters : Serving(g)
  BY DEF Init, Serving, OpenPcs
<1> QED
  BY <1>1, <1>2 DEF ShownInv

\* A condition that comes on time is newer than all others, hence in no hour
\* before one that has been reached.
LEMMA OnTimeIsNew ==
    ASSUME TypeInv, NEW S \in Requests, Append(S), NEW t \in onTime', t \notin onTime
    PROVE  /\ t \in Ticks /\ t \notin store /\ \A u \in store : u < t
           /\ \A h \in Int : Reached(h) => h <= HourOf(t)
<1>1. t \in S /\ S \cap store = {} /\ \A u \in store : u < t
  BY DEF Append
<1>2. t \in Ticks /\ store \subseteq Ticks
  BY <1>1, RequestFacts DEF TypeInv, TypeOK
<1>3. ASSUME NEW h \in Int, Reached(h) PROVE h <= HourOf(t)
  <2>1. PICK u \in store : h <= HourOf(u)
    BY <1>3 DEF Reached
  <2>2. u <= t
    BY <1>1, <1>2, TickFacts
  <2>3. HourOf(u) <= HourOf(t) /\ HourOf(u) \in Int /\ HourOf(t) \in Int
    BY <1>2, <2>2, TickFacts, HourFacts
  <2> QED
    BY <1>3, <2>1, <2>3
<1> QED
  BY <1>1, <1>2, <1>3

LEMMA HoldsOnTime ==
    ASSUME TypeInv, NEW S \in Requests, Append(S), NEW R, NEW d \in Days,
           NEW h \in Int, Holds(R, d, h), Reached(h) \/ h = DayStart(d)
    PROVE  Holds(R, d, h)'
<1> SUFFICES ASSUME NEW t \in onTime', t \in TicksOf(d), HourOf(t) < h, t \notin onTime
             PROVE  FALSE
  BY DEF Holds
<1>1. h <= HourOf(t)
  <2>1. t \in Ticks
    BY OnTimeIsNew
  <2> QED
    BY <2>1, OnTimeIsNew, TicksOfFacts
<1>2. HourOf(t) \in Int
  BY OnTimeIsNew, TickFacts, HourFacts
<1> QED
  BY <1>1, <1>2

LEMMA OpenHoldsOnTime ==
    ASSUME TypeInv, NEW S \in Requests, Append(S), NEW R, NEW h,
           NEW through \in store, OpenHolds(R, h, through)
    PROVE  OpenHolds(R, h, through)'
<1>1. \A t \in onTime' : t \notin onTime => through < t /\ t \in Int
  BY OnTimeIsNew, TickFacts
<1>2. through \in Int
  BY TickFacts DEF TypeInv, TypeOK
<1> QED
  BY <1>1, <1>2 DEF OpenHolds

LEMMA ThroughIsStored ==
    ASSUME TypeInv, PastInv, NEW g \in Getters, gPc[g] = "put"
    PROVE  /\ Through(g) \in store
           /\ gItems[g] # {} =>
                 Through(g) \in gItems[g] /\ \A t \in gItems[g] : t <= Through(g)
<1>1. /\ gItems[g] \subseteq Ticks /\ gItems[g] \subseteq store
      /\ gLatest[g] \in store \cup {None} /\ gLatest[g] # None
  BY DEF TypeInv, TypeOK, PastInv, PastGet, Progress
<1> QED
  BY <1>1, GreatestFacts DEF Through

LEMMA ShownInvAppend ==
    ASSUME TypeInv, SealInv, PastInv, ShownInv, NEW S \in Requests, Append(S)
    PROVE  ShownInv'
<1>1. UNCHANGED <<cache, openCache, getter, gDue>> /\ TypeOK
  BY DEF Append, TypeInv
<1>2. ASSUME NEW d \in Days PROVE Holds(entry[d], d, SealedFrom(d))'
  <2>1. Holds(entry[d], d, SealedFrom(d)) /\ SealedFrom(d) \in Int
    BY <1>1, SealedFromFacts DEF ShownInv, ShownCache
  <2>2. Reached(SealedFrom(d)) \/ SealedFrom(d) = DayStart(d)
    BY DEF PastInv, PastCache, SealedFrom
  <2>3. \A t \in onTime' \cap TicksOf(d) : HourOf(t) < SealedFrom(d) => t \in entry[d]
    BY <2>1, <2>2, HoldsOnTime DEF Holds
  <2>4. SealedFrom(d)' = SealedFrom(d) /\ entry' = entry
    BY <1>1 DEF SealedFrom, cache
  <2> QED
    BY <2>3, <2>4 DEF Holds
<1>3. ASSUME NEW e \in openCache PROVE OpenHolds(e.items, e.hour, e.through)'
  <2>1. OpenHolds(e.items, e.hour, e.through) /\ e.through \in store
    BY DEF ShownInv, ShownCache, PastInv, PastCache
  <2> QED
    BY <2>1, OpenHoldsOnTime
<1>4. ShownCache'
  BY <1>1, <1>2, <1>3 DEF ShownCache
<1>5. ASSUME NEW g \in Getters PROVE Serving(g)'
  <2>1. Serving(g) /\ Sealing(g) /\ PastGet(g) /\ gDay[g] \in Days
    BY <1>1 DEF ShownInv, SealInv, PastInv, TypeOK
  <2>2. /\ SealUntil(g) \in Int /\ SealUntil(g) <= gOpen[g] /\ gOpen[g] \in Int
        /\ gHour[g] \in Int
    BY <1>1, SealUntilFacts, HourFacts, Constants DEF TypeOK
  <2>3. gPc[g] \in OpenPcs => Reached(gOpen[g]) /\ Reached(SealUntil(g))
    <3>1. \A t \in store : HourOf(t) \in Int
      BY <1>1, TickFacts, HourFacts DEF TypeOK
    <3> QED
      BY <2>1, <2>2, <3>1 DEF PastGet, Reached
  <2>4. gPc[g] = "seal" => Reached(gHour[g])
    <3>1. \A t \in store : HourOf(t) \in Int
      BY <1>1, TickFacts, HourFacts DEF TypeOK
    <3> QED
      BY <2>1, <2>2, <2>3, <3>1 DEF Sealing, OpenPcs, Reached
  <2>5. gPc[g] = "seal" =>
            \A t \in onTime' \cap TicksOf(gDay[g]) : HourOf(t) < gHour[g] => t \in gRes[g]
    BY <2>1, <2>2, <2>4, HoldsOnTime DEF Serving, Holds
  <2>6. gPc[g] \in {"sealed", "open", "look", "make", "put"} =>
            \A t \in onTime' \cap TicksOf(gDay[g]) :
                HourOf(t) < SealUntil(g) => t \in gRes[g]
    BY <2>1, <2>2, <2>3, HoldsOnTime DEF Serving, Holds, OpenPcs
  <2>7. gPc[g] = "put" =>
            \A t \in onTime' : HourOf(t) = gOpen[g] /\ t <= Through(g) => t \in gItems[g]
    <3> SUFFICES ASSUME gPc[g] = "put"
                 PROVE  \A t \in onTime' : HourOf(t) = gOpen[g] /\ t <= Through(g)
                                               => t \in gItems[g]
      OBVIOUS
    <3>1. Through(g) \in store /\ Through(g) \in Int
      BY <1>1, ThroughIsStored, TickFacts DEF TypeOK
    <3>2. \A t \in onTime' : t \notin onTime => Through(g) < t /\ t \in Int
      BY <3>1, OnTimeIsNew, TickFacts
    <3>3. \A t \in onTime : HourOf(t) = gOpen[g] /\ t <= Through(g) => t \in gItems[g]
      BY <2>1 DEF Serving, OpenHolds
    <3> QED
      BY <3>1, <3>2, <3>3
  <2>8. gPc[g] \in {"final", "done"} =>
            /\ gDue[g] \cap onTime' \subseteq gRes[g]
            /\ \A t \in gRes[g] : \A u \in onTime' \cap TicksOf(gDay[g]) :
                  u <= t => u \in gRes[g]
    <3>1. gDue[g] \subseteq store /\ gRes[g] \subseteq store /\ store \subseteq Ticks
      BY <1>1, <2>1 DEF TypeOK, PastGet
    <3>2. \A u \in onTime' : u \notin onTime =>
              u \in Int /\ u \notin store /\ \A t \in store : t < u /\ t \in Int
      BY <3>1, OnTimeIsNew, TickFacts
    <3> QED
      BY <2>1, <3>1, <3>2 DEF Serving, Answer
  <2>9. /\ gPc'[g] = gPc[g] /\ gDay'[g] = gDay[g] /\ gOpen'[g] = gOpen[g]
        /\ gRes'[g] = gRes[g] /\ gHour'[g] = gHour[g] /\ gLatest'[g] = gLatest[g]
        /\ gItems'[g] = gItems[g] /\ gDue'[g] = gDue[g]
        /\ SealUntil(g)' = SealUntil(g) /\ HasOpen(g)' = HasOpen(g)
        /\ Through(g)' = Through(g)
    BY <1>1 DEF getter, SealUntil, HasOpen, Through
  <2> QED
    BY <2>1, <2>5, <2>6, <2>7, <2>8, <2>9 DEF Serving, Holds, OpenHolds, Answer
<1> QED
  BY <1>4, <1>5 DEF ShownInv

LEMMA ServingFrame ==
    ASSUME NEW g \in Getters, Serving(g), SameGet(g), onTime' = onTime,
           gLatest'[g] = gLatest[g], gItems'[g] = gItems[g], gDue'[g] = gDue[g]
    PROVE  Serving(g)'
<1>1. /\ SealUntil(g)' = SealUntil(g) /\ HasOpen(g)' = HasOpen(g)
      /\ Through(g)' = Through(g)
  BY DEF SealUntil, HasOpen, Through, SameGet
<1> QED
  BY <1>1 DEF Serving, SameGet, Holds, OpenHolds, Answer

LEMMA ShownInvWriter == ASSUME TypeInv, ShownInv, Writer PROVE ShownInv'
<1>1. onTime' = onTime /\ UNCHANGED <<getter, gDue>> /\ openCache' \subseteq openCache
  BY DEF Writer, Compare, AskSealLock, SealDay, DropLate, SetLatest, Invalidate,
     history
<1>2. \A g \in Getters : Serving(g)'
  BY <1>1, ServingFrame DEF ShownInv, SameGet, getter
<1>3. ASSUME NEW d \in Days PROVE Holds(entry[d], d, SealedFrom(d))'
  <2>1. Holds(entry[d], d, SealedFrom(d))
    BY DEF ShownInv, ShownCache
  <2>2. CASE entry'[d] = entry[d] /\ sealed'[d] = sealed[d]
    BY <1>1, <2>1, <2>2 DEF Holds, SealedFrom
  <2>3. CASE ~(entry'[d] = entry[d] /\ sealed'[d] = sealed[d])
    <3> DEFINE to == Lesser(HourOf(Greatest(wBatch)), DayEnd(d))
    <3>1. SealDay
      BY <2>3 DEF Writer, Compare, AskSealLock, DropLate, SetLatest, Invalidate,
         cache
    <3>2. /\ DayOf(wHour) = d /\ SealedFrom(d) < to
          /\ entry'[d] = Remade(entry[d], SealedFrom(d), to) /\ sealed'[d] = to
      BY <2>3, <3>1 DEF SealDay, TypeInv, TypeOK, cache
    <3>3. /\ SealedFrom(d) \in Int /\ DayStart(d) <= SealedFrom(d)
          /\ 0 <= DayStart(d) /\ DayStart(d) \in Int
      BY SealedFromFacts, HourFacts DEF TypeInv
    <3>4. to \in Int
      BY <3>1, BatchFacts, HourFacts DEF SealDay, Lesser
    <3>5. SealedFrom(d)' = to
      BY <3>2, <3>3, <3>4 DEF SealedFrom, None
    <3>6. entry[d] \subseteq Ticks /\ onTime \subseteq store /\ store \subseteq Ticks
          /\ TypeOK
      BY DEF TypeInv, TypeOK
    <3>7. \A t \in Ticks : HourOf(t) \in Int
      BY TickFacts, HourFacts
    <3>8. ASSUME NEW t \in onTime \cap TicksOf(d), HourOf(t) < to
          PROVE  t \in Remade(entry[d], SealedFrom(d), to)
      <4>1. t \in Ticks /\ t \in store
        BY <3>6
      <4>2. HourOf(t) < SealedFrom(d) => t \in entry[d]
        BY <2>1, <3>8 DEF Holds
      <4> HIDE DEF to
      <4> QED
        BY <3>3, <3>4, <3>6, <3>7, <3>8, <4>1, <4>2, RemadeFacts
    <3> HIDE DEF to
    <3> QED
      BY <1>1, <3>2, <3>5, <3>8 DEF Holds
  <2> QED
    BY <2>2, <2>3
<1>4. \A e \in openCache : OpenHolds(e.items, e.hour, e.through)'
  BY <1>1 DEF ShownInv, ShownCache, OpenHolds
<1> QED
  BY <1>1, <1>2, <1>3, <1>4 DEF ShownInv, ShownCache

LEMMA ShownInvServe ==
    ASSUME TypeInv, SealInv, PastInv, ShownInv, NEW g \in Getters,
           Serve(g) \/ \E d \in Days : Get(g, d)
    PROVE  ShownInv'
<1>0. /\ TypeOK /\ Progress(g) /\ Sealing(g) /\ gDay[g] \in Days /\ latest # None
      /\ PastMemory /\ PastCache /\ PastGet(g) /\ ShownCache /\ Serving(g)
      /\ store \subseteq Ticks /\ latest \in store /\ latest \in Ticks
      /\ onTime \subseteq store /\ settled \subseteq store
      /\ gDue[g] \subseteq settled /\ \A t \in settled : t <= latest
  BY DEF TypeInv, TypeOK, SealInv, PastInv, PastMemory, ShownInv
<1>01. /\ \A t \in Ticks : t \in Int /\ HourOf(t) \in Int /\ HourOf(t) \in Hours
       /\ gOpen[g] \in Int /\ gOpen[g] \in Hours /\ gHour[g] \in Int
       /\ SealUntil(g) \in Int /\ SealUntil(g) <= gOpen[g]
       /\ SealUntil(g) <= DayEnd(gDay[g])
       /\ SealUntil(g) = DayEnd(gDay[g]) \/ SealUntil(g) = gOpen[g]
       /\ DayEnd(gDay[g]) \in Int /\ DayStart(gDay[g]) \in Int
  BY <1>0, TickFacts, HourFacts, SealUntilFacts, Constants DEF TypeOK
<1>1. UNCHANGED <<present, writer, settled, onTime>>
  BY DEF Serve, ReadNow, ReadEntry, AskLock, LockDay, MakeHour, PutDay,
     ReadLatest, LookOpen, MakeOpen, PutOpen, LookAgain, Done, Get, history
\* An hour that is open lies in the day; without one, the day ends before it.
<1>2. ASSUME gPc[g] \in OpenPcs
      PROVE  IF HasOpen(g) THEN SealUntil(g) = gOpen[g]
                           ELSE SealUntil(g) = DayEnd(gDay[g])
  <2>1. DayStart(gDay[g]) <= gOpen[g]
    BY <1>0, <1>2 DEF Progress
  <2>2. HasOpen(g) <=> DayStart(gDay[g]) <= gOpen[g] /\ gOpen[g] < DayEnd(gDay[g])
    BY <1>0, <1>01, HourFacts DEF HasOpen
  <2> QED
    BY <1>01, <2>1, <2>2 DEF SealUntil, Lesser
\* A day sealed to its end shows all that came on time.
<1>3. ASSUME NEW d \in Days, NEW R, R \subseteq store, Holds(R, d, DayEnd(d))
      PROVE  \A u \in onTime \cap TicksOf(d) : u \in R
  BY <1>0, <1>3, TicksOfFacts DEF Holds
<1>4. \A d \in Days : FullySealed(d) =>
          \A u \in onTime \cap TicksOf(d) : u \in entry[d]
  <2> SUFFICES ASSUME NEW d \in Days, FullySealed(d)
               PROVE  \A u \in onTime \cap TicksOf(d) : u \in entry[d]
    OBVIOUS
  <2>1. SealedFrom(d) = DayEnd(d)
    BY HourFacts DEF FullySealed, SealedFrom, None
  <2> QED
    BY <1>0, <1>3, <2>1 DEF PastCache, ShownCache
<1>5. ASSUME NEW h \in Getters, h # g PROVE Serving(h)'
  <2>1. Serving(h)
    BY DEF ShownInv
  <2>2. /\ SameGet(h) /\ gLatest'[h] = gLatest[h] /\ gItems'[h] = gItems[h]
        /\ gDue'[h] = gDue[h]
    BY <1>0, <1>5 DEF TypeOK, Serve, ReadNow, ReadEntry, AskLock, LockDay, MakeHour,
       PutDay, ReadLatest, LookOpen, MakeOpen, PutOpen, LookAgain, Done, Get,
       SameGet, Goto, Respond, history
  <2> QED
    BY <1>1, <2>1, <2>2, ServingFrame
<1>6. ShownCache'
  <2>1. CASE PutDay(g) /\ gPc[g] = "seal"
    <3> DEFINE d == gDay[g]
    <3>1. /\ entry' = [entry EXCEPT ![d] = gRes[g]]
          /\ sealed' = [sealed EXCEPT ![d] = SealUntil(g)]
          /\ openCache' = openCache /\ gHour[g] >= SealUntil(g)
      BY <2>1 DEF PutDay, Limit
    <3>2. Holds(gRes[g], d, SealUntil(g))
      <4>1. Holds(gRes[g], d, gHour[g])
        BY <1>0, <2>1 DEF Serving
      <4>2. \A t \in onTime : HourOf(t) \in Int
        BY <1>0, <1>01
      <4> QED
        BY <1>01, <3>1, <4>1, <4>2 DEF Holds
    <3>3. SealUntil(g) # None
      <4>1. SealedFrom(d) \in Int /\ 0 <= SealedFrom(d) /\ SealedFrom(d) < SealUntil(g)
        BY <1>0, <2>1, SealedFromFacts, HourFacts DEF Sealing
      <4> QED
        BY <1>01, <4>1 DEF None
    <3>4. ASSUME NEW e \in Days PROVE Holds(entry[e], e, SealedFrom(e))'
      <4>1. CASE e = d
        <5>1. entry'[e] = gRes[g] /\ SealedFrom(e)' = SealUntil(g)
          BY <1>0, <3>1, <3>3, <4>1 DEF SealedFrom, TypeOK
        <5> QED
          BY <1>1, <3>2, <4>1, <5>1 DEF Holds
      <4>2. CASE e # d
        <5>1. entry'[e] = entry[e] /\ SealedFrom(e)' = SealedFrom(e)
          BY <1>0, <3>1, <4>2 DEF SealedFrom, TypeOK
        <5> QED
          BY <1>0, <1>1, <5>1 DEF Holds, ShownCache
      <4> QED
        BY <4>1, <4>2
    <3> QED
      BY <1>0, <1>1, <3>1, <3>4 DEF ShownCache, OpenHolds
  <2>2. CASE PutOpen(g)
    <3>1. gPc[g] = "put" /\ UNCHANGED cache
      BY <2>2 DEF PutOpen
    <3>2. openCache' = {[hour |-> gOpen[g], through |-> Through(g),
                         items |-> gItems[g]]}
      BY <2>2 DEF PutOpen, Through
    <3>3. OpenHolds(gItems[g], gOpen[g], Through(g))
      BY <1>0, <3>1 DEF Serving
    <3>4. \A e \in openCache' : OpenHolds(e.items, e.hour, e.through)'
      BY <1>1, <3>2, <3>3 DEF OpenHolds
    <3> QED
      BY <1>0, <1>1, <3>1, <3>4 DEF ShownCache, Holds, SealedFrom, cache
  <2>3. CASE ~(PutDay(g) /\ gPc[g] = "seal") /\ ~PutOpen(g)
    <3>1. UNCHANGED <<cache, openCache>>
      BY <1>0, <2>3 DEF Sealing, Serve, ReadNow, ReadEntry, AskLock, LockDay,
         MakeHour, PutDay, ReadLatest, LookOpen, MakeOpen, LookAgain, Done, Get
    <3> QED
      BY <1>0, <1>1, <3>1 DEF ShownCache, Holds, OpenHolds, SealedFrom, cache
  <2> QED
    BY <2>1, <2>2, <2>3
<1> DEFINE Same == gDay'[g] = gDay[g] /\ gDue'[g] = gDue[g]
\* The response is complete when it is made.
<1>7. ASSUME gPc'[g] \in {"final", "done"}, Same,
             gDue[g] \cap onTime \subseteq gRes'[g],
             \A t \in gRes'[g] : \A u \in onTime \cap TicksOf(gDay[g]) :
                 u <= t => u \in gRes'[g]
      PROVE  Serving(g)'
  BY <1>0, <1>1, <1>7 DEF Serving, Answer, OpenPcs
<1>8. ASSUME gPc'[g] \in {"final", "done"}, Same,
             \A u \in onTime \cap TicksOf(gDay[g]) : u \in gRes'[g]
      PROVE  Serving(g)'
  BY <1>0, <1>7, <1>8 DEF Serving
<1>9. ASSUME NEW R, R \subseteq store, gPc[g] \in {"look", "put"}, Same,
             gRes'[g] = WithOpen(g, R), gPc'[g] = "final",
             \A t \in R : HourOf(t) = gOpen[g],
             \A t \in gDue[g] \cap onTime : HourOf(t) = gOpen[g] => t \in R,
             \A t \in R : \A u \in onTime : HourOf(u) = gOpen[g] /\ u <= t => u \in R
      PROVE  Serving(g)'
  <2>1. /\ HasOpen(g) /\ SealUntil(g) = gOpen[g]
        /\ Holds(gRes[g], gDay[g], gOpen[g])
        /\ \A t \in gDue[g] : HourOf(t) <= gOpen[g]
    BY <1>0, <1>2, <1>9 DEF Serving, OpenPcs
  <2>2. gRes'[g] = {t \in gRes[g] : HourOf(t) < gOpen[g]} \cup R
    BY <1>9 DEF WithOpen
  <2>3. \A u \in onTime \cap TicksOf(gDay[g]) : HourOf(u) < gOpen[g] => u \in gRes'[g]
    BY <2>1, <2>2 DEF Holds
  <2>4. ASSUME NEW t \in gDue[g], t \in onTime PROVE t \in gRes'[g]
    <3>1. t \in TicksOf(gDay[g]) /\ HourOf(t) \in Int /\ HourOf(t) <= gOpen[g]
      BY <1>0, <1>01, <2>1, <2>4 DEF Serving
    <3> QED
      BY <1>01, <1>9, <2>2, <2>3, <2>4, <3>1
  <2>5. ASSUME NEW t \in gRes'[g], NEW u \in onTime \cap TicksOf(gDay[g]), u <= t
        PROVE  u \in gRes'[g]
    <3>1. t \in store /\ HourOf(t) <= gOpen[g]
      BY <1>0, <1>01, <1>9, <2>2, <2>5 DEF PastGet
    <3>2. u \in Ticks /\ t \in Ticks
      BY <1>0, <3>1
    <3>3. HourOf(u) <= HourOf(t) /\ HourOf(u) \in Int /\ HourOf(t) \in Int
      BY <1>01, <2>5, <3>2, TickFacts
    <3>4. CASE HourOf(u) < gOpen[g]
      BY <2>3, <3>4
    <3>5. CASE ~(HourOf(u) < gOpen[g])
      <4>1. HourOf(u) = gOpen[g] /\ HourOf(t) = gOpen[g]
        BY <1>01, <3>1, <3>3, <3>5
      <4>2. t \in R
        BY <1>01, <2>2, <4>1
      <4> QED
        BY <1>9, <2>2, <2>5, <4>1, <4>2
    <3> QED
      BY <3>4, <3>5
  <2> QED
    BY <1>7, <1>9, <2>4, <2>5
<1> HIDE DEF Same
<1>10. ASSUME \E d \in Days : Get(g, d) PROVE Serving(g)'
  <2>1. PICK d \in Days : Get(g, d)
    BY <1>10
  <2>2. gDay'[g] = d /\ gDue'[g] = settled \cap TicksOf(d)
    BY <1>0, <2>1 DEF Get, TypeOK
  <2>3. CASE FullySealed(d)
    <3>1. gPc'[g] = "done" /\ gRes'[g] = entry[d]
      BY <1>0, <2>1, <2>3 DEF Get, Respond, Goto, TypeOK
    <3> QED
      BY <1>1, <1>4, <2>2, <2>3, <3>1 DEF Serving, Answer, OpenPcs
  <2>4. CASE ~FullySealed(d)
    <3>1. gPc'[g] = "now"
      BY <1>0, <2>1, <2>4 DEF Get, Goto, TypeOK
    <3> QED
      BY <2>2, <3>1 DEF Serving, OpenPcs
  <2> QED
    BY <2>3, <2>4
<1>11. ASSUME ReadNow(g) PROVE Serving(g)'
  <2>1. /\ gDay' = gDay /\ gDue' = gDue /\ gOpen'[g] = HourOf(latest)
        /\ IF gDay[g] > DayOf(HourOf(latest))
           THEN gPc'[g] = "final" /\ gRes'[g] = {} ELSE gPc'[g] = "rlock"
    BY <1>0, <1>11 DEF ReadNow, Respond, Goto, TypeOK, history
  <2>2. ASSUME NEW t \in gDue[g]
        PROVE  /\ t \in TicksOf(gDay[g]) /\ t \in Ticks
               /\ HourOf(t) <= HourOf(latest)
               /\ DayOf(HourOf(t)) <= DayOf(HourOf(latest))
    <3>1. t \in TicksOf(gDay[g]) /\ t \in Ticks /\ t <= latest
      BY <1>0 DEF Serving
    <3>2. HourOf(t) <= HourOf(latest)
      BY <1>0, <3>1, TickFacts
    <3>3. HourOf(t) \in Nat /\ HourOf(latest) \in Nat
      BY <1>0, <1>01, <3>1, HourFacts
    <3> QED
      BY <3>1, <3>2, <3>3, Constants, DivFacts DEF DayOf
  <2>3. CASE gDay[g] > DayOf(HourOf(latest))
    <3>1. gDue[g] = {}
      <4>1. gDay[g] \in Int /\ DayOf(HourOf(latest)) \in Int
        BY <1>0, <1>01, HourFacts
      <4>2. \A t \in gDue[g] : DayOf(HourOf(t)) = gDay[g]
        BY <2>2 DEF TicksOf
      <4> QED
        BY <2>2, <2>3, <4>1, <4>2
    <3> QED
      BY <1>7, <2>1, <2>3, <3>1 DEF Same
  <2>4. CASE ~(gDay[g] > DayOf(HourOf(latest)))
    BY <2>1, <2>2, <2>4 DEF Serving, OpenPcs
  <2> QED
    BY <2>3, <2>4
\* Steps on the way to a response: what it will have to hold.
<1>12. ASSUME gPc[g] \in OpenPcs, gPc'[g] \in OpenPcs \ {"look", "make", "put"},
              Same, gOpen'[g] = gOpen[g],
              gPc'[g] = "seal" => Holds(gRes'[g], gDay[g], gHour'[g]),
              gPc'[g] \in {"sealed", "open"} => Holds(gRes'[g], gDay[g], SealUntil(g)),
              gPc'[g] = "open" => HasOpen(g)
       PROVE  Serving(g)'
  <2>1. SealUntil(g)' = SealUntil(g) /\ HasOpen(g)' = HasOpen(g)
    BY <1>12 DEF SealUntil, HasOpen, Same
  <2> QED
    BY <1>0, <1>1, <1>12, <2>1 DEF Serving, Holds, Same, OpenPcs
<1>13. ASSUME ReadEntry(g) PROVE Serving(g)'
  <2> DEFINE d == gDay[g]
  <2>1. /\ gPc[g] = "rlock" /\ Same /\ gOpen' = gOpen
        /\ IF sealed[d] = None \/ sealed[d] < SealUntil(g)
           THEN gPc'[g] = "lock"
           ELSE /\ gRes'[g] = entry[d]
                /\ gPc'[g] = IF HasOpen(g) THEN "open" ELSE "final"
    BY <1>0, <1>13 DEF ReadEntry, Respond, Goto, TypeOK, history, Same
  <2>2. CASE sealed[d] = None \/ sealed[d] < SealUntil(g)
    BY <1>12, <2>1, <2>2 DEF OpenPcs
  <2>3. CASE ~(sealed[d] = None \/ sealed[d] < SealUntil(g))
    <3>1. SealedFrom(d) = sealed[d] /\ sealed[d] \in Int /\ SealUntil(g) <= sealed[d]
          /\ sealed[d] <= DayEnd(d)
      BY <1>0, <1>01, <2>3, SealedFromFacts DEF SealedFrom
    <3>2. Holds(entry[d], d, SealUntil(g))
      <4>1. Holds(entry[d], d, SealedFrom(d)) /\ \A t \in onTime : HourOf(t) \in Int
        BY <1>0, <1>01 DEF ShownCache
      <4> QED
        BY <1>01, <3>1, <4>1 DEF Holds
    <3>3. CASE HasOpen(g)
      BY <1>12, <2>1, <2>3, <3>2, <3>3 DEF OpenPcs
    <3>4. CASE ~HasOpen(g)
      <4>1. FullySealed(d)
        BY <1>01, <1>2, <2>1, <3>1, <3>4 DEF FullySealed, OpenPcs
      <4> QED
        BY <1>0, <1>4, <1>8, <2>1, <2>3, <3>4, <4>1
    <3> QED
      BY <3>3, <3>4
  <2> QED
    BY <2>2, <2>3
<1>14. ASSUME AskLock(g) PROVE Serving(g)'
  <2>1. /\ gPc[g] = "lock" /\ gPc'[g] = "locking" /\ Same /\ gOpen' = gOpen
    BY <1>0, <1>14 DEF AskLock, Sealing, Goto, TypeOK, history, Same
  <2> QED
    BY <1>12, <2>1 DEF OpenPcs
<1>15. ASSUME LockDay(g) PROVE Serving(g)'
  <2> DEFINE d == gDay[g]
  <2>1. /\ gPc[g] = "locking" /\ Same /\ gOpen' = gOpen
        /\ gRes'[g] = IF sealed[d] = None THEN {} ELSE entry[d]
        /\ gHour'[g] = SealedFrom(d)
        /\ gPc'[g] = IF SealedFrom(d) < SealUntil(g) THEN "seal" ELSE "sealed"
    BY <1>0, <1>15 DEF LockDay, Sealing, Respond, Goto, TypeOK, history, Same
  <2>2. SealedFrom(d) \in Int
    BY <1>0, SealedFromFacts
  <2>3. Holds(gRes'[g], d, SealedFrom(d))
    <3>1. CASE sealed[d] # None
      BY <1>0, <2>1, <3>1 DEF ShownCache
    <3>2. CASE sealed[d] = None
      <4>1. SealedFrom(d) = DayStart(d)
        BY <3>2 DEF SealedFrom
      <4>2. \A t \in onTime \cap TicksOf(d) : DayStart(d) <= HourOf(t) /\ HourOf(t) \in Int
        BY <1>0, <1>01, TicksOfFacts
      <4> QED
        BY <1>01, <4>1, <4>2 DEF Holds
    <3> QED
      BY <3>1, <3>2
  <2>4. ~(SealedFrom(d) < SealUntil(g)) => Holds(gRes'[g], d, SealUntil(g))
    <3>1. \A t \in onTime : HourOf(t) \in Int
      BY <1>0, <1>01
    <3> QED
      BY <1>01, <2>2, <2>3, <3>1 DEF Holds
  <2> QED
    BY <1>12, <2>1, <2>3, <2>4 DEF OpenPcs
<1>16. ASSUME MakeHour(g) PROVE Serving(g)'
  <2>1. /\ gPc[g] = "seal" /\ gPc' = gPc /\ Same /\ gOpen' = gOpen
        /\ gRes'[g] = Remade(gRes[g], gHour[g], gHour[g] + 1)
        /\ gHour'[g] = gHour[g] + 1
    BY <1>0, <1>16 DEF MakeHour, Sealing, Respond, TypeOK, history, Same
  <2>2. Holds(gRes'[g], gDay[g], gHour[g] + 1)
    <3>1. gRes[g] \subseteq Ticks /\ Holds(gRes[g], gDay[g], gHour[g])
      BY <1>0, <2>1 DEF TypeOK, Serving
    <3>2. ASSUME NEW t \in onTime \cap TicksOf(gDay[g]), HourOf(t) < gHour[g] + 1
          PROVE  t \in gRes'[g]
      <4>1. t \in Ticks /\ t \in store /\ HourOf(t) \in Int
        BY <1>0, <1>01
      <4>2. HourOf(t) < gHour[g] => t \in gRes[g]
        BY <3>1 DEF Holds
      <4>3. gHour[g] + 1 \in Int
        BY <1>01
      <4>4. t \in gRes'[g] <=>
               IF gHour[g] <= HourOf(t) /\ HourOf(t) < gHour[g] + 1 THEN t \in store
                                                                   ELSE t \in gRes[g]
        BY <1>0, <1>01, <2>1, <3>1, <4>1, <4>3, RemadeFacts
      <4> QED
        BY <1>01, <3>2, <4>1, <4>2, <4>4
    <3> QED
      BY <3>2 DEF Holds
  <2> QED
    BY <1>12, <2>1, <2>2 DEF OpenPcs
<1>17. ASSUME PutDay(g) PROVE Serving(g)'
  <2>1. /\ gPc[g] \in {"seal", "sealed"} /\ Same /\ gOpen' = gOpen /\ gRes' = gRes
        /\ gPc'[g] = IF HasOpen(g) THEN "open" ELSE "final"
        /\ gPc[g] = "seal" => gHour[g] >= SealUntil(g)
    BY <1>0, <1>17 DEF PutDay, Sealing, Limit, Goto, TypeOK, history, Same
  <2>2. Holds(gRes[g], gDay[g], SealUntil(g))
    <3>1. CASE gPc[g] = "sealed"
      BY <1>0, <3>1 DEF Serving
    <3>2. CASE gPc[g] = "seal"
      <4>1. Holds(gRes[g], gDay[g], gHour[g]) /\ \A t \in onTime : HourOf(t) \in Int
        BY <1>0, <1>01, <3>2 DEF Serving
      <4> QED
        BY <1>01, <2>1, <3>2, <4>1 DEF Holds
    <3> QED
      BY <2>1, <3>1, <3>2
  <2>3. CASE HasOpen(g)
    BY <1>12, <2>1, <2>2, <2>3 DEF OpenPcs
  <2>4. CASE ~HasOpen(g)
    <3>1. SealUntil(g) = DayEnd(gDay[g]) /\ gRes[g] \subseteq store
      BY <1>0, <1>2, <2>1, <2>4 DEF OpenPcs, PastGet
    <3> QED
      BY <1>0, <1>3, <1>8, <2>1, <2>2, <2>4, <3>1
  <2> QED
    BY <2>3, <2>4
<1>18. ASSUME ReadLatest(g) PROVE Serving(g)'
  <2>1. /\ gPc[g] = "open" /\ gPc'[g] = "look" /\ gDay' = gDay /\ gDue' = gDue
        /\ gOpen' = gOpen /\ gRes' = gRes /\ gLatest'[g] = latest
    BY <1>0, <1>18 DEF ReadLatest, Goto, TypeOK, history
  <2>2. SealUntil(g)' = SealUntil(g) /\ HasOpen(g)' = HasOpen(g)
    BY <2>1 DEF SealUntil, HasOpen
  <2> QED
    BY <1>0, <1>1, <2>1, <2>2 DEF Serving, Holds, OpenPcs
<1>19. ASSUME LookOpen(g) PROVE Serving(g)'
  <2>1. gPc[g] = "look" /\ Same /\ gOpen' = gOpen /\ gLatest' = gLatest
    BY <1>19 DEF LookOpen, history, Same
  <2>2. ASSUME NEW e \in openCache, Usable(e, g), Respond(g, WithOpen(g, e.items)),
               Goto(g, "final")
        PROVE  Serving(g)'
    <3>1. gRes'[g] = WithOpen(g, e.items) /\ gPc'[g] = "final"
      BY <1>0, <2>2 DEF Respond, Goto, TypeOK
    <3>2. /\ e.items \subseteq store /\ e.through \in Int
          /\ e.hour = gOpen[g] /\ e.through = gLatest[g]
          /\ OpenHolds(e.items, gOpen[g], gLatest[g])
      BY <1>0, <1>01, <2>2 DEF PastCache, ShownCache, Usable
    <3>3. \A t \in gDue[g] : t <= gLatest[g]
      BY <1>0, <2>1 DEF Serving
    <3>4. \A t \in e.items : \A u \in onTime : HourOf(u) = gOpen[g] /\ u <= t
                                                  => u \in e.items
      <4>1. \A t \in store : t \in Int
        BY <1>0, <1>01
      <4> QED
        BY <1>0, <3>2, <4>1 DEF OpenHolds
    <3> QED
      BY <1>9, <2>1, <3>1, <3>2, <3>3, <3>4 DEF OpenHolds
  <2>3. ASSUME Goto(g, "make"), UNCHANGED gRes PROVE Serving(g)'
    <3>1. gPc'[g] = "make"
      BY <1>0, <2>3 DEF Goto, TypeOK
    <3>2. SealUntil(g)' = SealUntil(g) /\ HasOpen(g)' = HasOpen(g)
      BY <2>1 DEF SealUntil, HasOpen, Same
    <3> QED
      BY <1>0, <1>1, <2>1, <2>3, <3>1, <3>2 DEF Serving, Holds, OpenPcs, Same
  <2> QED
    BY <1>19, <2>2, <2>3 DEF LookOpen
<1>20. ASSUME MakeOpen(g) PROVE Serving(g)'
  <2>1. /\ gPc[g] = "make" /\ gPc'[g] = "put" /\ Same /\ gOpen' = gOpen
        /\ gLatest' = gLatest /\ gRes' = gRes /\ gItems'[g] = Hour(gOpen[g])
    BY <1>0, <1>20 DEF MakeOpen, Goto, TypeOK, history, Same
  <2>2. SealUntil(g)' = SealUntil(g) /\ HasOpen(g)' = HasOpen(g)
    BY <2>1 DEF SealUntil, HasOpen, Same
  <2> DEFINE R == gItems'[g]
  <2>3. R \subseteq Ticks /\ \A t \in store : t \in R <=> HourOf(t) = gOpen[g]
    BY <1>0, <2>1 DEF Hour
  <2>4. \A t \in R : t <= Through(g)'
    BY <2>3, GreatestFacts DEF Through
  <2>5. OpenHolds(gItems[g], gOpen[g], Through(g))'
    BY <1>0, <1>1, <2>1, <2>3, <2>4 DEF OpenHolds, Hour
  <2>6. \A t \in gDue[g] : HourOf(t) = gOpen[g] => t \in R
    BY <1>0, <2>3
  <2> HIDE DEF R
  <2> QED
    BY <1>0, <1>1, <2>1, <2>2, <2>5, <2>6 DEF Serving, Holds, OpenPcs, Same, R
<1>21. ASSUME PutOpen(g) PROVE Serving(g)'
  <2>1. /\ gPc[g] = "put" /\ gPc'[g] = "final" /\ Same
        /\ gRes'[g] = WithOpen(g, gItems[g])
    BY <1>0, <1>21 DEF PutOpen, Respond, Goto, TypeOK, history, Same
  <2>2. /\ gItems[g] \subseteq store /\ OpenHolds(gItems[g], gOpen[g], Through(g))
        /\ \A t \in gDue[g] : HourOf(t) = gOpen[g] => t \in gItems[g]
    BY <1>0, <2>1 DEF Serving, PastGet
  <2>3. Through(g) \in store
    BY <2>1, ThroughIsStored
  <2>4. \A t \in gItems[g] : \A u \in onTime : HourOf(u) = gOpen[g] /\ u <= t
                                                  => u \in gItems[g]
    <3>1. \A t \in store : t \in Int
      BY <1>0, <1>01
    <3> QED
      BY <1>0, <2>2, <2>3, <3>1 DEF OpenHolds
  <2> QED
    BY <1>9, <2>1, <2>2, <2>4 DEF OpenHolds
<1>22. ASSUME LookAgain(g) PROVE Serving(g)'
  <2>1. /\ gPc[g] = "final" /\ gPc'[g] = "done" /\ Same
        /\ gRes'[g] = IF FullySealed(gDay[g]) THEN entry[gDay[g]] ELSE gRes[g]
    BY <1>0, <1>22 DEF LookAgain, Respond, Goto, TypeOK, history, Same
  <2>2. CASE FullySealed(gDay[g])
    BY <1>0, <1>4, <1>8, <2>1, <2>2
  <2>3. CASE ~FullySealed(gDay[g])
    BY <1>0, <1>7, <2>1, <2>3 DEF Serving, Answer
  <2> QED
    BY <2>2, <2>3
<1>23. ASSUME Done(g) PROVE Serving(g)'
  <2>1. gPc'[g] = "idle" /\ gDue'[g] = {}
    BY <1>0, <1>23 DEF Done, Goto, TypeOK
  <2> QED
    BY <2>1 DEF Serving, OpenPcs
<1>24. Serving(g)'
  BY <1>10, <1>11, <1>13, <1>14, <1>15, <1>16, <1>17, <1>18, <1>19, <1>20, <1>21,
     <1>22, <1>23 DEF Serve
<1> QED
  BY <1>5, <1>6, <1>24 DEF ShownInv

LEMMA ShownInvNext ==
    ASSUME TypeInv, SealInv, PastInv, ShownInv, [Next]_vars PROVE ShownInv'
<1>1. CASE UNCHANGED vars
  <2>1. UNCHANGED <<cache, openCache, getter, history>>
    BY <1>1 DEF vars
  <2>2. \A g \in Getters : Serving(g)'
    BY <2>1, ServingFrame DEF ShownInv, SameGet, getter, history
  <2> QED
    BY <2>1, <2>2 DEF ShownInv, ShownCache, Holds, OpenHolds, SealedFrom, cache,
       history
<1> QED
  BY <1>1, NothingToFill, ShownInvAppend, ShownInvWriter, ShownInvServe DEF Next

----------------------------------------------------------------------------
(* What a warmed ISU is promised.                                          *)

GraphInv == TypeInv /\ SealInv /\ PastInv /\ ShownInv

LEMMA GraphInvariant == ASSUME Seed # {} PROVE Spec => []GraphInv
<1>1. Init => GraphInv
  BY TypeInvInit, SealInvInit, PastInvInit, ShownInvInit DEF GraphInv
<1>2. GraphInv /\ [Next]_vars => GraphInv'
  BY TypeInvNext, SealInvNext, PastInvNext, ShownInvNext DEF GraphInv
<1> QED
  BY <1>1, <1>2, PTL DEF Spec

\* For a warmed ISU, whatever GETs and batches do at the same time: when all
\* conditions arrive in order, a sealed hour shows exactly the conditions of
\* that hour in memory (comment of graphCacheEntry).
THEOREM GraphSealedIsExact == ASSUME Seed # {} PROVE Spec => []SealedIsExact
<1>1. ASSUME GraphInv PROVE SealedIsExact
  <2> SUFFICES ASSUME InOrder, NEW d \in Days
               PROVE  {t \in entry[d] : HourOf(t) < SealedFrom(d)}
                          = {t \in store \cap TicksOf(d) : HourOf(t) < SealedFrom(d)}
    BY DEF SealedIsExact
  <2>1. entry[d] \subseteq store /\ entry[d] \subseteq TicksOf(d)
    BY <1>1 DEF GraphInv, TypeInv, TypeOK, PastInv, PastCache
  <2>2. Holds(entry[d], d, SealedFrom(d)) /\ store = onTime
    BY <1>1 DEF GraphInv, ShownInv, ShownCache, InOrder
  <2> QED
    BY <2>1, <2>2 DEF Holds
<1> QED
  BY <1>1, GraphInvariant, PTL

\* For a warmed ISU, a GET shows every condition of its day that was on time and
\* whose batch had been finished when the GET began, whichever cache answered it.
THEOREM GraphResponseComplete == ASSUME Seed # {} PROVE Spec => []ResponseComplete
<1>1. GraphInv => ResponseComplete
  BY DEF GraphInv, ShownInv, Serving, Answer, ResponseComplete
<1> QED
  BY <1>1, GraphInvariant, PTL

\* For a warmed ISU, the slots of one response are a snapshot although they are
\* read at different moments: when all conditions arrive in order, none is
\* missing that is older than one shown.
THEOREM GraphResponseIsSnapshot ==
    ASSUME Seed # {} PROVE Spec => []ResponseIsSnapshot
<1>1. GraphInv => ResponseIsSnapshot
  BY DEF GraphInv, ShownInv, Serving, Answer, ResponseIsSnapshot, InOrder
<1> QED
  BY <1>1, GraphInvariant, PTL
=============================================================================
