---------------------------- MODULE PagingProofs ----------------------------
(***************************************************************************)
(* Proofs about the condition store and the page on top of it, for every   *)
(* initial content, every set of POSTs and queries and every page size.    *)
(* The slice is ascending and holds the first condition of every timestamp *)
(* and nothing else; GET /api/condition answers with the newest matching   *)
(* conditions; as long as no search overtakes a request there is one       *)
(* request at a time, and the pages turned are the answer to the search.   *)
(***************************************************************************)
EXTENDS Paging, TLAPS, SequenceTheorems, FiniteSetTheorems, WellFoundedInduction

----------------------------------------------------------------------------
(* The operators.                                                          *)

\* The facts about a sequence of conditions that the provers need at hand.
LEMMA ConditionsFacts ==
    ASSUME NEW s \in Seq(Condition)
    PROVE  /\ Len(s) \in Nat /\ DOMAIN s = 1..Len(s)
           /\ \A m \in 1..Len(s) : s[m] \in Condition /\ s[m].ts \in Nat
<1>1. Len(s) \in Nat /\ DOMAIN s = 1..Len(s)
  BY LenProperties
<1>2. \A c \in Condition : c.ts \in Nat
  BY DEF Condition
<1>3. \A m \in 1..Len(s) : s[m] \in Condition
  BY ElementOfSeq
<1> QED
  BY <1>1, <1>2, <1>3

\* The binary search has a result, and it is the place for the timestamp.
LEMMA SearchIsPlace ==
    ASSUME NEW s \in Seq(Condition), Ascending(s), NEW t \in Nat
    PROVE  /\ Search(s, t) \in 1..(Len(s) + 1)
           /\ \A m \in 1..Len(s) : m < Search(s, t) => s[m].ts < t
           /\ \A m \in 1..Len(s) : Search(s, t) <= m => t <= s[m].ts
<1> DEFINE T == {n \in 1..(Len(s) + 1) : n = Len(s) + 1 \/ t <= s[n].ts}
           IsPlace(n) == /\ \A m \in 1..Len(s) : m < n => s[m].ts < t
                         /\ \A m \in 1..Len(s) : n <= m => t <= s[m].ts
<1>1. Len(s) \in Nat /\ \A m \in 1..Len(s) : s[m].ts \in Nat
  BY ConditionsFacts
<1>2. T \subseteq Nat /\ T # {}
  <2>1. 1..(Len(s) + 1) \subseteq Nat /\ Len(s) + 1 \in 1..(Len(s) + 1)
    BY <1>1
  <2> QED
    BY <2>1
<1>3. PICK n \in T : \A k \in T : ~(<<k, n>> \in OpToRel(<, Nat))
  BY <1>2, WFMin, NatLessThanWellFounded
<1>4. \A k \in T : ~(k < n)
  BY <1>2, <1>3 DEF OpToRel
<1>5. ASSUME NEW m \in 1..Len(s), m < n PROVE s[m].ts < t
  BY <1>1, <1>4, <1>5
<1>6. ASSUME NEW m \in 1..Len(s), n <= m PROVE t <= s[m].ts
  <2>1. n \in 1..Len(s) /\ t <= s[n].ts
    BY <1>1, <1>6
  <2>2. n = m \/ s[n].ts < s[m].ts
    BY <2>1, <1>6, <1>1 DEF Ascending
  <2> QED
    BY <2>1, <2>2, <1>1
<1>7. n \in 1..(Len(s) + 1) /\ IsPlace(n)
  BY <1>5, <1>6
<1> QED
  BY <1>7 DEF Search

\* InsertAt puts c at place n and moves what was there and behind by one.
LEMMA InsertAtProperties ==
    ASSUME NEW s \in Seq(Condition), NEW n \in 1..(Len(s) + 1),
           NEW c \in Condition
    PROVE  /\ InsertAt(s, n, c) \in Seq(Condition)
           /\ Len(InsertAt(s, n, c)) = Len(s) + 1
           /\ \A k \in 1..(Len(s) + 1) :
                 InsertAt(s, n, c)[k] = IF k < n THEN s[k]
                                        ELSE IF k = n THEN c ELSE s[k - 1]
<1> DEFINE a == SubSeq(s, 1, n - 1)
           b == <<c>>
           d == SubSeq(s, n, Len(s))
<1>0. Len(s) \in Nat /\ \A i \in 1..Len(s) : s[i] \in Condition
  BY ConditionsFacts
<1>1. /\ a \in Seq(Condition) /\ Len(a) = n - 1
      /\ \A i \in 1..(n - 1) : a[i] = s[i]
  BY <1>0, SubSeqProperties
<1>2. /\ d \in Seq(Condition) /\ Len(d) = Len(s) - n + 1
      /\ \A i \in 1..(Len(s) - n + 1) : d[i] = s[n + i - 1]
  BY <1>0, SubSeqProperties
<1>3. b \in Seq(Condition) /\ Len(b) = 1 /\ b[1] = c
  OBVIOUS
<1> HIDE DEF a, b, d
<1>4. /\ a \o b \in Seq(Condition) /\ Len(a \o b) = n
      /\ \A i \in 1..n : (a \o b)[i] = IF i < n THEN s[i] ELSE c
  <2>1. /\ a \o b \in Seq(Condition) /\ Len(a \o b) = Len(a) + Len(b)
        /\ \A i \in 1..(Len(a) + Len(b)) :
              (a \o b)[i] = IF i <= Len(a) THEN a[i] ELSE b[i - Len(a)]
    BY <1>1, <1>3, ConcatProperties
  <2>2. Len(a) + Len(b) = n /\ n \in 1..(Len(s) + 1)
    BY <1>0, <1>1, <1>3
  <2>3. ASSUME NEW i \in 1..n PROVE (a \o b)[i] = IF i < n THEN s[i] ELSE c
    <3>1. (a \o b)[i] = IF i <= n - 1 THEN a[i] ELSE b[i - (n - 1)]
      BY <2>1, <2>2, <1>1
    <3>2. CASE i < n
      BY <3>1, <3>2, <2>2, <1>0, <1>1
    <3>3. CASE i = n
      <4>1. (a \o b)[i] = b[1]
        BY <3>1, <3>3, <2>2, <1>0
      <4> QED
        BY <4>1, <3>3, <1>3, <2>2, <1>0
    <3> QED
      BY <3>2, <3>3, <2>2, <1>0
  <2> QED
    BY <2>1, <2>2, <2>3
<1>5. /\ (a \o b) \o d \in Seq(Condition)
      /\ Len((a \o b) \o d) = Len(s) + 1
      /\ \A i \in 1..(Len(s) + 1) : ((a \o b) \o d)[i] =
              IF i <= n THEN (a \o b)[i] ELSE d[i - n]
  <2>1. \A x, y \in Seq(Condition) :
           /\ x \o y \in Seq(Condition) /\ Len(x \o y) = Len(x) + Len(y)
           /\ \A i \in 1..(Len(x) + Len(y)) :
                 (x \o y)[i] = IF i <= Len(x) THEN x[i] ELSE y[i - Len(x)]
    BY ConcatProperties
  <2>2. /\ (a \o b) \o d \in Seq(Condition)
        /\ Len((a \o b) \o d) = Len(a \o b) + Len(d)
        /\ \A i \in 1..(Len(a \o b) + Len(d)) : ((a \o b) \o d)[i] =
              IF i <= Len(a \o b) THEN (a \o b)[i] ELSE d[i - Len(a \o b)]
    BY <1>2, <1>4, <2>1
  <2>3. Len(a \o b) + Len(d) = Len(s) + 1 /\ Len(a \o b) = n
    BY <1>0, <1>2, <1>4
  <2> QED
    BY <2>2, <2>3
<1>6. ASSUME NEW k \in 1..(Len(s) + 1)
      PROVE ((a \o b) \o d)[k] = IF k < n THEN s[k]
                                 ELSE IF k = n THEN c ELSE s[k - 1]
  <2>1. CASE k <= n
    BY <2>1, <1>0, <1>4, <1>5
  <2>2. CASE k > n
    <3>1. ((a \o b) \o d)[k] = d[k - n] /\ k - n \in 1..(Len(s) - n + 1)
      BY <2>2, <1>0, <1>5
    <3>2. d[k - n] = s[n + (k - n) - 1] /\ n + (k - n) - 1 = k - 1
      BY <3>1, <1>0, <1>2
    <3> QED
      BY <3>1, <3>2, <2>2, <1>0
  <2>3. k <= n \/ k > n
    BY <1>0
  <2> QED
    BY <2>1, <2>2, <2>3
<1>7. InsertAt(s, n, c) = (a \o b) \o d
  BY DEF InsertAt, a, b, d
<1> QED
  BY <1>5, <1>6, <1>7

\* Is the timestamp of c in s?
Known(s, c) == \E m \in 1..Len(s) : s[m].ts = c.ts

\* A turn of the loop in appendIsuConditions keeps the slice ascending, adds
\* the condition when its timestamp is new, and changes nothing when it is not.
LEMMA InsertedProperties ==
    ASSUME NEW s \in Seq(Condition), Ascending(s), NEW c \in Condition
    PROVE  /\ Inserted(s, c) \in Seq(Condition)
           /\ Ascending(Inserted(s, c))
           /\ Known(s, c) => Inserted(s, c) = s
           /\ ~Known(s, c) => Range(Inserted(s, c)) = Range(s) \cup {c}
<1> DEFINE n == Search(s, c.ts)
<1>1. c.ts \in Nat /\ Len(s) \in Nat /\ \A m \in 1..Len(s) : s[m].ts \in Nat
  <2>1. c.ts \in Nat
    BY DEF Condition
  <2> QED
    BY <2>1, ConditionsFacts
<1>2. /\ n \in 1..(Len(s) + 1)
      /\ \A m \in 1..Len(s) : m < n => s[m].ts < c.ts
      /\ \A m \in 1..Len(s) : n <= m => c.ts <= s[m].ts
  BY <1>1, SearchIsPlace
<1> HIDE DEF n
<1>3. CASE s = <<>> \/ s[Len(s)].ts < c.ts
  <2>1. Inserted(s, c) = Append(s, c)
    BY <1>3 DEF Inserted
  <2>2. \A m \in 1..Len(s) : s[m].ts < c.ts
    <3> SUFFICES ASSUME NEW m \in 1..Len(s) PROVE s[m].ts < c.ts
      OBVIOUS
    <3>1. Len(s) \in 1..Len(s) /\ s # <<>>
      BY <1>1
    <3>2. m = Len(s) \/ s[m].ts < s[Len(s)].ts
      BY <3>1, <1>1 DEF Ascending
    <3> QED
      BY <3>1, <3>2, <1>1, <1>3
  <2>3. ~Known(s, c)
    BY <2>2, <1>1 DEF Known
  <2>4. Ascending(Append(s, c))
    BY <2>2, <1>1 DEF Ascending
  <2>5. Range(Append(s, c)) = Range(s) \cup {c}
    <3>1. /\ DOMAIN Append(s, c) = 1..(Len(s) + 1) /\ DOMAIN s = 1..Len(s)
          /\ \A m \in 1..Len(s) : Append(s, c)[m] = s[m]
          /\ Append(s, c)[Len(s) + 1] = c
      OBVIOUS
    <3> QED
      BY <3>1, <1>1 DEF Range
  <2> QED
    BY <2>1, <2>3, <2>4, <2>5
<1>4. CASE ~(s = <<>> \/ s[Len(s)].ts < c.ts) /\ n <= Len(s) /\ s[n].ts = c.ts
  BY <1>4, <1>2 DEF Inserted, n, Known
<1>5. CASE ~(s = <<>> \/ s[Len(s)].ts < c.ts) /\ ~(n <= Len(s) /\ s[n].ts = c.ts)
  <2> DEFINE z == InsertAt(s, n, c)
  <2>1. Inserted(s, c) = z
    BY <1>5 DEF Inserted, n
  <2>2. /\ z \in Seq(Condition) /\ Len(z) = Len(s) + 1
        /\ \A k \in 1..(Len(s) + 1) :
              z[k] = IF k < n THEN s[k] ELSE IF k = n THEN c ELSE s[k - 1]
    BY <1>2, InsertAtProperties
  <2> HIDE DEF z
  <2>3. ASSUME NEW m \in 1..Len(s), n <= m PROVE c.ts < s[m].ts
    <3>1. c.ts < s[n].ts
      BY <1>1, <1>2, <1>5, <2>3
    <3>2. n = m \/ s[n].ts < s[m].ts
      BY <1>1, <1>2, <2>3 DEF Ascending
    <3> QED
      BY <1>1, <1>2, <2>3, <3>1, <3>2
  <2>4. ~Known(s, c)
    BY <1>1, <1>2, <2>3 DEF Known
  <2>5. ASSUME NEW k \in 1..Len(z), NEW l \in 1..Len(z), k < l
        PROVE z[k].ts < z[l].ts
    <3>1. CASE l < n
      BY <3>1, <2>2, <2>5, <1>1, <1>2 DEF Ascending
    <3>2. CASE l = n
      <4>1. k \in 1..Len(s) /\ k < n /\ z[k] = s[k] /\ z[l] = c
        BY <3>2, <2>2, <2>5, <1>1, <1>2
      <4> QED
        BY <4>1, <1>2
    <3>3. CASE l > n /\ k = n
      <4>1. l - 1 \in 1..Len(s) /\ n <= l - 1 /\ z[k] = c /\ z[l] = s[l - 1]
        BY <3>3, <2>2, <1>1, <1>2
      <4> QED
        BY <4>1, <2>3
    <3>4. CASE l > n /\ k < n
      <4>1. /\ l - 1 \in 1..Len(s) /\ k \in 1..Len(s) /\ k < l - 1
            /\ z[k] = s[k] /\ z[l] = s[l - 1]
        BY <3>4, <2>2, <1>1, <1>2
      <4> QED
        BY <4>1 DEF Ascending
    <3>5. CASE l > n /\ k > n
      <4>1. /\ l - 1 \in 1..Len(s) /\ k - 1 \in 1..Len(s) /\ k - 1 < l - 1
            /\ z[k] = s[k - 1] /\ z[l] = s[l - 1]
        BY <3>5, <2>2, <2>5, <1>1, <1>2
      <4> QED
        BY <4>1 DEF Ascending
    <3> QED
      BY <3>1, <3>2, <3>3, <3>4, <3>5, <1>1, <1>2, <2>2
  <2>6. Ascending(z)
    BY <2>5 DEF Ascending
  <2>7. Range(z) = Range(s) \cup {c}
    <3>1. DOMAIN z = 1..(Len(s) + 1) /\ DOMAIN s = 1..Len(s)
      BY <2>2
    <3>2. ASSUME NEW m \in 1..Len(s) PROVE \E k \in 1..(Len(s) + 1) : z[k] = s[m]
      <4>1. CASE m < n
        <5>1. m \in 1..(Len(s) + 1) /\ z[m] = s[m]
          BY <4>1, <2>2, <1>1
        <5> QED
          BY <5>1
      <4>2. CASE m >= n
        <5>1. m + 1 \in 1..(Len(s) + 1) /\ z[m + 1] = s[m]
          BY <4>2, <2>2, <1>1, <1>2
        <5> QED
          BY <5>1
      <4> QED
        BY <4>1, <4>2, <1>1, <1>2
    <3>3. z[n] = c
      BY <2>2, <1>2
    <3>4. ASSUME NEW k \in 1..(Len(s) + 1)
          PROVE z[k] = c \/ \E m \in 1..Len(s) : z[k] = s[m]
      <4>1. CASE k < n
        BY <4>1, <2>2, <1>1, <1>2
      <4>2. CASE k > n
        <5>1. k - 1 \in 1..Len(s) /\ z[k] = s[k - 1]
          BY <4>2, <2>2, <1>1, <1>2
        <5> QED
          BY <5>1
      <4> QED
        BY <4>1, <4>2, <3>3, <1>1, <1>2
    <3> QED
      BY SMTT(30), <3>1, <3>2, <3>3, <3>4, <1>2 DEF Range
  <2> QED
    BY <2>1, <2>2, <2>4, <2>6, <2>7
<1> QED
  BY <1>3, <1>4, <1>5

----------------------------------------------------------------------------
(* The store.                                                              *)

\* What the conditions handled so far amount to when one more comes.
LEMMA AcceptedAppend ==
    ASSUME NEW h \in Seq(Condition), NEW c \in Condition
    PROVE  /\ Known(h, c) => Accepted(Append(h, c)) = Accepted(h)
           /\ ~Known(h, c) => Accepted(Append(h, c)) = Accepted(h) \cup {c}
<1> DEFINE g == Append(h, c)
           N == Len(h)
<1>1. /\ N \in Nat /\ DOMAIN h = 1..N /\ DOMAIN g = 1..(N + 1)
      /\ \A m \in 1..N : g[m] = h[m]
      /\ g[N + 1] = c
  BY ConditionsFacts
<1> HIDE DEF g, N
<1>2. \A n \in 1..N : First(g, n) <=> First(h, n)
  BY <1>1 DEF First
<1>3. First(g, N + 1) <=> ~Known(h, c)
  <2>1. First(g, N + 1) <=> \A m \in 1..N : h[m].ts # c.ts
    BY <1>1 DEF First
  <2> QED
    BY <2>1 DEF Known, N
<1>4. Accepted(h) = {h[n] : n \in {m \in 1..N : First(h, m)}}
  BY <1>1 DEF Accepted
<1>5. Accepted(g) = {g[n] : n \in {m \in 1..(N + 1) : First(g, m)}}
  BY <1>1 DEF Accepted
<1>6. 1..(N + 1) = (1..N) \cup {N + 1}
  BY <1>1
<1>7. CASE Known(h, c)
  <2>1. {m \in 1..(N + 1) : First(g, m)} = {m \in 1..N : First(h, m)}
    BY <1>2, <1>3, <1>6, <1>7
  <2>2. Accepted(g) = Accepted(h)
    BY <2>1, <1>1, <1>4, <1>5
  <2> QED
    BY <2>2, <1>7 DEF g
<1>8. CASE ~Known(h, c)
  <2>1. {m \in 1..(N + 1) : First(g, m)}
          = {m \in 1..N : First(h, m)} \cup {N + 1}
    BY <1>2, <1>3, <1>6, <1>8
  <2>2. Accepted(g) = Accepted(h) \cup {c}
    BY <2>1, <1>1, <1>4, <1>5
  <2> QED
    BY <2>2, <1>8 DEF g
<1> QED
  BY <1>7, <1>8

\* The inductive invariant: besides the types and the two promises, memory
\* and the conditions handled have the same timestamps.
StoreInv ==
    /\ StoreTypeOK
    /\ StoreIsAscending
    /\ StoreHoldsFirst
    /\ \A c \in Condition : Known(items, c) <=> Known(posted, c)

LEMMA StoreInvInit == Init => StoreInv
<1> SUFFICES ASSUME Init PROVE StoreInv
  OBVIOUS
<1>1. items = Seed /\ incoming = <<>> /\ posted = Seed
  BY DEF Init
<1>2. Seed \in Seq(Condition) /\ Ascending(Seed)
  BY StoreAssumption
<1>3. Range(Seed) = Accepted(Seed)
  <2>1. Len(Seed) \in Nat /\ DOMAIN Seed = 1..Len(Seed)
        /\ \A m \in 1..Len(Seed) : Seed[m].ts \in Nat
    BY <1>2, ConditionsFacts
  <2>2. \A n \in 1..Len(Seed) : First(Seed, n)
    <3> SUFFICES ASSUME NEW n \in 1..Len(Seed), NEW m \in 1..(n - 1)
                 PROVE Seed[m].ts # Seed[n].ts
      BY DEF First
    <3>1. m \in 1..Len(Seed) /\ m < n
      BY <2>1
    <3>2. Seed[m].ts < Seed[n].ts
      BY <3>1, <1>2 DEF Ascending
    <3> QED
      BY <3>1, <3>2, <2>1
  <2>3. {m \in DOMAIN Seed : First(Seed, m)} = DOMAIN Seed
    BY <2>1, <2>2
  <2> QED
    BY <2>3 DEF Accepted, Range
<1>4. StoreTypeOK
  BY <1>1, <1>2 DEF StoreTypeOK
<1> QED
  BY <1>1, <1>2, <1>3, <1>4 DEF StoreInv, StoreIsAscending, StoreHoldsFirst

LEMMA StoreInvNext == ASSUME StoreInv, [StoreNext]_store PROVE StoreInv'
<1>1. CASE UNCHANGED store
  BY <1>1 DEF store, StoreInv, StoreTypeOK, StoreIsAscending, StoreHoldsFirst
<1>2. ASSUME NEW batch \in Batches, Post(batch) PROVE StoreInv'
  <2>1. batch \in Seq(Condition)
    BY StoreAssumption
  <2> QED
    BY <1>2, <2>1 DEF Post, StoreInv, StoreTypeOK, StoreIsAscending,
                      StoreHoldsFirst
<1>3. CASE InsertNext
  <2> DEFINE c == Head(incoming)
  <2>1. /\ c \in Condition /\ Tail(incoming) \in Seq(Condition)
        /\ items' = Inserted(items, c) /\ posted' = Append(posted, c)
        /\ incoming' = Tail(incoming)
        /\ items \in Seq(Condition) /\ posted \in Seq(Condition)
    BY <1>3, HeadTailProperties DEF InsertNext, StoreInv, StoreTypeOK
  <2> HIDE DEF c
  <2>2. /\ items' \in Seq(Condition) /\ Ascending(items')
        /\ Known(items, c) => items' = items
        /\ ~Known(items, c) => Range(items') = Range(items) \cup {c}
    BY <2>1, InsertedProperties DEF StoreInv, StoreIsAscending
  <2>3. /\ Known(posted, c) => Accepted(posted') = Accepted(posted)
        /\ ~Known(posted, c) => Accepted(posted') = Accepted(posted) \cup {c}
    BY <2>1, AcceptedAppend
  <2>4. Known(items, c) <=> Known(posted, c)
    BY <2>1 DEF StoreInv
  <2>5. posted' \in Seq(Condition)
    BY <2>1
  <2>6. StoreHoldsFirst'
    BY <2>2, <2>3, <2>4 DEF StoreInv, StoreHoldsFirst
  <2>7. ASSUME NEW d \in Condition
        PROVE  Known(items', d) <=> Known(posted', d)
    <3>1. Known(items', d) <=> Known(items, d) \/ d.ts = c.ts
      <4>1. CASE Known(items, c)
        BY <4>1, <2>2 DEF Known
      <4>2. CASE ~Known(items, c)
        <5>1. \A s \in Seq(Condition) :
                 Known(s, d) <=> \E e \in Range(s) : e.ts = d.ts
          BY ConditionsFacts DEF Known, Range
        <5> QED
          BY <4>2, <5>1, <2>1, <2>2
      <4> QED
        BY <4>1, <4>2
    <3>2. Known(posted', d) <=> Known(posted, d) \/ d.ts = c.ts
      <4>1. /\ Len(posted') = Len(posted) + 1 /\ Len(posted) \in Nat
            /\ posted'[Len(posted) + 1] = c
            /\ \A m \in 1..Len(posted) : posted'[m] = posted[m]
        BY <2>1
      <4>2. 1..(Len(posted) + 1) = (1..Len(posted)) \cup {Len(posted) + 1}
        BY <4>1
      <4> QED
        BY <4>1, <4>2 DEF Known
    <3>3. Known(items, d) <=> Known(posted, d)
      BY DEF StoreInv
    <3> QED
      BY <3>1, <3>2, <3>3
  <2>8. StoreTypeOK'
    BY <2>1, <2>2, <2>5 DEF StoreTypeOK
  <2> QED
    BY <2>2, <2>6, <2>7, <2>8 DEF StoreInv, StoreIsAscending
<1> QED
  BY <1>1, <1>2, <1>3 DEF StoreNext

\* The invariant holds of the store whoever calls it: types, ascending order,
\* and one condition, the first, of every timestamp handled.
THEOREM StoreInvariant == StoreSpec => []StoreInv
<1>1. Init => StoreInv
  BY StoreInvInit
<1>2. StoreInv /\ [StoreNext]_store => StoreInv'
  BY StoreInvNext
<1> QED
  BY <1>1, <1>2, PTL DEF StoreSpec

----------------------------------------------------------------------------
(* The page.                                                               *)

\* Whatever the user, the network and the writer do, the store takes steps of
\* its own specification.
THEOREM PagingUsesStore == Spec => StoreSpec
<1>1. PagingInit => Init
  BY DEF PagingInit
<1>2. [Next]_vars => [StoreNext]_store
  BY DEF Next, vars, SearchFor, TurnNext, TurnPrev, Serve, Receive, Fail,
         PostArrives, Insert, StoreNext
<1> QED
  BY <1>1, <1>2, PTL DEF Spec, StoreSpec

\* The slice of an ISU is strictly ascending at every moment.
THEOREM AlwaysAscending == Spec => []StoreIsAscending
<1>1. StoreInv => StoreIsAscending
  BY DEF StoreInv
<1> QED
  BY <1>1, PagingUsesStore, StoreInvariant, PTL

\* Memory holds, for every timestamp handled, the condition that came first,
\* and nothing else.
THEOREM AlwaysHoldsFirst == Spec => []StoreHoldsFirst
<1>1. StoreInv => StoreHoldsFirst
  BY DEF StoreInv
<1> QED
  BY <1>1, PagingUsesStore, StoreInvariant, PTL

\* The inductive invariant behind OneAtATime: while no search has overtaken a
\* request, a request under way is the only one and the overlay is there.
CoveredInv ==
    ~hasty => flights = {} \/ (loading = TRUE /\ \E f \in flights : flights = {f})

LEMMA CoveredInvInit == PagingInit => CoveredInv
BY DEF PagingInit, CoveredInv

LEMMA CoveredInvNext == ASSUME CoveredInv, [Next]_vars PROVE CoveredInv'
<1> USE DEF CoveredInv
<1>1. ASSUME NEW q \in Searches, SearchFor(q) PROVE CoveredInv'
  BY <1>1 DEF SearchFor, Fetch
<1>2. CASE TurnNext
  BY <1>2 DEF TurnNext, Fetch, history
<1>3. CASE TurnPrev
  BY <1>3 DEF TurnPrev
<1>4. ASSUME NEW f \in flights, Serve(f) PROVE CoveredInv'
  BY <1>4 DEF Serve, history, hook
<1>5. ASSUME NEW f \in flights, Receive(f) PROVE CoveredInv'
  BY <1>5 DEF Receive
<1>6. ASSUME NEW f \in flights, Fail(f) PROVE CoveredInv'
  BY <1>6 DEF Fail, hook
<1>7. ASSUME NEW batch \in Batches, PostArrives(batch) PROVE CoveredInv'
  BY <1>7 DEF PostArrives, history, hook
<1>8. CASE Insert
  BY <1>8 DEF Insert, history, hook
<1>9. CASE UNCHANGED vars
  BY <1>9 DEF vars, history, hook
<1> QED
  BY <1>1, <1>2, <1>3, <1>4, <1>5, <1>6, <1>7, <1>8, <1>9 DEF Next

\* As long as no search overtakes a request there is one request at a time.
THEOREM AlwaysOneAtATime == Spec => []OneAtATime
<1>1. PagingInit => CoveredInv
  BY CoveredInvInit
<1>2. CoveredInv /\ [Next]_vars => CoveredInv'
  BY CoveredInvNext
<1>3. CoveredInv => OneAtATime
  <2>1. Cardinality({}) = 0 /\ \A f : Cardinality({f}) = 1
    BY FS_EmptySet, FS_Singleton
  <2> QED
    BY SMTT(30), <2>1 DEF CoveredInv, OneAtATime
<1> QED
  BY <1>1, <1>2, <1>3, PTL DEF Spec

----------------------------------------------------------------------------
(* The answer.                                                             *)

LEMMA MinOfTwo ==
    ASSUME NEW a \in Nat, NEW b \in Nat
    PROVE  /\ Min({a, b}) \in Nat /\ Min({a, b}) <= a /\ Min({a, b}) <= b
           /\ Min({a, b}) = a \/ Min({a, b}) = b
<1>1. \E x \in {a, b} : \A y \in {a, b} : x <= y
  OBVIOUS
<1>2. Min({a, b}) \in {a, b} /\ \A y \in {a, b} : Min({a, b}) <= y
  BY <1>1 DEF Min
<1> QED
  BY <1>2

\* Going down a finite set of places meets each of them in its turn: there is
\* a k-th for every k up to their number, the k-th are descending, and every
\* place is one.
LEMMA TakenInTurn ==
    ASSUME NEW P \in SUBSET Nat, IsFiniteSet(P)
    PROVE  /\ Cardinality(P) \in Nat
           /\ \A k \in 1..Cardinality(P) : Taken(P, k) \in P
           /\ \A k, l \in 1..Cardinality(P) : k < l => Taken(P, l) < Taken(P, k)
           /\ \A n \in P : \E k \in 1..Cardinality(P) : n = Taken(P, k)
<1> DEFINE Above(n) == {m \in P : n <= m}
           N == Cardinality(P)
           r == [n \in P |-> Cardinality(Above(n))]
<1>1. N \in Nat
  BY FS_CardinalityType
<1>2. ASSUME NEW n \in P
      PROVE  IsFiniteSet(Above(n)) /\ Cardinality(Above(n)) \in 1..N
  <2>1. Above(n) \in SUBSET P /\ n \in Above(n)
    OBVIOUS
  <2>2. IsFiniteSet(Above(n)) /\ Cardinality(Above(n)) <= N
    BY <2>1, FS_Subset
  <2>3. Cardinality(Above(n)) \in Nat /\ Cardinality(Above(n)) # 0
    BY <2>1, <2>2, FS_CardinalityType, FS_EmptySet
  <2> QED
    BY <2>2, <2>3, <1>1
<1>3. ASSUME NEW m \in P, NEW n \in P, m < n
      PROVE  Cardinality(Above(n)) < Cardinality(Above(m))
  <2>1. m \in Nat /\ n \in Nat /\ \A k \in P : k \in Nat
    OBVIOUS
  <2>2. \A k \in P : n <= k => m <= k
    BY <1>3, <2>1
  <2>3. m <= m /\ ~(n <= m)
    BY <1>3, <2>1
  <2>4. Above(n) \in SUBSET Above(m) /\ m \in Above(m) /\ m \notin Above(n)
    BY <2>2, <2>3
  <2>5. /\ Cardinality(Above(n)) <= Cardinality(Above(m))
        /\ Cardinality(Above(m)) = Cardinality(Above(n)) => Above(m) = Above(n)
    BY <1>2, <2>4, FS_Subset
  <2> QED
    BY <1>1, <1>2, <2>4, <2>5
<1> HIDE DEF Above, N
<1>4. ASSUME NEW k \in 1..N PROVE \E n \in P : Cardinality(Above(n)) = k
  <2> SUFFICES ASSUME \A n \in P : Cardinality(Above(n)) # k PROVE FALSE
    OBVIOUS
  <2> DEFINE T == (1..N) \ {k}
  <2>1. IsFiniteSet(1..N) /\ Cardinality(1..N) = N
    BY <1>1, FS_Interval
  <2>2. IsFiniteSet(T) /\ Cardinality(T) = N - 1
    BY <2>1, FS_RemoveElement
  <2>3. r \in [P -> T]
    BY <1>2
  <2>4. Cardinality(T) < Cardinality(P)
    BY <1>1, <2>2 DEF N
  <2> HIDE DEF T, r
  <2>5. \E x, y \in P : x # y /\ r[x] = r[y]
    BY <2>2, <2>3, <2>4, FS_PigeonHole
  <2>6. PICK x \in P, y \in P : x # y /\ r[x] = r[y]
    BY <2>5
  <2>7. x < y \/ y < x
    BY <2>6
  <2>8. Cardinality(Above(x)) \in 1..N /\ Cardinality(Above(y)) \in 1..N
    BY <1>2
  <2>9. Cardinality(Above(x)) # Cardinality(Above(y))
    BY <1>1, <1>3, <2>7, <2>8
  <2> QED
    BY <2>6, <2>9 DEF r
<1>5. ASSUME NEW k \in 1..N
      PROVE  Taken(P, k) \in P /\ Cardinality(Above(Taken(P, k))) = k
  <2>1. Taken(P, k) = CHOOSE n \in P : Cardinality(Above(n)) = k
    BY DEF Taken, Above
  <2> QED
    BY <1>4, <2>1
<1>6. ASSUME NEW k \in 1..N, NEW l \in 1..N, k < l
      PROVE  Taken(P, l) < Taken(P, k)
  <2> DEFINE x == Taken(P, k)
             y == Taken(P, l)
  <2>1. x \in P /\ y \in P /\ Cardinality(Above(x)) = k /\ Cardinality(Above(y)) = l
    BY <1>5
  <2> HIDE DEF x, y
  <2>2. x # y
    BY <1>1, <1>6, <2>1
  <2>3. ~(x < y)
    BY <1>1, <1>3, <1>6, <2>1
  <2>4. x \in Nat /\ y \in Nat
    BY <2>1
  <2>5. y < x
    BY <2>2, <2>3, <2>4
  <2> QED
    BY <2>5 DEF x, y
<1>7. ASSUME NEW n \in P PROVE \E k \in 1..N : n = Taken(P, k)
  <2> DEFINE k == Cardinality(Above(n))
             x == Taken(P, k)
  <2>1. k \in 1..N
    BY <1>2
  <2>2. x \in P /\ Cardinality(Above(x)) = k
    BY <1>5, <2>1
  <2> HIDE DEF x
  <2>3. ~(x < n) /\ ~(n < x)
    BY <1>1, <1>3, <2>1, <2>2
  <2>4. x = n
    BY <2>2, <2>3
  <2> QED
    BY <2>1, <2>4 DEF x
<1> QED
  BY <1>1, <1>5, <1>6, <1>7 DEF N

\* The places the loop comes by are those of the conditions asked for.
LEMMA PlacesAreMatching ==
    ASSUME NEW s \in Seq(Condition), Ascending(s), NEW q \in Query
    PROVE  /\ Places(s, q) \in SUBSET (1..Len(s))
           /\ \A n \in 1..Len(s) : n \in Places(s, q) <=> s[n] \in Matching(Range(s), q)
<1> DEFINE e == End(s, q)
<1>1. /\ q.end \in Nat /\ q.start \in Nat /\ Len(s) \in Nat /\ DOMAIN s = 1..Len(s)
      /\ \A n \in 1..Len(s) : s[n] \in Condition /\ s[n].ts \in Nat
  BY ConditionsFacts DEF Query
<1>2. /\ e \in 0..Len(s)
      /\ \A n \in 1..Len(s) : n <= e => s[n].ts < q.end
      /\ \A n \in 1..Len(s) : e < n => q.end <= s[n].ts
  <2>1. /\ Search(s, q.end) \in 1..(Len(s) + 1)
        /\ \A m \in 1..Len(s) : m < Search(s, q.end) => s[m].ts < q.end
        /\ \A m \in 1..Len(s) : Search(s, q.end) <= m => q.end <= s[m].ts
    BY <1>1, SearchIsPlace
  <2>2. e = Search(s, q.end) - 1
    BY DEF End
  <2> HIDE DEF e
  <2> QED
    BY <1>1, <2>1, <2>2
<1> HIDE DEF e
<1>3. Places(s, q) = {n \in 1..e : /\ \A m \in n..e : q.start <= s[m].ts
                                   /\ s[n].flags \in Wanted(q.levels)}
  BY DEF Places, e
<1>4. ASSUME NEW n \in 1..Len(s)
      PROVE  s[n].flags \in Wanted(q.levels) <=> Level(s[n].flags) \in q.levels
  <2>1. s[n].flags \in SUBSET Flags
    BY <1>1 DEF Condition
  <2> QED
    BY <2>1 DEF Wanted
<1>5. ASSUME NEW n \in 1..Len(s)
      PROVE  s[n] \in Matching(Range(s), q) <=>
                q.start <= s[n].ts /\ s[n].ts < q.end /\ Level(s[n].flags) \in q.levels
  BY <1>1 DEF Matching, Range
<1>6. ASSUME NEW n \in 1..Len(s), n <= e, q.start <= s[n].ts
      PROVE  \A m \in n..e : q.start <= s[m].ts
  <2> SUFFICES ASSUME NEW m \in n..e PROVE q.start <= s[m].ts
    OBVIOUS
  <2>1. m \in 1..Len(s) /\ (m = n \/ n < m)
    BY <1>1, <1>2
  <2>2. m = n \/ s[n].ts < s[m].ts
    BY <2>1 DEF Ascending
  <2> QED
    BY <1>1, <1>6, <2>1, <2>2
<1>7. ASSUME NEW n \in 1..Len(s)
      PROVE  n \in Places(s, q) <=> s[n] \in Matching(Range(s), q)
  <2>1. ASSUME n \in Places(s, q) PROVE s[n] \in Matching(Range(s), q)
    <3>1. /\ n <= e /\ n \in n..e /\ s[n].flags \in Wanted(q.levels)
          /\ \A m \in n..e : q.start <= s[m].ts
      BY <1>1, <1>2, <1>3, <2>1
    <3> QED
      BY <1>2, <1>4, <1>5, <3>1
  <2>2. ASSUME s[n] \in Matching(Range(s), q) PROVE n \in Places(s, q)
    <3>1. q.start <= s[n].ts /\ s[n].ts < q.end /\ Level(s[n].flags) \in q.levels
      BY <1>5, <2>2
    <3>2. n <= e /\ n \in 1..e
      BY <1>1, <1>2, <3>1
    <3> QED
      BY <1>3, <1>4, <1>6, <3>1, <3>2
  <2> QED
    BY <2>1, <2>2
<1>8. Places(s, q) \in SUBSET (1..Len(s))
  BY <1>1, <1>2, <1>3
<1> QED
  BY <1>7, <1>8

\* What a page of conditions is.
IsPage(conditions) == conditions \in Seq(Condition) /\ Len(conditions) <= Limit

LEMMA MatchingFinite ==
    ASSUME NEW S, IsFiniteSet(S), NEW q
    PROVE  Matching(S, q) \subseteq S /\ IsFiniteSet(Matching(S, q))
<1>1. Matching(S, q) \in SUBSET S
  BY DEF Matching
<1> QED
  BY <1>1, FS_Subset

LEMMA ConditionsFinite ==
    ASSUME NEW s \in Seq(Condition)
    PROVE  IsFiniteSet(Range(s)) /\ Range(s) \subseteq Condition
<1>1. Len(s) \in Nat /\ DOMAIN s = 1..Len(s) /\ \A m \in 1..Len(s) : s[m] \in Condition
  BY ConditionsFacts
<1>2. s \in Surjection(1..Len(s), Range(s))
  BY <1>1 DEF Surjection, Range
<1>3. IsFiniteSet(1..Len(s))
  BY <1>1, FS_Interval
<1>4. IsFiniteSet(Range(s))
  BY <1>2, <1>3, FS_Surjection
<1> QED
  BY <1>1, <1>4 DEF Range

\* GET /api/condition answers with the newest matching conditions of the slice.
LEMMA PageIsNewest ==
    ASSUME NEW s \in Seq(Condition), Ascending(s), NEW q \in Query
    PROVE  IsPage(Page(s, q)) /\ IsNewest(Page(s, q), Range(s), q)
<1> DEFINE P == Places(s, q)
           M == Matching(Range(s), q)
           N == Min({Limit, Cardinality(P)})
           a == Page(s, q)
           T(k) == Taken(P, k)
<1>1. /\ Len(s) \in Nat /\ DOMAIN s = 1..Len(s)
      /\ \A n \in 1..Len(s) : s[n] \in Condition /\ s[n].ts \in Nat
  BY ConditionsFacts
<1>2. /\ P \in SUBSET (1..Len(s))
      /\ \A n \in 1..Len(s) : n \in P <=> s[n] \in M
  BY PlacesAreMatching
<1>3. P \in SUBSET Nat /\ IsFiniteSet(P)
  <2>1. IsFiniteSet(1..Len(s))
    BY <1>1, FS_Interval
  <2> QED
    BY <1>1, <1>2, <2>1, FS_Subset
<1> HIDE DEF P, M
<1>4. /\ Cardinality(P) \in Nat
      /\ \A k \in 1..Cardinality(P) : T(k) \in P
      /\ \A k, l \in 1..Cardinality(P) : k < l => T(l) < T(k)
      /\ \A n \in P : \E k \in 1..Cardinality(P) : n = T(k)
  BY <1>3, TakenInTurn
<1>5. /\ N \in Nat /\ N <= Limit /\ N <= Cardinality(P)
      /\ N = Limit \/ N = Cardinality(P)
  BY <1>4, MinOfTwo, StoreAssumption
<1> HIDE DEF N, T
<1>6. a = [k \in 1..N |-> s[T(k)]]
  BY DEF Page, P, N, T
<1> HIDE DEF a
<1>7. \A k \in 1..N : /\ k \in 1..Cardinality(P) /\ T(k) \in P /\ T(k) \in 1..Len(s)
                      /\ a[k] = s[T(k)]
  <2>1. \A k \in 1..N : k \in 1..Cardinality(P)
    BY <1>4, <1>5
  <2>2. \A k \in 1..N : a[k] = s[T(k)]
    BY <1>6
  <2> QED
    BY <1>2, <1>4, <2>1, <2>2
<1>8. a \in Seq(Condition) /\ Len(a) = N /\ DOMAIN a = 1..N
  <2>1. a \in [1..N -> Condition]
    BY <1>1, <1>6, <1>7
  <2>2. a \in Seq(Condition)
    BY <1>5, <2>1, SeqDef
  <2> QED
    BY <1>5, <1>6, <2>2, ConditionsFacts
<1>9. \A n \in 1..Len(s), m \in 1..Len(s) : n < m => s[n].ts < s[m].ts
  BY DEF Ascending
<1>10. ASSUME NEW k \in 1..N, NEW l \in 1..N, k < l PROVE a[k].ts > a[l].ts
  <2>1. T(l) < T(k) /\ T(k) \in 1..Len(s) /\ T(l) \in 1..Len(s)
    BY <1>4, <1>7, <1>10
  <2>2. s[T(l)].ts < s[T(k)].ts
    BY <1>9, <2>1
  <2> QED
    BY <1>1, <1>7, <2>1, <2>2
<1>11. Range(a) \subseteq M
  BY <1>2, <1>7, <1>8 DEF Range
<1>12. Cardinality(M) = Cardinality(P)
  <2> DEFINE f == [n \in P |-> s[n]]
  <2>1. f \in [P -> M]
    BY <1>2
  <2>2. \A c \in M : \E n \in P : f[n] = c
    <3> SUFFICES ASSUME NEW c \in M PROVE \E n \in P : f[n] = c
      OBVIOUS
    <3>1. c \in Range(s)
      BY DEF M, Matching
    <3>2. PICK n \in 1..Len(s) : s[n] = c
      BY <1>1, <3>1 DEF Range
    <3> QED
      BY <1>2, <3>2
  <2>3. \A m, n \in P : f[m] = f[n] => m = n
    <3> SUFFICES ASSUME NEW m \in P, NEW n \in P, m # n PROVE s[m] # s[n]
      OBVIOUS
    <3>1. m \in 1..Len(s) /\ n \in 1..Len(s) /\ (m < n \/ n < m)
      BY <1>1, <1>2
    <3> QED
      BY <1>1, <1>9, <3>1
  <2> HIDE DEF f
  <2>4. f \in Bijection(P, M)
    BY <2>1, <2>2, <2>3 DEF Bijection, Injection, Surjection, IsInjective
  <2>5. ExistsBijection(P, M)
    BY <2>4 DEF ExistsBijection
  <2> QED
    BY <1>3, <2>5, FS_Bijection
<1>13. ASSUME NEW c \in M \ Range(a), NEW d \in Range(a) PROVE c.ts < d.ts
  <2>1. c \in Range(s)
    BY DEF M, Matching
  <2>2. PICK n \in 1..Len(s) : s[n] = c
    BY <1>1, <2>1 DEF Range
  <2>3. n \in P
    BY <1>2, <2>2
  <2>4. PICK k \in 1..Cardinality(P) : n = T(k)
    BY <1>4, <2>3
  <2>5. k \notin 1..N
    BY <1>7, <1>8, <2>2, <2>4 DEF Range
  <2>6. PICK l \in 1..N : d = a[l]
    BY <1>8 DEF Range
  <2>7. l < k /\ l \in 1..Cardinality(P) /\ T(l) \in 1..Len(s) /\ d = s[T(l)]
    BY <1>4, <1>5, <1>7, <2>4, <2>5, <2>6
  <2>8. n < T(l)
    BY <1>4, <2>4, <2>7
  <2> QED
    BY <1>9, <2>2, <2>7, <2>8
<1>14. IsNewest(a, Range(s), q)
  <2>1. \A m, n \in DOMAIN a : m < n => a[m].ts > a[n].ts
    BY <1>8, <1>10
  <2>2. Len(a) = Min({Limit, Cardinality(M)})
    BY <1>8, <1>12 DEF N
  <2> QED
    BY <1>11, <1>13, <2>1, <2>2 DEF IsNewest, M
<1>15. IsPage(a)
  BY <1>5, <1>8 DEF IsPage
<1> QED
  BY <1>14, <1>15 DEF a

\* A matching condition that is not on a page is older than the last one of
\* a full page.
LEMMA NewestFull ==
    ASSUME NEW S, IsFiniteSet(S), S \subseteq Condition, NEW q, NEW a, IsPage(a),
           IsNewest(a, S, q), NEW c \in Matching(S, q) \ Range(a)
    PROVE  Len(a) = Limit /\ c.ts < a[Limit].ts
<1> DEFINE M == Matching(S, q)
<1>1. Len(a) \in Nat /\ DOMAIN a = 1..Len(a) /\ \A n \in 1..Len(a) : a[n].ts \in Nat
  BY ConditionsFacts DEF IsPage
<1>2. IsFiniteSet(M) /\ Cardinality(M) \in Nat
  BY MatchingFinite, FS_CardinalityType
<1>3. /\ \A m, n \in 1..Len(a) : m < n => a[m].ts > a[n].ts
      /\ Range(a) \subseteq M
      /\ Len(a) = Min({Limit, Cardinality(M)})
      /\ \A d \in Range(a) : c.ts < d.ts
  BY <1>1 DEF IsNewest
<1>4. Len(a) = Limit \/ Len(a) = Cardinality(M)
  BY <1>2, <1>3, MinOfTwo, StoreAssumption
<1>5. Cardinality(Range(a)) = Len(a)
  <2>1. \A m, n \in 1..Len(a) : m # n => a[m] # a[n]
    <3> SUFFICES ASSUME NEW m \in 1..Len(a), NEW n \in 1..Len(a), m # n
                 PROVE  a[m] # a[n]
      OBVIOUS
    <3>1. m < n \/ n < m
      BY <1>1
    <3>2. a[m].ts > a[n].ts \/ a[n].ts > a[m].ts
      BY <1>3, <3>1
    <3>3. a[m].ts \in Nat /\ a[n].ts \in Nat
      BY <1>1
    <3>4. a[m].ts # a[n].ts
      BY <3>2, <3>3
    <3> QED
      BY <3>4
  <2>2. a \in Bijection(1..Len(a), Range(a))
    <3>1. a \in [1..Len(a) -> Range(a)]
      BY <1>1 DEF Range, IsPage
    <3> QED
      BY <1>1, <2>1, <3>1 DEF Bijection, Injection, IsInjective, Surjection, Range
  <2>3. ExistsBijection(1..Len(a), Range(a))
    BY <2>2 DEF ExistsBijection
  <2>4. ASSUME NEW n \in Nat PROVE IsFiniteSet(1..n) /\ Cardinality(1..n) = n
    BY FS_Interval
  <2> QED
    BY <1>1, <2>3, <2>4, FS_Bijection
<1>6. Len(a) # Cardinality(M)
  <2>1. Range(a) # M
    OBVIOUS
  <2>2. Range(a) \in SUBSET M
    BY <1>3
  <2> HIDE DEF M
  <2> QED
    BY <1>2, <1>5, <2>1, <2>2, FS_Subset
<1>7. Len(a) = Limit /\ Limit \in 1..Len(a)
  <2>1. Len(a) = Limit
    BY <1>4, <1>6
  <2> QED
    BY <2>1, StoreAssumption
<1>8. a[Limit] \in Range(a)
  BY <1>1, <1>7 DEF Range
<1> QED
  BY <1>3, <1>7, <1>8

----------------------------------------------------------------------------
(* The types and the answers.                                              *)

FlightType(f, n) ==
    /\ f \in [id : 0..n, query : Query, served : BOOLEAN,
              answer : Seq(Condition), stored : SUBSET Condition]
    /\ IsPage(f.answer) /\ IsFiniteSet(f.stored)

TypeInv ==
    /\ query \in Query
    /\ page \in Nat \ {0} /\ loading \in BOOLEAN /\ clicks \in 0..MaxClicks
    /\ IsPage(shown)
    /\ cache \in Seq(Seq(Condition)) /\ page - 1 <= Len(cache)
    /\ \A p \in DOMAIN cache : IsPage(cache[p])
    /\ \A f \in flights : FlightType(f, clicks)

LEMMA EmptyPage == IsPage(<<>>)
BY StoreAssumption DEF IsPage

LEMMA NewFlight ==
    ASSUME NEW n \in Nat, NEW id \in 0..n, NEW q \in Query
    PROVE  FlightType(Flight(id, q), n)
<1>1. IsFiniteSet({})
  BY FS_EmptySet
<1> QED
  BY <1>1, EmptyPage DEF FlightType, Flight

LEMMA QueryFacts ==
    ASSUME NEW q \in Query
    PROVE  /\ q.levels \in SUBSET {"info", "warning", "critical"}
           /\ q.start \in Nat /\ q.end \in Nat
BY DEF Query

\* The query of the next page asks for what is older than a full one.
LEMMA AfterFacts ==
    ASSUME NEW q \in Query, NEW conditions, IsPage(conditions),
           Len(conditions) = Limit
    PROVE  /\ After(q, conditions) \in Query
           /\ After(q, conditions).levels = q.levels
           /\ After(q, conditions).start = q.start
           /\ After(q, conditions).end = conditions[Limit].ts
<1>1. Limit \in 1..Len(conditions)
  BY StoreAssumption
<1>2. conditions[Limit].ts \in Nat
  BY <1>1, ConditionsFacts DEF IsPage
<1> QED
  BY <1>2 DEF After, Query

\* Keeping a page leaves what is kept already.
LEMMA KeepFacts ==
    ASSUME TypeInv
    PROVE  /\ Keep(cache) \in Seq(Seq(Condition)) /\ page <= Len(Keep(cache))
           /\ Len(cache) <= Len(Keep(cache))
           /\ \A p \in DOMAIN Keep(cache) : IsPage(Keep(cache)[p])
           /\ \A p \in DOMAIN Keep(cache) :
                 IF p \in DOMAIN cache THEN Keep(cache)[p] = cache[p]
                 ELSE p = page /\ Keep(cache)[p] = shown
<1>1. /\ page \in Nat \ {0} /\ Len(cache) \in Nat /\ page - 1 <= Len(cache)
      /\ DOMAIN cache = 1..Len(cache) /\ cache \in Seq(Seq(Condition))
      /\ shown \in Seq(Condition) /\ IsPage(shown)
      /\ \A p \in DOMAIN cache : IsPage(cache[p])
  BY DEF TypeInv, IsPage
<1>2. CASE page \in DOMAIN cache
  <2>1. Keep(cache) = cache
    BY <1>2 DEF Keep
  <2> QED
    BY <1>1, <1>2, <2>1
<1>3. CASE page \notin DOMAIN cache
  <2> DEFINE k == Append(cache, shown)
  <2>1. Keep(cache) = k
    BY <1>3 DEF Keep
  <2>2. page = Len(cache) + 1
    BY <1>1, <1>3
  <2>3. /\ k \in Seq(Seq(Condition)) /\ Len(k) = Len(cache) + 1
        /\ DOMAIN k = 1..(Len(cache) + 1)
        /\ \A p \in 1..Len(cache) : k[p] = cache[p]
        /\ k[Len(cache) + 1] = shown
    BY <1>1
  <2> HIDE DEF k
  <2>4. ASSUME NEW p \in DOMAIN k
        PROVE  IsPage(k[p]) /\ IF p \in DOMAIN cache THEN k[p] = cache[p]
                               ELSE p = page /\ k[p] = shown
    <3>1. CASE p \in 1..Len(cache)
      BY <1>1, <2>3, <3>1
    <3>2. CASE p = Len(cache) + 1
      BY <1>1, <2>2, <2>3, <3>2
    <3> QED
      BY <1>1, <2>3, <3>1, <3>2
  <2>5. page <= Len(k) /\ Len(cache) <= Len(k)
    BY <1>1, <2>2, <2>3
  <2> QED
    BY <2>1, <2>3, <2>4, <2>5
<1> QED
  BY <1>2, <1>3

LEMMA TypeInvInit == PagingInit => TypeInv
<1> SUFFICES ASSUME PagingInit PROVE TypeInv
  OBVIOUS
<1>1. FlightType(Flight(0, FirstQuery), 0)
  BY NewFlight, PagingAssumption
<1>2. cache \in Seq(Seq(Condition)) /\ Len(cache) = 0 /\ DOMAIN cache = {}
  BY DEF PagingInit
<1> QED
  BY <1>1, <1>2, EmptyPage, PagingAssumption DEF PagingInit, TypeInv

\* The types of the requests under way do not depend on later clicks.
LEMMA FlightStays ==
    ASSUME NEW m \in Nat, NEW n \in Nat, m <= n, NEW f, FlightType(f, m)
    PROVE  FlightType(f, n)
BY DEF FlightType

LEMMA TypeInvNext ==
    ASSUME TypeInv, StoreInv, [Next]_vars PROVE TypeInv'
<1>0. /\ query \in Query /\ page \in Nat \ {0} /\ loading \in BOOLEAN
      /\ clicks \in Nat /\ clicks <= MaxClicks /\ MaxClicks \in Nat
      /\ IsPage(shown) /\ cache \in Seq(Seq(Condition)) /\ page - 1 <= Len(cache)
      /\ \A p \in DOMAIN cache : IsPage(cache[p])
      /\ \A f \in flights : FlightType(f, clicks)
  BY PagingAssumption DEF TypeInv
<1>1. ASSUME NEW q \in Query, Fetch(q)
      PROVE  /\ query' \in Query /\ loading' \in BOOLEAN /\ clicks' \in 0..MaxClicks
             /\ \A f \in flights' : FlightType(f, clicks')
  <2>1. clicks' = clicks + 1 /\ clicks' \in 0..MaxClicks /\ clicks' \in Nat /\ clicks <= clicks'
    BY <1>0, <1>1 DEF Fetch
  <2>2. \A f \in flights : FlightType(f, clicks')
    BY <1>0, <2>1, FlightStays
  <2>3. FlightType(Flight(clicks + 1, q), clicks')
    <3>1. clicks + 1 \in 0..clicks'
      BY <1>0, <2>1
    <3> QED
      BY <2>1, <3>1, NewFlight
  <2> QED
    BY <1>1, <2>1, <2>2, <2>3 DEF Fetch
<1>2. ASSUME clicks' = clicks, NEW f \in flights PROVE FlightType(f, clicks')
  BY <1>0, <1>2, FlightStays
<1>3. ASSUME NEW q \in Searches, SearchFor(q) PROVE TypeInv'
  <2>1. q \in Query
    BY PagingAssumption
  <2>2. /\ query' \in Query /\ loading' \in BOOLEAN /\ clicks' \in 0..MaxClicks
        /\ \A f \in flights' : FlightType(f, clicks')
    BY <1>1, <1>3, <2>1 DEF SearchFor
  <2>3. page' = 1 /\ cache' = <<shown>> /\ shown' = shown /\ shown \in Seq(Condition)
    BY <1>0, <1>3 DEF SearchFor, IsPage
  <2>4. cache' \in Seq(Seq(Condition)) /\ Len(cache') = 1 /\ DOMAIN cache' = {1}
        /\ cache'[1] = shown
    BY <2>3
  <2>5. page' \in Nat \ {0} /\ page' - 1 <= Len(cache')
    BY <2>3, <2>4
  <2>6. \A p \in DOMAIN cache' : IsPage(cache'[p])
    BY <1>0, <2>4
  <2> QED
    BY <1>0, <2>2, <2>3, <2>4, <2>5, <2>6 DEF TypeInv
<1>4. CASE TurnNext
  <2>1. Len(shown) = Limit /\ Fetch(After(query, shown)) /\ page' = page + 1
        /\ cache' = Keep(cache) /\ shown' = shown
    BY <1>4 DEF TurnNext
  <2>2. After(query, shown) \in Query
    BY <1>0, <2>1, AfterFacts
  <2>3. /\ query' \in Query /\ loading' \in BOOLEAN /\ clicks' \in 0..MaxClicks
        /\ \A f \in flights' : FlightType(f, clicks')
    BY <1>1, <2>1, <2>2
  <2>4. /\ cache' \in Seq(Seq(Condition)) /\ page <= Len(cache')
        /\ \A p \in DOMAIN cache' : IsPage(cache'[p])
    BY <2>1, KeepFacts
  <2>5. page' \in Nat \ {0} /\ page' - 1 <= Len(cache')
    BY <1>0, <2>1, <2>4
  <2> QED
    BY <1>0, <2>1, <2>3, <2>4, <2>5 DEF TypeInv
<1>5. CASE TurnPrev
  <2>1. /\ clicks' = clicks + 1 /\ clicks < MaxClicks /\ page > 1 /\ page' = page - 1
        /\ shown' = cache[page - 1]
        /\ UNCHANGED <<query, cache, loading, flights>>
    BY <1>5 DEF TurnPrev
  <2>2. clicks' \in 0..MaxClicks /\ clicks' \in Nat /\ clicks <= clicks'
    BY <1>0, <2>1
  <2>3. \A f \in flights : FlightType(f, clicks')
    BY <1>0, <2>2, FlightStays
  <2>4. page' \in Nat \ {0} /\ page' - 1 <= Len(cache) /\ page - 1 \in DOMAIN cache
    BY <1>0, <2>1
  <2>5. IsPage(cache[page - 1])
    BY <1>0, <2>4
  <2> QED
    BY <1>0, <2>1, <2>2, <2>3, <2>4, <2>5 DEF TypeInv
<1>6. ASSUME NEW f \in flights, Serve(f) PROVE TypeInv'
  <2> DEFINE g == [f EXCEPT !.served = TRUE, !.answer = Page(items, f.query),
                            !.stored = Accepted(posted)]
  <2>1. /\ flights' = (flights \ {f}) \cup {g}
        /\ UNCHANGED <<store, query, page, shown, cache, loading, clicks>>
    BY <1>6 DEF Serve, hook
  <2>2. /\ IsPage(Page(items, f.query))
        /\ Accepted(posted) \subseteq Condition /\ IsFiniteSet(Accepted(posted))
    <3>1. /\ items \in Seq(Condition) /\ Ascending(items)
          /\ Range(items) = Accepted(posted)
      BY DEF StoreInv, StoreTypeOK, StoreIsAscending, StoreHoldsFirst
    <3>2. f.query \in Query
      BY <1>0 DEF FlightType
    <3> QED
      BY <3>1, <3>2, PageIsNewest, ConditionsFinite
  <2>3. FlightType(g, clicks)
    <3>1. FlightType(f, clicks)
      BY <1>0
    <3>2. f \in [id : 0..clicks, query : Query, served : BOOLEAN,
                answer : Seq(Condition), stored : SUBSET Condition]
      BY <3>1 DEF FlightType
    <3>3. Page(items, f.query) \in Seq(Condition)
      BY <2>2 DEF IsPage
    <3>4. /\ g \in [id : 0..clicks, query : Query, served : BOOLEAN,
                   answer : Seq(Condition), stored : SUBSET Condition]
          /\ g.answer = Page(items, f.query) /\ g.stored = Accepted(posted)
      BY <2>2, <3>2, <3>3
    <3> QED
      BY <2>2, <3>4 DEF FlightType
  <2> HIDE DEF g
  <2>4. \A h \in flights' : FlightType(h, clicks')
    BY <1>0, <2>1, <2>3
  <2> QED
    BY <1>0, <2>1, <2>4 DEF TypeInv
<1>7. ASSUME NEW f \in flights, Receive(f) PROVE TypeInv'
  <2>1. /\ flights' = flights \ {f} /\ shown' = f.answer /\ loading' = FALSE
        /\ UNCHANGED <<query, page, cache, clicks>>
    BY <1>7 DEF Receive
  <2>2. IsPage(f.answer)
    BY <1>0 DEF FlightType
  <2> QED
    BY <1>0, <1>2, <2>1, <2>2 DEF TypeInv
<1>8. ASSUME NEW f \in flights, Fail(f) PROVE TypeInv'
  <2>1. /\ flights' = flights \ {f}
        /\ UNCHANGED <<query, page, shown, cache, loading, clicks>>
    BY <1>8 DEF Fail, hook
  <2> QED
    BY <1>0, <1>2, <2>1 DEF TypeInv
<1>9. CASE UNCHANGED <<hook, flights, clicks>>
  BY <1>0, <1>2, <1>9 DEF TypeInv, hook
<1> QED
  <2>1. ASSUME NEW batch \in Batches, PostArrives(batch) PROVE TypeInv'
    BY <1>9, <2>1 DEF PostArrives
  <2>2. CASE Insert
    BY <1>9, <2>2 DEF Insert
  <2>3. CASE UNCHANGED vars
    BY <1>9, <2>3 DEF vars
  <2> QED
    BY <1>3, <1>4, <1>5, <1>6, <1>7, <1>8, <2>1, <2>2, <2>3 DEF Next

LEMMA AlwaysTypes == Spec => [](StoreInv /\ TypeInv)
<1>1. PagingInit => TypeInv
  BY TypeInvInit
<1>2. TypeInv /\ StoreInv /\ [Next]_vars => TypeInv'
  BY TypeInvNext
<1> QED
  BY <1>1, <1>2, PagingUsesStore, StoreInvariant, PTL DEF Spec

\* The types; prev never meets a page that was not kept.
THEOREM PagingTyped == Spec => []TypeOK
<1>1. StoreInv /\ TypeInv => TypeOK
  BY DEF StoreInv, TypeInv, TypeOK, IsPage, FlightType
<1> QED
  BY <1>1, AlwaysTypes, PTL

LEMMA AnswersAreNewestNext ==
    ASSUME AnswersAreNewest, TypeInv, StoreInv, [Next]_vars
    PROVE  AnswersAreNewest'
<1> USE DEF AnswersAreNewest
<1>1. ASSUME \A f \in flights' : f \in flights \/ ~f.served PROVE AnswersAreNewest'
  BY <1>1
<1>2. ASSUME NEW q, Fetch(q) PROVE AnswersAreNewest'
  BY <1>1, <1>2 DEF Fetch, Flight
<1>3. ASSUME NEW f \in flights, Serve(f) PROVE AnswersAreNewest'
  <2> DEFINE g == [f EXCEPT !.served = TRUE, !.answer = Page(items, f.query),
                            !.stored = Accepted(posted)]
  <2>1. flights' = (flights \ {f}) \cup {g}
    BY <1>3 DEF Serve
  <2>2. FlightType(f, clicks) /\ f.query \in Query
    BY DEF TypeInv, FlightType
  <2>3. IsNewest(Page(items, f.query), Accepted(posted), f.query)
    <3>1. /\ items \in Seq(Condition) /\ Ascending(items)
          /\ Range(items) = Accepted(posted)
      BY DEF StoreInv, StoreTypeOK, StoreIsAscending, StoreHoldsFirst
    <3> QED
      BY <2>2, <3>1, PageIsNewest
  <2>4. IsNewest(g.answer, g.stored, g.query)
    BY <2>2, <2>3 DEF FlightType
  <2> HIDE DEF g
  <2> QED
    BY <2>1, <2>4
<1>4. CASE flights' \subseteq flights
  BY <1>1, <1>4
<1> QED
  <2>1. ASSUME NEW q \in Searches, SearchFor(q) PROVE AnswersAreNewest'
    BY <1>2, <2>1 DEF SearchFor
  <2>2. CASE TurnNext
    BY <1>2, <2>2 DEF TurnNext
  <2>3. CASE TurnPrev
    BY <1>4, <2>3 DEF TurnPrev
  <2>4. ASSUME NEW f \in flights, Receive(f) \/ Fail(f) PROVE AnswersAreNewest'
    BY <1>4, <2>4 DEF Receive, Fail
  <2>5. ASSUME NEW batch \in Batches, PostArrives(batch) PROVE AnswersAreNewest'
    BY <1>4, <2>5 DEF PostArrives
  <2>6. CASE Insert \/ UNCHANGED vars
    BY <1>4, <2>6 DEF Insert, vars
  <2> QED
    BY <1>3, <2>1, <2>2, <2>3, <2>4, <2>5, <2>6 DEF Next

\* A request is answered with the newest conditions that match it, of all that
\* had been handled when it was served, however they came.
THEOREM AlwaysNewest == Spec => []AnswersAreNewest
<1>1. PagingInit => AnswersAreNewest
  BY DEF PagingInit, Flight, AnswersAreNewest
<1>2. AnswersAreNewest /\ TypeInv /\ StoreInv /\ [Next]_vars => AnswersAreNewest'
  BY AnswersAreNewestNext
<1> QED
  BY <1>1, <1>2, AlwaysTypes, PTL DEF Spec

----------------------------------------------------------------------------
(* The pages turned.                                                       *)

\* The pages are what the levels and the start of q select of S, newest first,
\* down to the last condition of the last page.
Tiled(pages, S, q) ==
    /\ pages \in Seq(Seq(Condition))
    /\ \A p \in DOMAIN pages : /\ IsPage(pages[p])
                               /\ p < Len(pages) => Len(pages[p]) = Limit
    /\ NewestFirst(pages)
    /\ \A c \in Read(pages) : Level(c.flags) \in q.levels /\ q.start <= c.ts
    /\ \A c \in S : Level(c.flags) \in q.levels /\ q.start <= c.ts
    /\ \A c \in S \ Read(pages) :
          pages = <<>> \/ /\ Len(pages[Len(pages)]) = Limit
                          /\ c.ts < pages[Len(pages)][Limit].ts

LEMMA PagesFacts ==
    ASSUME NEW pages \in Seq(Seq(Condition))
    PROVE  /\ Len(pages) \in Nat /\ DOMAIN pages = 1..Len(pages)
           /\ \A p \in 1..Len(pages) :
                 /\ pages[p] \in Seq(Condition)
                 /\ Len(pages[p]) \in Nat /\ DOMAIN pages[p] = 1..Len(pages[p])
                 /\ \A m \in 1..Len(pages[p]) : pages[p][m].ts \in Nat
<1>1. /\ Len(pages) \in Nat /\ DOMAIN pages = 1..Len(pages)
      /\ \A p \in 1..Len(pages) : pages[p] \in Seq(Condition)
  BY LenProperties, ElementOfSeq
<1> QED
  BY <1>1, ConditionsFacts

LEMMA ReadFacts ==
    ASSUME NEW pages \in Seq(Seq(Condition)), NEW c
    PROVE  c \in Read(pages) <=>
             \E p \in 1..Len(pages) : \E m \in 1..Len(pages[p]) : c = pages[p][m]
<1>1. /\ DOMAIN pages = 1..Len(pages)
      /\ \A p \in 1..Len(pages) : DOMAIN pages[p] = 1..Len(pages[p])
  BY PagesFacts
<1>2. c \in Read(pages) <=> \E p \in 1..Len(pages) : c \in Range(pages[p])
  BY <1>1 DEF Read
<1>3. ASSUME NEW p \in 1..Len(pages)
      PROVE  c \in Range(pages[p]) <=> \E m \in 1..Len(pages[p]) : c = pages[p][m]
  BY <1>1 DEF Range
<1> QED
  BY <1>2, <1>3

\* Nothing read is older than the last condition of a full last page.
LEMMA LastIsOldest ==
    ASSUME NEW pages \in Seq(Seq(Condition)), NewestFirst(pages), pages # <<>>,
           Len(pages[Len(pages)]) = Limit,
           NEW p \in 1..Len(pages), NEW m \in 1..Len(pages[p])
    PROVE  pages[Len(pages)][Limit].ts <= pages[p][m].ts
<1> DEFINE l == Len(pages)
<1>1. /\ l \in 1..l /\ Limit \in 1..Len(pages[l]) /\ DOMAIN pages = 1..l
      /\ \A r \in 1..l : DOMAIN pages[r] = 1..Len(pages[r])
  BY PagesFacts, StoreAssumption
<1>2. pages[l][Limit].ts \in Nat /\ pages[p][m].ts \in Nat
  BY <1>1, PagesFacts
<1>3. CASE p = l /\ m = Limit
  BY <1>2, <1>3
<1>4. CASE p < l \/ (p = l /\ m < Limit)
  <2>1. pages[p][m].ts > pages[l][Limit].ts
    BY <1>1, <1>4 DEF NewestFirst
  <2> QED
    BY SMTT(30), <1>2, <2>1
<1>5. p < l \/ p = l
  BY PagesFacts
<1>6. p = l => m < Limit \/ m = Limit
  BY <1>1, StoreAssumption
<1> QED
  BY <1>3, <1>4, <1>5, <1>6

LEMMA TiledFirst ==
    ASSUME NEW S, IsFiniteSet(S), S \subseteq Condition, NEW q \in Query,
           NEW a, IsPage(a), IsNewest(a, S, q)
    PROVE  Tiled(<<a>>, Matching(S, q), q)
<1> DEFINE pages == <<a>>
<1>1. /\ a \in Seq(Condition) /\ pages \in Seq(Seq(Condition)) /\ Len(pages) = 1
      /\ DOMAIN pages = 1..1 /\ pages[1] = a /\ pages # <<>>
  BY DEF IsPage
<1> HIDE DEF pages
<1>2. DOMAIN a = 1..Len(a) /\ Len(a) \in Nat
  BY <1>1, ConditionsFacts
<1>3. NewestFirst(pages)
  <2>1. \A m, n \in DOMAIN a : m < n => a[m].ts > a[n].ts
    BY DEF IsNewest
  <2>2. \A p, r \in 1..1 : p = 1 /\ r = 1 /\ ~(p < r)
    OBVIOUS
  <2> QED
    BY <1>1, <2>1, <2>2 DEF NewestFirst
<1>4. Read(pages) = Range(a)
  <2>1. \A p \in DOMAIN pages : p = 1
    BY <1>1
  <2>2. 1 \in DOMAIN pages
    BY <1>1
  <2> QED
    BY <1>1, <2>1, <2>2 DEF Read
<1>5. \A c \in Matching(S, q) : Level(c.flags) \in q.levels /\ q.start <= c.ts
  BY DEF Matching
<1>6. Range(a) \subseteq Matching(S, q)
  BY DEF IsNewest
<1>7. \A c \in Matching(S, q) \ Range(a) : Len(a) = Limit /\ c.ts < a[Limit].ts
  BY NewestFull
<1>8. \A p \in DOMAIN pages : IsPage(pages[p]) /\ ~(p < Len(pages))
  BY <1>1
<1>9. Tiled(pages, Matching(S, q), q)
  BY <1>1, <1>3, <1>4, <1>5, <1>6, <1>7, <1>8 DEF Tiled
<1> QED
  BY <1>9 DEF pages

\* The next page continues the pages turned, whatever arrived since.
LEMMA TiledAppend ==
    ASSUME NEW S, IsFiniteSet(S), S \subseteq Condition, NEW q \in Query,
           NEW B, B \subseteq S, NEW pages, Tiled(pages, B, q), pages # <<>>,
           Len(pages[Len(pages)]) = Limit, q.end = pages[Len(pages)][Limit].ts,
           NEW a, IsPage(a), IsNewest(a, S, q)
    PROVE  Tiled(Append(pages, a), B, q)
<1> DEFINE l == Len(pages)
           z == Append(pages, a)
<1>1. pages \in Seq(Seq(Condition)) /\ NewestFirst(pages) /\ a \in Seq(Condition)
  BY DEF Tiled, IsPage
<1>2. /\ l \in Nat /\ l >= 1 /\ DOMAIN pages = 1..l
      /\ \A p \in 1..l : /\ DOMAIN pages[p] = 1..Len(pages[p])
                         /\ \A m \in 1..Len(pages[p]) : pages[p][m].ts \in Nat
  BY <1>1, PagesFacts
<1>3. /\ z \in Seq(Seq(Condition)) /\ Len(z) = l + 1 /\ DOMAIN z = 1..(l + 1)
      /\ \A p \in 1..l : z[p] = pages[p]
      /\ z[l + 1] = a
      /\ z # <<>>
  <2>1. /\ z \in Seq(Seq(Condition)) /\ Len(z) = l + 1
        /\ \A p \in 1..l : z[p] = pages[p]
        /\ z[l + 1] = a
    BY <1>1
  <2> HIDE DEF z
  <2>2. DOMAIN z = 1..(l + 1) /\ l + 1 # 0
    BY <1>2, <2>1, PagesFacts
  <2>3. Len(<<>>) = 0
    OBVIOUS
  <2> QED
    BY <2>1, <2>2, <2>3
<1> HIDE DEF z, l
<1>4. /\ DOMAIN a = 1..Len(a)
      /\ \A n \in 1..Len(a) : a[n].ts \in Nat
  BY <1>1, ConditionsFacts
<1>5. Range(a) \subseteq Matching(S, q)
  BY DEF IsNewest
<1>6. \A n \in 1..Len(a) : a[n].ts < q.end
  BY <1>4, <1>5 DEF Range, Matching
<1>7. \A p \in 1..l : \A m \in 1..Len(pages[p]) : q.end <= pages[p][m].ts
  BY <1>1, LastIsOldest DEF l
<1>8. NewestFirst(z)
  <2> SUFFICES ASSUME NEW p \in 1..(l + 1), NEW r \in 1..(l + 1),
                      NEW m \in DOMAIN z[p], NEW n \in DOMAIN z[r],
                      p < r \/ (p = r /\ m < n)
               PROVE  z[p][m].ts > z[r][n].ts
    BY <1>3 DEF NewestFirst
  <2>1. CASE r <= l
    <3>1. p \in 1..l /\ r \in 1..l
      BY <1>2, <2>1
    <3> QED
      BY <1>1, <1>2, <1>3, <3>1 DEF NewestFirst
  <2>2. CASE r = l + 1 /\ p <= l
    <3>1. p \in 1..l /\ z[p] = pages[p] /\ z[r] = a
      BY <1>2, <1>3, <2>2
    <3>2. m \in 1..Len(pages[p]) /\ n \in 1..Len(a)
      BY <1>2, <1>4, <3>1
    <3>3. pages[p][m].ts \in Nat /\ a[n].ts \in Nat /\ q.end \in Nat
      BY <1>2, <1>4, <3>1, <3>2, QueryFacts
    <3>4. a[n].ts < q.end /\ q.end <= pages[p][m].ts
      BY <1>6, <1>7, <3>1, <3>2
    <3> QED
      BY <3>1, <3>3, <3>4
  <2>3. CASE r = l + 1 /\ p = l + 1
    <3>1. z[p] = a /\ z[r] = a /\ m < n
      BY <1>2, <1>3, <2>3
    <3> QED
      BY <3>1 DEF IsNewest
  <2> QED
    BY <1>2, <2>1, <2>2, <2>3
<1>9. Read(z) = Read(pages) \cup Range(a)
  <2>1. 1..(l + 1) = (1..l) \cup {l + 1}
    BY <1>2
  <2>2. \A c : c \in Read(z) <=> \E p \in 1..(l + 1) : c \in Range(z[p])
    BY <1>3 DEF Read
  <2>3. \A c : c \in Read(pages) <=> \E p \in 1..l : c \in Range(pages[p])
    BY <1>2 DEF Read
  <2> QED
    BY <1>3, <2>1, <2>2, <2>3
<1>10. \A c \in B : Level(c.flags) \in q.levels /\ q.start <= c.ts
  BY DEF Tiled
<1>11. \A c \in Read(z) : Level(c.flags) \in q.levels /\ q.start <= c.ts
  BY <1>5, <1>9 DEF Tiled, Matching
<1>12. ASSUME NEW c \in B \ Read(z) PROVE Len(a) = Limit /\ c.ts < a[Limit].ts
  <2>1. c \notin Read(pages) /\ c \notin Range(a) /\ c \in S
    BY <1>9
  <2>2. c.ts < q.end
    BY <2>1 DEF Tiled
  <2>3. c \in Matching(S, q)
    BY <1>10, <2>1, <2>2 DEF Matching
  <2> QED
    BY <2>1, <2>3, NewestFull
<1>13. ASSUME NEW p \in DOMAIN z
       PROVE  IsPage(z[p]) /\ (p < Len(z) => Len(z[p]) = Limit)
  <2>1. CASE p = l + 1
    BY <1>2, <1>3, <2>1
  <2>2. CASE p \in 1..l
    <3>1. z[p] = pages[p] /\ (p < l \/ p = l)
      BY <1>2, <1>3, <2>2
    <3>2. IsPage(pages[p]) /\ (p < l => Len(pages[p]) = Limit)
      BY <1>2, <2>2 DEF Tiled, l
    <3> QED
      BY <3>1, <3>2 DEF l
  <2> QED
    BY <1>2, <1>3, <2>1, <2>2
<1>14. Tiled(z, B, q)
  BY <1>3, <1>8, <1>10, <1>11, <1>12, <1>13 DEF Tiled
<1> QED
  BY <1>14 DEF z

\* So do the pages up to an earlier one.
LEMMA TiledPrev ==
    ASSUME NEW q \in Query, NEW B, B \subseteq Condition, NEW pages,
           Tiled(pages, B, q), NEW k \in 1..Len(pages), k < Len(pages)
    PROVE  /\ Tiled(SubSeq(pages, 1, k), B, q)
           /\ Len(SubSeq(pages, 1, k)) = k
           /\ \A p \in 1..k : SubSeq(pages, 1, k)[p] = pages[p]
<1> DEFINE l == Len(pages)
           z == SubSeq(pages, 1, k)
<1>1. pages \in Seq(Seq(Condition)) /\ NewestFirst(pages)
  BY DEF Tiled
<1>2. /\ l \in Nat /\ l >= 1 /\ DOMAIN pages = 1..l
      /\ \A p \in 1..l : /\ DOMAIN pages[p] = 1..Len(pages[p])
                         /\ \A m \in 1..Len(pages[p]) : pages[p][m].ts \in Nat
  BY <1>1, PagesFacts
<1>3. /\ z \in Seq(Seq(Condition)) /\ Len(z) = k /\ DOMAIN z = 1..k
      /\ \A p \in 1..k : p \in 1..l /\ z[p] = pages[p]
      /\ z # <<>>
  <2>1. k \in Nat /\ k >= 1 /\ k <= l
    BY <1>2
  <2>2. z \in Seq(Seq(Condition)) /\ Len(z) = k /\ \A p \in 1..k : z[p] = pages[p]
    BY <1>1, <2>1, SubSeqProperties
  <2> HIDE DEF z
  <2> QED
    BY <2>1, <2>2, <1>2
<1> HIDE DEF z
<1>4. k \in 1..l /\ k < l /\ Len(pages[k]) = Limit /\ Limit \in 1..Len(pages[k])
  <2>1. k \in DOMAIN pages /\ k < Len(pages)
    BY <1>2
  <2>2. Len(pages[k]) = Limit
    BY <2>1 DEF Tiled
  <2> QED
    BY <2>2, StoreAssumption
<1>5. NewestFirst(z)
  BY <1>1, <1>2, <1>3 DEF NewestFirst
<1>6. Read(z) \subseteq Read(pages)
  BY <1>2, <1>3 DEF Read
<1>7. \A p \in DOMAIN z : IsPage(z[p]) /\ Len(z[p]) = Limit
  <2> SUFFICES ASSUME NEW p \in 1..k PROVE IsPage(z[p]) /\ Len(z[p]) = Limit
    BY <1>3
  <2>1. p \in DOMAIN pages /\ p < Len(pages) /\ z[p] = pages[p]
    BY <1>2, <1>3
  <2> QED
    BY <2>1 DEF Tiled
<1>8. ASSUME NEW c \in B \ Read(z) PROVE c.ts < pages[k][Limit].ts
  <2>1. c.ts \in Nat /\ pages[k][Limit].ts \in Nat
    BY <1>2, <1>4 DEF Condition
  <2>2. CASE c \in Read(pages)
    <3>1. c \in Read(pages) <=>
            \E p \in 1..Len(pages) : \E m \in 1..Len(pages[p]) : c = pages[p][m]
      BY ONLY <1>1, ReadFacts
    <3>2. PICK p \in 1..l : \E m \in 1..Len(pages[p]) : c = pages[p][m]
      BY <2>2, <3>1
    <3>3. PICK m \in 1..Len(pages[p]) : c = pages[p][m]
      BY <3>2
    <3>4. p \notin 1..k
      <4> SUFFICES ASSUME p \in 1..k PROVE FALSE
        OBVIOUS
      <4>1. z[p] = pages[p]
        BY <1>3
      <4>2. c \in Read(z)
        BY <1>3, <3>3, <4>1, ReadFacts
      <4> QED
        BY <1>8, <4>2
    <3>5. k < p /\ m \in DOMAIN pages[p] /\ Limit \in DOMAIN pages[k]
      BY <1>2, <1>4, <3>4
    <3>6. pages[k][Limit].ts > pages[p][m].ts
      BY <1>1, <1>2, <1>4, <3>5 DEF NewestFirst
    <3> QED
      BY <2>1, <3>3, <3>6
  <2>3. CASE c \notin Read(pages)
    <3>1. Len(pages[l]) = Limit /\ c.ts < pages[l][Limit].ts
      BY <1>2, <2>3 DEF Tiled
    <3>2. l \in 1..l /\ Limit \in 1..Len(pages[l])
      BY <1>2, <3>1, StoreAssumption
    <3>3. pages[k][Limit].ts > pages[l][Limit].ts
      BY <1>1, <1>2, <1>4, <3>2 DEF NewestFirst
    <3>4. pages[l][Limit].ts \in Nat
      BY <1>2, <3>2
    <3> QED
      BY <2>1, <3>1, <3>3, <3>4
  <2> QED
    BY <2>2, <2>3
<1>9. /\ \A c \in B : Level(c.flags) \in q.levels /\ q.start <= c.ts
      /\ \A c \in Read(pages) : Level(c.flags) \in q.levels /\ q.start <= c.ts
  BY DEF Tiled
<1>10. z[Len(z)] = pages[k]
  BY <1>3
<1>11. Tiled(z, B, q)
  BY <1>3, <1>4, <1>5, <1>6, <1>7, <1>8, <1>9, <1>10 DEF Tiled
<1> QED
  BY <1>3, <1>11 DEF z

\* A request under way continues the pages turned so far.
Continues(f) ==
    /\ f.query = query /\ Len(trail) = page - 1
    /\ trail # <<>> => /\ Len(trail[Len(trail)]) = Limit
                       /\ query.end = trail[Len(trail)][Limit].ts
                       /\ f.served => basis \subseteq f.stored
    /\ f.stored \subseteq Accepted(posted)

\* The inductive invariant behind PagesTile.
Calm == ~hasty /\ ~failed /\ ~returned
Course ==
    /\ Tiled(trail, basis, query)
    /\ basis \subseteq Accepted(posted)
    /\ \A p \in DOMAIN trail \cap DOMAIN cache : p \in outdated \/ cache[p] = trail[p]
    /\ flights = {} => trail # <<>> /\ Len(trail) = page /\ shown = trail[page]
    /\ \A f \in flights : Continues(f)
TileInv == Calm => Course

LEMMA AcceptedFacts ==
    ASSUME StoreInv
    PROVE  Accepted(posted) \subseteq Condition /\ IsFiniteSet(Accepted(posted))
<1>1. items \in Seq(Condition) /\ Range(items) = Accepted(posted)
  BY DEF StoreInv, StoreTypeOK, StoreHoldsFirst
<1> QED
  BY <1>1, ConditionsFinite

\* What has been handled remains handled.
LEMMA AcceptedGrows ==
    ASSUME StoreInv, InsertNext PROVE Accepted(posted) \subseteq Accepted(posted')
<1>1. /\ posted \in Seq(Condition) /\ Head(incoming) \in Condition
      /\ posted' = Append(posted, Head(incoming))
  BY HeadTailProperties DEF InsertNext, StoreInv, StoreTypeOK
<1> QED
  BY <1>1, AcceptedAppend

LEMMA TileInvInit == PagingInit => TileInv
<1> SUFFICES ASSUME PagingInit PROVE TileInv
  OBVIOUS
<1>1. trail = <<>> /\ basis = {} /\ flights = {Flight(0, FirstQuery)} /\ page = 1
      /\ query = FirstQuery
  BY DEF PagingInit
<1>2. Tiled(<<>>, {}, query)
  BY DEF Tiled, NewestFirst, Read
<1>3. Continues(Flight(0, FirstQuery))
  BY <1>1 DEF Continues, Flight
<1> QED
  BY <1>1, <1>2, <1>3 DEF TileInv, Course

\* The course of the pages goes on when nothing but the store moves.
LEMMA CourseStays ==
    ASSUME TileInv, UNCHANGED <<query, page, shown, cache, flights, history>>,
           Accepted(posted) \subseteq Accepted(posted')
    PROVE  TileInv'
<1> SUFFICES ASSUME Calm' PROVE Course'
  BY DEF TileInv
<1>1. UNCHANGED <<outdated, hasty, failed, returned, trail, basis, query, page,
                  shown, cache, flights>>
  BY DEF history
<1>2. Course
  BY <1>1 DEF TileInv, Calm
<1>3. ASSUME NEW f \in flights PROVE Continues(f)'
  BY <1>1, <1>2, <1>3 DEF Course, Continues
<1>4. Tiled(trail, basis, query)'
  BY <1>1, <1>2 DEF Course, Tiled, NewestFirst, Read
<1> QED
  BY <1>1, <1>2, <1>3, <1>4 DEF Course

LEMMA TiledSearch ==
    ASSUME TypeInv, StoreInv, CoveredInv, NEW q \in Searches, SearchFor(q), Calm'
    PROVE  Course'
<1>1. /\ trail' = <<>> /\ basis' = {} /\ query' = q /\ page' = 1
      /\ flights' = {Flight(clicks + 1, q)}
  BY DEF SearchFor, Fetch, Calm
<1>2. Tiled(<<>>, {}, q)
  BY DEF Tiled, NewestFirst, Read
<1>3. ASSUME NEW f \in flights' PROVE Continues(f)'
  BY <1>1, <1>3 DEF Continues, Flight
<1>4. Tiled(trail', basis', query')
  BY <1>1, <1>2
<1> QED
  BY <1>1, <1>3, <1>4 DEF Course

LEMMA TiledNext ==
    ASSUME TypeInv, StoreInv, CoveredInv, Course, TurnNext, Calm'
    PROVE  Course'
<1>1. /\ ~loading /\ Len(shown) = Limit /\ query' = After(query, shown)
      /\ page' = page + 1 /\ cache' = Keep(cache)
      /\ flights' = flights \cup {Flight(clicks + 1, After(query, shown))}
      /\ UNCHANGED <<posted, outdated, hasty, trail, basis>>
  BY DEF TurnNext, Fetch, history, store
<1>2. flights = {}
  BY <1>1 DEF CoveredInv, Calm
<1>3. /\ Tiled(trail, basis, query) /\ basis \subseteq Accepted(posted)
      /\ trail # <<>> /\ Len(trail) = page /\ shown = trail[page]
      /\ trail \in Seq(Seq(Condition))
      /\ \A p \in DOMAIN trail \cap DOMAIN cache : p \in outdated \/ cache[p] = trail[p]
  BY <1>2 DEF Course, Tiled
<1>4. /\ After(query, shown).levels = query.levels
      /\ After(query, shown).start = query.start
      /\ After(query, shown).end = shown[Limit].ts
  BY <1>1, AfterFacts DEF TypeInv
<1>5. Tiled(trail, basis, After(query, shown))
  BY <1>3, <1>4 DEF Tiled
<1>6. ASSUME NEW f, f = Flight(clicks + 1, After(query, shown)) PROVE Continues(f)'
  <2>1. f.query = After(query, shown) /\ f.served = FALSE /\ f.stored = {}
    BY <1>6 DEF Flight
  <2>2. Len(trail) = page' - 1
    BY <1>1, <1>3 DEF TypeInv
  <2> QED
    BY <1>1, <1>3, <1>4, <2>1, <2>2 DEF Continues
<1>7. ASSUME NEW p \in DOMAIN trail \cap DOMAIN cache'
      PROVE  p \in outdated \/ cache'[p] = trail[p]
  <2>1. IF p \in DOMAIN cache THEN cache'[p] = cache[p]
        ELSE p = page /\ cache'[p] = shown
    BY <1>1, <1>7, KeepFacts
  <2> QED
    BY <1>3, <1>7, <2>1
<1>8. Tiled(trail', basis', query')
  BY <1>1, <1>5
<1> QED
  BY <1>1, <1>2, <1>3, <1>6, <1>7, <1>8 DEF Course

LEMMA TiledTurnPrev ==
    ASSUME TypeInv, StoreInv, CoveredInv, Course, TurnPrev, Calm, Calm'
    PROVE  Course'
<1>1. /\ ~loading /\ page > 1 /\ page' = page - 1 /\ shown' = cache[page - 1]
      /\ returned' = (returned \/ page - 1 \in outdated)
      /\ trail' = SubSeq(trail, 1, page - 1)
      /\ UNCHANGED <<posted, query, cache, flights, outdated, basis>>
  BY DEF TurnPrev, store
<1>2. flights = {} /\ page - 1 \notin outdated
  BY <1>1 DEF CoveredInv, Calm
<1>3. /\ Tiled(trail, basis, query) /\ basis \subseteq Accepted(posted)
      /\ Len(trail) = page /\ trail \in Seq(Seq(Condition))
      /\ \A p \in DOMAIN trail \cap DOMAIN cache : p \in outdated \/ cache[p] = trail[p]
  BY <1>2 DEF Course, Tiled
<1>4. /\ query \in Query /\ page \in Nat /\ page - 1 \in 1..page
      /\ page - 1 < page /\ page - 1 \in DOMAIN cache
      /\ DOMAIN trail = 1..page
  BY <1>1, <1>3 DEF TypeInv
<1>5. basis \subseteq Condition
  BY <1>3, AcceptedFacts
<1>6. /\ Tiled(trail', basis, query) /\ Len(trail') = page - 1
      /\ \A p \in 1..(page - 1) : trail'[p] = trail[p]
  BY <1>1, <1>3, <1>4, <1>5, TiledPrev
<1>7. DOMAIN trail' = 1..(page - 1) /\ trail' # <<>>
  <2>1. trail' \in Seq(Seq(Condition))
    BY <1>6 DEF Tiled
  <2> QED
    BY <1>4, <1>6, <2>1
<1>8. shown' = trail'[page']
  BY <1>1, <1>2, <1>3, <1>4, <1>6
<1>9. \A p \in DOMAIN trail' \cap DOMAIN cache : p \in outdated \/ cache[p] = trail'[p]
  BY <1>3, <1>4, <1>6, <1>7
<1>10. Tiled(trail', basis', query')
  BY <1>1, <1>6
<1> QED
  BY <1>1, <1>2, <1>3, <1>6, <1>7, <1>8, <1>9, <1>10 DEF Course

LEMMA TiledServe ==
    ASSUME TypeInv, StoreInv, Course, NEW f \in flights, Serve(f)
    PROVE  Course'
<1> DEFINE g == [f EXCEPT !.served = TRUE, !.answer = Page(items, f.query),
                          !.stored = Accepted(posted)]
<1>1. /\ flights' = (flights \ {f}) \cup {g}
      /\ UNCHANGED <<posted, query, page, shown, cache, outdated, trail, basis>>
  BY DEF Serve, store, hook, history
<1>2. g.query = f.query /\ g.stored = Accepted(posted)
  BY DEF TypeInv, FlightType
<1>3. Continues(f) /\ basis \subseteq Accepted(posted)
  BY DEF Course
<1> HIDE DEF g
<1>4. ASSUME NEW h \in flights' PROVE Continues(h)'
  <2>1. CASE h = g
    BY <1>1, <1>2, <1>3, <2>1 DEF Continues
  <2>2. CASE h \in flights
    <3>1. Continues(h)
      BY <2>2 DEF Course
    <3> QED
      BY <1>1, <3>1 DEF Continues
  <2> QED
    BY <1>1, <2>1, <2>2
<1>5. Tiled(trail', basis', query')
  BY <1>1 DEF Course
<1> QED
  BY <1>1, <1>3, <1>4, <1>5 DEF Course

LEMMA TiledReceive ==
    ASSUME TypeInv, StoreInv, CoveredInv, AnswersAreNewest, Course, Calm,
           NEW f \in flights, Receive(f)
    PROVE  Course'
<1> DEFINE a == f.answer
           l == Len(trail)
<1>1. /\ f.served /\ flights' = flights \ {f} /\ shown' = a
      /\ trail' = Append(SubSeq(trail, 1, page - 1), a)
      /\ basis' = IF page = 1 THEN Matching(f.stored, f.query) ELSE basis
      /\ outdated' = IF page \in DOMAIN cache /\ cache[page] # a
                     THEN outdated \cup {page} ELSE outdated \ {page}
      /\ UNCHANGED <<posted, query, page, cache>>
  BY DEF Receive, store
<1>2. flights' = {}
  BY <1>1 DEF CoveredInv, Calm
<1>3. /\ Tiled(trail, basis, query) /\ basis \subseteq Accepted(posted)
      /\ f.query = query /\ l = page - 1 /\ f.stored \subseteq Accepted(posted)
      /\ trail # <<>> => /\ Len(trail[l]) = Limit
                         /\ query.end = trail[l][Limit].ts
                         /\ basis \subseteq f.stored
      /\ trail \in Seq(Seq(Condition))
      /\ \A p \in DOMAIN trail \cap DOMAIN cache : p \in outdated \/ cache[p] = trail[p]
  BY <1>1 DEF Course, Continues, Tiled
<1>4. /\ IsPage(a) /\ a \in Seq(Condition) /\ IsNewest(a, f.stored, query)
      /\ f.stored \subseteq Condition /\ IsFiniteSet(f.stored)
      /\ query \in Query /\ page \in Nat \ {0}
  BY <1>1, <1>3 DEF TypeInv, FlightType, IsPage, AnswersAreNewest
<1> HIDE DEF a
<1>5. SubSeq(trail, 1, page - 1) = trail
  <2>1. l \in Nat /\ l = page - 1
    BY <1>3
  <2>2. SubSeq(trail, 1, l) = trail
    <3>1. /\ SubSeq(trail, 1, l) \in Seq(Seq(Condition)) /\ Len(SubSeq(trail, 1, l)) = l
          /\ \A p \in 1..l : SubSeq(trail, 1, l)[p] = trail[p]
      BY <1>3, <2>1, SubSeqProperties
    <3> QED
      BY <1>3, <3>1, SeqEqual
  <2> QED
    BY <2>1, <2>2
<1>6. trail' = Append(trail, a)
  BY <1>1, <1>5
<1>7. /\ DOMAIN trail' = 1..page /\ Len(trail') = page /\ trail'[page] = a
      /\ \A p \in 1..(page - 1) : p \in DOMAIN trail /\ trail'[p] = trail[p]
      /\ trail' # <<>>
  <2>1. /\ trail' \in Seq(Seq(Condition)) /\ Len(trail') = l + 1 /\ trail'[l + 1] = a
        /\ \A p \in 1..l : p \in DOMAIN trail /\ trail'[p] = trail[p]
    BY <1>3, <1>4, <1>6
  <2>2. l + 1 = page
    BY <1>3, <1>4
  <2> HIDE DEF l
  <2> QED
    BY <1>3, <1>4, <2>1, <2>2
<1>8. Tiled(trail', basis', query') /\ basis' \subseteq Accepted(posted')
  <2>1. CASE trail = <<>>
    <3>1. page = 1 /\ trail' = <<a>>
      BY <1>3, <1>4, <1>6, <2>1
    <3>2. Tiled(<<a>>, Matching(f.stored, query), query)
      BY <1>4, TiledFirst
    <3>3. basis' = Matching(f.stored, query)
      BY <1>1, <1>3, <3>1
    <3> QED
      BY <1>1, <1>3, <1>4, <3>1, <3>2, <3>3, MatchingFinite
  <2>2. CASE trail # <<>>
    <3>1. page # 1
      BY <1>3, <2>2
    <3>2. Tiled(Append(trail, a), basis, query)
      BY <1>3, <1>4, <2>2, TiledAppend
    <3> QED
      BY <1>1, <1>3, <1>6, <3>1, <3>2
  <2> QED
    BY <2>1, <2>2
<1>9. ASSUME NEW p \in DOMAIN trail' \cap DOMAIN cache
      PROVE  p \in outdated' \/ cache[p] = trail'[p]
  <2>1. CASE p = page
    BY <1>1, <1>7, <1>9, <2>1
  <2>2. CASE p # page
    <3>1. p \in 1..(page - 1)
      BY <1>4, <1>7, <1>9, <2>2
    <3>2. p \in outdated \/ cache[p] = trail'[p]
      BY <1>3, <1>7, <1>9, <3>1
    <3> QED
      BY <1>1, <2>2, <3>2
  <2> QED
    BY <2>1, <2>2
<1> QED
  BY <1>1, <1>2, <1>7, <1>8, <1>9 DEF Course

LEMMA TileInvNext ==
    ASSUME TileInv, TypeInv, StoreInv, CoveredInv, AnswersAreNewest, [Next]_vars
    PROVE  TileInv'
<1>1. ASSUME NEW q \in Searches, SearchFor(q) PROVE TileInv'
  BY <1>1, TiledSearch DEF TileInv
<1>2. CASE TurnNext
  <2>1. Calm' => Calm
    BY <1>2 DEF TurnNext, Calm, history
  <2> QED
    BY <1>2, <2>1, TiledNext DEF TileInv
<1>3. CASE TurnPrev
  <2>1. Calm' => Calm
    BY <1>3 DEF TurnPrev, Calm
  <2> QED
    BY <1>3, <2>1, TiledTurnPrev DEF TileInv
<1>4. ASSUME NEW f \in flights, Serve(f) PROVE TileInv'
  <2>1. Calm' => Calm
    BY <1>4 DEF Serve, Calm, history
  <2> QED
    BY <1>4, <2>1, TiledServe DEF TileInv
<1>5. ASSUME NEW f \in flights, Receive(f) PROVE TileInv'
  <2>1. Calm' => Calm
    BY <1>5 DEF Receive, Calm
  <2> QED
    BY <1>5, <2>1, TiledReceive DEF TileInv
<1>6. ASSUME NEW f \in flights, Fail(f) PROVE TileInv'
  BY <1>6 DEF Fail, TileInv, Calm
<1>7. ASSUME NEW batch \in Batches, PostArrives(batch) PROVE TileInv'
  <2>1. /\ UNCHANGED <<query, page, shown, cache, flights, history>>
        /\ posted' = posted
    BY <1>7 DEF PostArrives, Post, hook
  <2> QED
    BY <2>1, CourseStays
<1>8. CASE Insert
  <2>1. /\ UNCHANGED <<query, page, shown, cache, flights, history>>
        /\ InsertNext
    BY <1>8 DEF Insert, hook
  <2> QED
    BY <2>1, AcceptedGrows, CourseStays
<1>9. CASE UNCHANGED vars
  <2>1. /\ UNCHANGED <<query, page, shown, cache, flights, history>>
        /\ posted' = posted
    BY <1>9 DEF vars, hook, store
  <2> QED
    BY <2>1, CourseStays
<1> QED
  BY <1>1, <1>2, <1>3, <1>4, <1>5, <1>6, <1>7, <1>8, <1>9 DEF Next

\* When the page has loaded, the pages turned so far are the answer to the
\* search, newest first, without repetition or gap, whatever arrived since the
\* first of them was served.
THEOREM AlwaysTiled == Spec => []PagesTile
<1>1. PagingInit => TileInv /\ CoveredInv /\ AnswersAreNewest
  BY TileInvInit, CoveredInvInit
     DEF PagingInit, Flight, AnswersAreNewest
<1>2. /\ TileInv /\ CoveredInv /\ AnswersAreNewest /\ StoreInv /\ TypeInv /\ [Next]_vars
         => TileInv' /\ CoveredInv' /\ AnswersAreNewest'
  BY TileInvNext, CoveredInvNext, AnswersAreNewestNext
<1>3. TileInv => PagesTile
  <2> SUFFICES ASSUME Course, flights = {} PROVE PagesTile
    BY DEF TileInv, Calm, PagesTile
  <2>1. /\ Tiled(trail, basis, query) /\ trail # <<>> /\ Len(trail) = page
        /\ shown = trail[page]
    BY DEF Course
  <2> QED
    BY <2>1 DEF Tiled, PagesTile
<1> QED
  BY <1>1, <1>2, <1>3, AlwaysTypes, PTL DEF Spec
=============================================================================
