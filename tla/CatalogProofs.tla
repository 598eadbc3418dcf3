---------------------------- MODULE CatalogProofs ----------------------------
(***************************************************************************)
(* Proofs about the list, the details and the icons, for any number of     *)
(* users, ISUs, clients, requests, restarts and initializes: whichever     *)
(* cache answers, a user is shown only that user's own rows, the details   *)
(* of an ISU are those of its whole row, a list has every registered ISU   *)
(* in the order of the rows, and the JSON of a list has the latest         *)
(* conditions or is about to be dropped.                                   *)
(***************************************************************************)
EXTENDS IsuCatalog, TLAPS, SequenceTheorems, FiniteSetTheorems, NaturalsInduction

----------------------------------------------------------------------------
(* A step of one handler.                                                  *)

Fields == {"op", "pc", "isu", "todo", "items", "over", "due"}

LEMMA WithFacts ==
    ASSUME NEW h, DOMAIN h = Fields, NEW changes
    PROVE  /\ DOMAIN With(h, changes) = Fields
           /\ With(h, changes) = [f \in Fields |-> With(h, changes)[f]]
           /\ \A f \in Fields : With(h, changes)[f] =
                  IF f \in DOMAIN changes THEN changes[f] ELSE h[f]
BY DEF With

LEMMA HandlerFields == ASSUME NEW h \in Handlers PROVE DOMAIN h = Fields
BY DEF Handlers, Fields

LEMMA IsHandler ==
    ASSUME NEW h, DOMAIN h = Fields, h = [f \in Fields |-> h[f]],
           h.op \in Ops \cup {"none"},
           h.pc \in Places,
           h.isu \in Isus \cup {NoIsu}, h.todo \in Seq(Items),
           h.items \in Seq(Items), h.over \in BOOLEAN, h.due \in SUBSET Isus
    PROVE  h \in Handlers
BY DEF Handlers, Fields

\* Only the handler of c has moved.
Moved(c) ==
    /\ \A d \in Clients \ {c} : req'[d] = req[d]
    /\ DOMAIN req'[c] = Fields /\ req'[c] = [f \in Fields |-> req'[c][f]]
    /\ req'[c] \in Handlers => req' \in [Clients -> Handlers]

LEMMA StepFacts ==
    ASSUME req \in [Clients -> Handlers], NEW c \in Clients, NEW changes,
           Step(c, changes)
    PROVE  /\ Moved(c)
           /\ \A f \in Fields : req'[c][f] =
                  IF f \in DOMAIN changes THEN changes[f] ELSE req[c][f]
<1>1. req'[c] = With(req[c], changes) /\ DOMAIN req[c] = Fields
  BY HandlerFields DEF Step
<1>2. \A d \in Clients \ {c} : req'[d] = req[d]
  BY DEF Step
<1>3. req'[c] \in Handlers => req' \in [Clients -> Handlers]
  BY DEF Step
<1> QED
  BY <1>1, <1>2, <1>3, WithFacts DEF Moved

Same(c, fields) == \A f \in fields : req'[c][f] = req[c][f]

LEMMA ToFacts ==
    ASSUME req \in [Clients -> Handlers], NEW c \in Clients, NEW pc, Step(c, To(pc))
    PROVE  req'[c].pc = pc /\ Same(c, Fields \ {"pc"}) /\ Moved(c)
<1>1. DOMAIN To(pc) = {"pc"} /\ To(pc)["pc"] = pc
  BY DEF To
<1> QED
  BY <1>1, StepFacts DEF Fields, Same

LEMMA ReplyFacts ==
    ASSUME req \in [Clients -> Handlers], NEW c \in Clients, NEW items,
           Step(c, Reply(items))
    PROVE  /\ req'[c].pc = "done" /\ req'[c].items = items
           /\ Same(c, Fields \ {"pc", "items"}) /\ Moved(c)
<1>1. /\ DOMAIN Reply(items) = {"pc", "items"} /\ Reply(items)["pc"] = "done"
      /\ Reply(items)["items"] = items
  BY DEF Reply
<1> QED
  BY <1>1, StepFacts DEF Fields, Same

\* The handler of a request that arrives.
LEMMA ArriveFacts ==
    ASSUME req \in [Clients -> Handlers], NEW c \in Clients, NEW op, NEW i,
           NEW changes, DOMAIN changes \subseteq {"pc", "items"},
           Arrive(c, op, i, changes)
    PROVE  /\ req[c].pc = "idle"
           /\ req'[c].pc = IF "pc" \in DOMAIN changes THEN changes.pc ELSE "idle"
           /\ req'[c].items = IF "items" \in DOMAIN changes THEN changes.items ELSE <<>>
           /\ req'[c].op = op /\ req'[c].isu = i /\ req'[c].todo = <<>>
           /\ req'[c].over = FALSE
           /\ req'[c].due = {j \in acked : Owns(Me(c), j)}
           /\ Moved(c)
<1> DEFINE new == [Idle EXCEPT !.op = op, !.isu = i,
                               !.due = {j \in acked : Owns(Me(c), j)}]
<1>1. /\ new.op = op /\ new.pc = "idle" /\ new.isu = i /\ new.todo = <<>>
      /\ new.items = <<>> /\ new.over = FALSE
      /\ new.due = {j \in acked : Owns(Me(c), j)}
      /\ DOMAIN new = Fields
  BY DEF Idle, Fields
<1>2. Step(c, With(new, changes)) /\ req[c].pc = "idle"
  BY DEF Arrive
<1> HIDE DEF new
<1>3. /\ DOMAIN With(new, changes) = Fields
      /\ \A f \in Fields : With(new, changes)[f] =
             IF f \in DOMAIN changes THEN changes[f] ELSE new[f]
  BY <1>1, WithFacts
<1>4. \A f \in Fields : req'[c][f] =
             IF f \in DOMAIN changes THEN changes[f] ELSE new[f]
  BY <1>2, <1>3, StepFacts
<1>5. Moved(c)
  BY <1>2, StepFacts
<1> QED
  BY <1>1, <1>2, <1>4, <1>5 DEF Fields

----------------------------------------------------------------------------
(* Ids.                                                                    *)

LEMMA LeastFacts ==
    ASSUME NEW S, S \subseteq Nat, S # {}
    PROVE  Min(S) \in S /\ \A n \in S : Min(S) <= n
<1>1. PICK m \in S : \A k \in S : ~(<<k, m>> \in OpToRel(<, Nat))
  BY WFMin, NatLessThanWellFounded
<1>2. \A k \in S : ~(k < m)
  BY <1>1 DEF OpToRel
<1>3. \A k \in S : m <= k
  BY <1>2
<1> QED
  BY <1>3 DEF Min

Unique(table) ==
    \A m, n \in DOMAIN table : table[m].isu = table[n].isu => m = n

\* The id of an ISU is the place of its row.
LEMMA TableFacts ==
    ASSUME NEW table \in Seq([isu : Isus, user : Users]), Unique(table), NEW i
    PROVE  /\ IdIn(table, i) \in Nat
           /\ (\A r \in Range(table) : r.isu # i) => IdIn(table, i) = 0
           /\ \A n \in DOMAIN table : table[n].isu = i => IdIn(table, i) = n /\ n # 0
<1> DEFINE I == {n \in 1..Len(table) : table[n].isu = i}
<1>1. IdIn(table, i) = IF I # {} THEN Min(I) ELSE 0
  BY DEF IdIn, SelectInSeq
<1>2. DOMAIN table = 1..Len(table) /\ Len(table) \in Nat
  OBVIOUS
<1>3. I \subseteq Nat
  BY <1>2
<1>4. I # {} => Min(I) \in I
  BY <1>3, LeastFacts
<1>5. (\A r \in Range(table) : r.isu # i) => I = {}
  BY <1>2 DEF Range
<1> HIDE DEF I
<1>6. \A n \in I : n \in DOMAIN table /\ table[n].isu = i
  BY <1>2 DEF I
<1>7. \A n \in DOMAIN table : table[n].isu = i => n \in I
  BY <1>2 DEF I
<1>8. ASSUME NEW n \in DOMAIN table, table[n].isu = i PROVE IdIn(table, i) = n /\ n # 0
  <2>1. n \in I /\ Min(I) \in DOMAIN table /\ table[Min(I)].isu = i
    BY <1>4, <1>6, <1>7, <1>8
  <2>2. Min(I) = n
    BY <1>8, <2>1 DEF Unique
  <2> QED
    BY <1>1, <1>2, <2>1, <2>2
<1>9. IdIn(table, i) \in Nat /\ ((\A r \in Range(table) : r.isu # i) => IdIn(table, i) = 0)
  <2>1. CASE I = {}
    BY <1>1, <2>1
  <2>2. CASE I # {}
    <3>1. IdIn(table, i) = Min(I)
      BY <1>1, <2>2
    <3> QED
      BY <1>3, <1>4, <1>5, <2>2, <3>1
  <2> QED
    BY <2>1, <2>2
<1> QED
  BY <1>8, <1>9

LEMMA IdFacts ==
    ASSUME rows \in Seq([isu : Isus, user : Users]), Unique(rows), NEW i
    PROVE  /\ Id(i) \in Nat
           /\ i \notin Registered => Id(i) = 0
           /\ \A n \in DOMAIN rows : rows[n].isu = i => Id(i) = n /\ n # 0
BY TableFacts DEF Id, Registered

----------------------------------------------------------------------------
(* ORDER BY id DESC.                                                       *)

Decreasing(s, S) == /\ s \in [1..Cardinality(S) -> S]
                    /\ \A m, n \in DOMAIN s : m < n => s[m] > s[n]

\* Every finite set of numbers has a decreasing enumeration.
LEMMA DescendingFacts ==
    ASSUME NEW S, S \subseteq Nat, IsFiniteSet(S)
    PROVE  Decreasing(Descending(S), S)
<1> DEFINE Bad == {n \in Nat : \E T \in SUBSET Nat :
                      /\ IsFiniteSet(T) /\ Cardinality(T) = n
                      /\ \A s : ~Decreasing(s, T)}
<1>1. ASSUME Bad # {} PROVE FALSE
  <2>1. PICK n \in Bad : \A k \in Bad : n <= k
    BY <1>1, LeastFacts
  <2>2. PICK T \in SUBSET Nat : /\ IsFiniteSet(T) /\ Cardinality(T) = n
                                /\ \A s : ~Decreasing(s, T)
    BY <2>1
  <2>3. T # {}
    <3>1. SUFFICES ASSUME T = {} PROVE Decreasing(<<>>, T)
      BY <2>2
    <3>2. Cardinality(T) = 0
      BY <3>1, FS_EmptySet
    <3> QED
      BY <3>1, <3>2 DEF Decreasing
  <2> DEFINE x == Min(T)
             R == T \ {x}
  <2>4. x \in T /\ \A y \in R : x < y
    <3>1. T \subseteq Nat
      OBVIOUS
    <3>2. x \in T /\ \A y \in T : x <= y
      BY <2>3, <3>1, LeastFacts
    <3> HIDE DEF x
    <3> QED
      BY <3>1, <3>2
  <2>5. IsFiniteSet(R) /\ Cardinality(R) = n - 1 /\ R \in SUBSET Nat /\ n \in Nat
    BY <2>1, <2>2, <2>4, FS_RemoveElement
  <2>6. n - 1 \in Nat /\ n - 1 \notin Bad
    BY <2>1, <2>2, <2>3, <2>5, FS_EmptySet, FS_CardinalityType
  <2>7. PICK r : Decreasing(r, R)
    BY <2>5, <2>6
  <2> DEFINE s == [k \in 1..n |-> IF k < n THEN r[k] ELSE x]
  <2> HIDE DEF x
  <2>8. r \in [1..(n - 1) -> R] /\ \A k, l \in 1..(n - 1) : k < l => r[k] > r[l]
    BY <2>5, <2>7 DEF Decreasing
  <2>9. s \in [1..n -> T]
    BY <2>4, <2>6, <2>8
  <2>10. ASSUME NEW k \in 1..n, NEW l \in 1..n, k < l PROVE s[k] > s[l]
    <3>1. k \in 1..(n - 1) /\ s[k] = r[k] /\ r[k] \in R
      BY <2>6, <2>8, <2>10
    <3>2. CASE l < n
      BY <2>6, <2>8, <2>10, <3>1, <3>2
    <3>3. CASE ~(l < n)
      BY <2>2, <2>4, <3>1, <3>3
    <3> QED
      BY <3>2, <3>3
  <2> QED
    BY <2>2, <2>9, <2>10 DEF Decreasing
<1>2. Cardinality(S) \in Nat
  BY FS_CardinalityType
<1>3. \E s : Decreasing(s, S)
  BY <1>1, <1>2
<1> QED
  BY <1>3 DEF Decreasing, Descending

\* The rows of a user.
LEMMA IdsFacts ==
    ASSUME NEW table \in Seq([isu : Isus, user : Users]), NEW u
    PROVE  /\ DOMAIN Descending(Ids(table, u)) = 1..Cardinality(Ids(table, u))
           /\ Cardinality(Ids(table, u)) \in Nat
           /\ \A n \in DOMAIN Descending(Ids(table, u)) :
                 LET id == Descending(Ids(table, u))[n]
                 IN  id \in DOMAIN table /\ id \in Nat /\ table[id].user = u
                     /\ table[id].isu \in Isus /\ table[id] \in Range(table)
<1>1. DOMAIN table = 1..Len(table) /\ Len(table) \in Nat
  OBVIOUS
<1>2. IsFiniteSet(Ids(table, u)) /\ Ids(table, u) \subseteq Nat
  <2>1. IsFiniteSet(1..Len(table))
    BY <1>1, FS_Interval
  <2> QED
    BY <1>1, <2>1, FS_Subset DEF Ids
<1>3. Descending(Ids(table, u)) \in [1..Cardinality(Ids(table, u)) -> Ids(table, u)]
  BY <1>2, DescendingFacts DEF Decreasing
<1>4. Cardinality(Ids(table, u)) \in Nat
  BY <1>2, FS_CardinalityType
<1>5. ASSUME NEW id \in Ids(table, u)
      PROVE  /\ id \in DOMAIN table /\ id \in Nat
             /\ table[id].user = u /\ table[id].isu \in Isus
             /\ table[id] \in Range(table)
  <2>1. id \in DOMAIN table /\ id \in Nat /\ table[id].user = u
    BY <1>1 DEF Ids
  <2>2. table[id] \in [isu : Isus, user : Users]
    BY <1>1, <2>1, ElementOfSeq
  <2> QED
    BY <2>1, <2>2 DEF Range
<1> QED
  BY <1>3, <1>4, <1>5

----------------------------------------------------------------------------
(* Types.                                                                  *)

\* While a list works on a row there is one, and a handler of one ISU stays on
\* the way of its request; a registration goes on with its own row.
RowPcs == {"known", "knownItem", "owner", "record", "look", "latest", "drop",
           "again", "item"}
ListPcs == RowPcs \cup {"order", "select", "setOrder", "setJSON", "done"}

Fits(op, pc) ==
    /\ op = "none" <=> pc = "idle"
    /\ op = "list" => pc \in ListPcs
    /\ op = "register" => pc \in {"owner", "record", "icon", "prepend", "done"}
    /\ op \in {"detail", "conditions"} => pc \in {"select", "owner", "record", "done"}
    /\ op = "icon" => pc \in {"select", "owner", "icon", "done"}

Place(c) ==
    /\ Fits(req[c].op, req[c].pc)
    /\ req[c].pc = "idle" => /\ req[c].due = {}
                             /\ req[c].todo = <<>> /\ req[c].items = <<>>
    /\ req[c].op = "list" /\ req[c].pc \in RowPcs => req[c].todo # <<>>
    /\ req[c].op \notin {"none", "list"} => req[c].isu \in Isus
    /\ req[c].op = "register" => Owns(Me(c), req[c].isu)

CacheTypes ==
    /\ account \in [Clients -> Users]
    /\ rows \in Seq([isu : Isus, user : Users]) /\ Unique(rows)
    /\ latest \in [Isus -> Nat]
    /\ owner \in [Isus -> Users \cup {Nobody}]
    /\ record \in [Isus -> [user : Users \cup {Nobody}, id : Nat]]
    /\ icon \in [Isus -> Users \cup {Nobody}]
    /\ order \in [Users -> SUBSET Seq(Isus)]
    /\ listJSON \in [Users -> SUBSET [items : Seq(Items), over : BOOLEAN]]
    /\ \A u \in Users : Cardinality(order[u]) <= 1 /\ Cardinality(listJSON[u]) <= 1
    /\ fills \subseteq [isu : Isus, user : Users]
    /\ writer \in [pc : {"idle", "owner", "drop"}, isu : Isus \cup {NoIsu},
                   user : Users \cup {Nobody}]
    /\ writer.pc # "idle" => writer.isu \in Isus
    /\ writer.pc = "drop" => writer.user \in Users
    /\ acked \subseteq Registered /\ forgotten \subseteq acked

TypeInv ==
    /\ CacheTypes
    /\ req \in [Clients -> Handlers]
    /\ \A c \in Clients : Place(c)

LEMMA TypeInvIsTypeOK == TypeInv => TypeOK
BY DEF TypeInv, TypeOK, CacheTypes, Unique

Kept == \A u \in Users : \A i \in Isus : Owns(u, i) => Owns(u, i)'

LEMMA PlaceFrame ==
    ASSUME TypeInv, NEW d \in Clients, Kept, account' = account,
           Same(d, Fields \ {"over"})
    PROVE  Place(d)'
<1>1. /\ req'[d].pc = req[d].pc /\ req'[d].op = req[d].op /\ req'[d].due = req[d].due
      /\ req'[d].todo = req[d].todo /\ req'[d].items = req[d].items
      /\ req'[d].isu = req[d].isu
  BY DEF Same, Fields
<1>2. Place(d) /\ Me(d)' = Me(d) /\ Me(d) \in Users
  BY DEF TypeInv, CacheTypes, Me
<1>3. req[d].op = "register" => Owns(Me(d), req[d].isu)'
  BY <1>1, <1>2 DEF Place, Kept
<1> QED
  BY <1>1, <1>2, <1>3 DEF Place

\* One handler has moved.
LEMMA TypeInvFrame ==
    ASSUME TypeInv, NEW c \in Clients, \A d \in Clients \ {c} : req'[d] = req[d],
           Kept, account' = account, req' \in [Clients -> Handlers], Place(c)',
           CacheTypes'
    PROVE  TypeInv'
<1>1. \A d \in Clients \ {c} : Place(d)'
  BY PlaceFrame DEF Same
<1> QED
  BY <1>1 DEF TypeInv

LEMMA KeptFrame == ASSUME rows' = rows PROVE Kept
BY DEF Kept, Owns

LEMMA PlainFacts ==
    ASSUME NEW i \in Isus, NEW id \in Nat
    PROVE  /\ Plain(i, id) \in Items /\ Plain(i, id).isu = i
           /\ Plain(i, id).id = id /\ Plain(i, id).at = Never
BY DEF Plain, Items, Never

LEMMA RowsFacts ==
    ASSUME CacheTypes, NEW u \in Users, NEW i \in Isus
    PROVE  /\ Owns(u, i) => i \in Registered
           /\ Owns(u, i) <=> \E n \in DOMAIN rows : rows[n].isu = i /\ rows[n].user = u
           /\ Id(i) \in Nat
<1>1. Owns(u, i) <=> \E n \in DOMAIN rows : rows[n] = [isu |-> i, user |-> u]
  BY DEF Owns, Range
<1>2. ASSUME NEW n \in DOMAIN rows PROVE rows[n] \in [isu : Isus, user : Users]
  <2>1. rows \in Seq([isu : Isus, user : Users]) /\ n \in 1..Len(rows)
    BY DEF CacheTypes
  <2> QED
    BY <2>1, ElementOfSeq
<1>3. ASSUME NEW n \in DOMAIN rows
      PROVE  rows[n] = [isu |-> i, user |-> u] <=> rows[n].isu = i /\ rows[n].user = u
  BY <1>2
<1>4. Owns(u, i) => i \in Registered
  BY DEF Owns, Registered
<1>5. Id(i) \in Nat
  BY IdFacts DEF CacheTypes
<1> QED
  BY <1>1, <1>3, <1>4, <1>5

\* The ISU a handler is about to cache something of is one.
LEMMA SubjectFacts ==
    ASSUME TypeInv, NEW c \in Clients, req[c].op = "list" => req[c].pc \in RowPcs,
           req[c].op # "none"
    PROVE  /\ Subject(c) \in Isus
           /\ req[c].op = "list" => /\ Head(req[c].todo) \in Items
                                    /\ Subject(c) = Head(req[c].todo).isu
                                    /\ Tail(req[c].todo) \in Seq(Items)
<1>1. req[c] \in Handlers /\ Place(c)
  BY DEF TypeInv
<1>2. CASE req[c].op # "list"
  BY <1>1, <1>2 DEF Place, Subject
<1>3. CASE req[c].op = "list"
  <2>1. req[c].todo \in Seq(Items) /\ req[c].todo # <<>>
    BY <1>1, <1>3 DEF Place, Handlers
  <2>2. Head(req[c].todo) \in Items /\ Tail(req[c].todo) \in Seq(Items)
    BY <2>1, HeadTailProperties
  <2> QED
    BY <1>3, <2>2 DEF Subject, Items
<1> QED
  BY <1>2, <1>3

LEMMA MovedFacts ==
    ASSUME TypeInv, NEW c \in Clients, Moved(c),
           req'[c].op \in Ops \cup {"none"}, req'[c].pc \in Places,
           req'[c].isu \in Isus \cup {NoIsu}, req'[c].todo \in Seq(Items),
           req'[c].items \in Seq(Items), req'[c].over \in BOOLEAN,
           req'[c].due \in SUBSET Isus
    PROVE  req' \in [Clients -> Handlers]
BY IsHandler DEF Moved

LEMMA ToTyped ==
    ASSUME TypeInv, NEW c \in Clients, NEW pc \in Places, Step(c, To(pc))
    PROVE  req' \in [Clients -> Handlers]
<1>1. req[c] \in Handlers /\ Moved(c) /\ req'[c].pc = pc /\ Same(c, Fields \ {"pc"})
  BY ToFacts DEF TypeInv
<1> QED
  BY <1>1, MovedFacts DEF Same, Fields, Handlers

LEMMA ReplyTyped ==
    ASSUME TypeInv, NEW c \in Clients, NEW items \in Seq(Items), Step(c, Reply(items))
    PROVE  req' \in [Clients -> Handlers]
<1>1. /\ req[c] \in Handlers /\ Moved(c) /\ req'[c].pc = "done"
      /\ req'[c].items = items /\ Same(c, Fields \ {"pc", "items"})
  BY ReplyFacts DEF TypeInv
<1> QED
  BY <1>1, MovedFacts DEF Same, Fields, Handlers, Places

\* A handler goes on to another place.
LEMMA ToPlace ==
    ASSUME TypeInv, NEW c \in Clients, NEW pc \in Places \ {"idle"}, Step(c, To(pc)),
           req[c].pc # "idle", UNCHANGED <<account, rows>>, Fits(req[c].op, pc),
           req[c].op = "list" /\ pc \in RowPcs => req[c].todo # <<>>
    PROVE  Place(c)'
<1>1. /\ req'[c].pc = pc /\ req'[c].op = req[c].op /\ req'[c].todo = req[c].todo
      /\ req'[c].isu = req[c].isu
  BY ToFacts DEF TypeInv, Same, Fields
<1>2. Place(c) /\ \A i : Owns(Me(c), i)' <=> Owns(Me(c), i)
  BY DEF TypeInv, Owns, Me
<1> QED
  BY <1>1, <1>2 DEF Place

\* A handler answers.
LEMMA ReplyPlace ==
    ASSUME TypeInv, NEW c \in Clients, NEW items, Step(c, Reply(items)),
           req[c].pc # "idle", UNCHANGED <<account, rows>>
    PROVE  Place(c)'
<1>1. /\ req'[c].pc = "done" /\ req'[c].op = req[c].op /\ req'[c].todo = req[c].todo
      /\ req'[c].isu = req[c].isu /\ req[c] \in Handlers
  BY ReplyFacts DEF TypeInv, Same, Fields
<1>2. Place(c) /\ \A i : Owns(Me(c), i)' <=> Owns(Me(c), i)
  BY DEF TypeInv, Owns, Me
<1>3. Fits(req[c].op, "done")
  BY <1>1, <1>2 DEF Place, Fits, ListPcs, Handlers, Ops
<1> QED
  BY <1>1, <1>2, <1>3 DEF Place, RowPcs

LEMMA TypedOne ==
    ASSUME TypeInv, NEW c \in Clients,
           SelectRow(c) \/ SetOwner(c) \/ SetRecord(c) \/ SetIcon(c) \/ StartFill(c)
              \/ Prepend(c)
    PROVE  req' \in [Clients -> Handlers] /\ Place(c)'
<1>0. /\ req[c] \in Handlers /\ Place(c) /\ Me(c) \in Users
      /\ \A i \in Isus : Id(i) \in Nat
      /\ <<>> \in Seq(Items)
  BY RowsFacts DEF TypeInv, CacheTypes, Me
<1>1. ASSUME NEW i \in Isus PROVE <<Plain(i, Id(i))>> \in Seq(Items)
  BY <1>0, PlainFacts
<1>2. CASE SelectRow(c)
  <2>1. /\ req[c].pc = "select" /\ req[c].op # "list" /\ UNCHANGED <<account, rows>>
        /\ Step(c, To("owner")) \/ Step(c, Reply(<<>>))
    BY <1>2 DEF SelectRow
  <2>2. Fits(req[c].op, "owner")
    BY <1>0, <2>1 DEF Place, Fits
  <2>3. "owner" \in Places \ {"idle"}
    BY DEF Places
  <2> QED
    BY <1>0, <2>1, <2>2, <2>3, ToTyped, ToPlace, ReplyTyped, ReplyPlace
<1>3. CASE SetOwner(c)
  <2>1. /\ req[c].pc = "owner" /\ UNCHANGED <<account, rows>>
        /\ Step(c, IF req[c].op = "icon" THEN To("icon") ELSE To("record"))
    BY <1>3 DEF SetOwner
  <2>2. Fits(req[c].op, IF req[c].op = "icon" THEN "icon" ELSE "record")
    BY <1>0, <2>1 DEF Place, Fits, ListPcs, RowPcs
  <2>3. "icon" \in Places \ {"idle"} /\ "record" \in Places \ {"idle"}
    BY DEF Places
  <2>4. req[c].op = "list" => req[c].todo # <<>>
    BY <1>0, <2>1 DEF Place, RowPcs
  <2>5. CASE req[c].op = "icon"
    BY <2>1, <2>2, <2>3, <2>5, ToTyped, ToPlace
  <2>6. CASE req[c].op # "icon"
    BY <2>1, <2>2, <2>3, <2>4, <2>6, ToTyped, ToPlace
  <2> QED
    BY <2>5, <2>6
<1>4. CASE SetRecord(c)
  <2>1. /\ req[c].pc = "record" /\ UNCHANGED <<account, rows>>
    BY <1>4 DEF SetRecord
  <2>2. req[c].op \in {"register", "list", "detail", "conditions"}
    BY <1>0, <2>1 DEF Place, Fits, Handlers, Ops
  <2>3. Subject(c) \in Isus
    BY <2>1, <2>2, SubjectFacts DEF RowPcs
  <2>4. CASE req[c].op = "register"
    <3>1. Step(c, To("icon")) /\ Fits(req[c].op, "icon") /\ "icon" \in Places \ {"idle"}
      BY <1>4, <2>4 DEF SetRecord, Fits, Places
    <3> QED
      BY <2>1, <2>4, <3>1, ToTyped, ToPlace
  <2>5. CASE req[c].op = "list"
    <3>1. Step(c, To("look")) /\ Fits(req[c].op, "look") /\ "look" \in Places \ {"idle"}
      BY <1>4, <2>5 DEF SetRecord, Fits, Places, ListPcs, RowPcs
    <3>2. req[c].todo # <<>>
      BY <1>0, <2>1, <2>5 DEF Place, RowPcs
    <3> QED
      BY <2>1, <2>5, <3>1, <3>2, ToTyped, ToPlace
  <2>6. CASE req[c].op \in {"detail", "conditions"}
    <3>1. Step(c, Reply(<<Plain(Subject(c), Id(Subject(c)))>>))
      BY <1>4, <2>6 DEF SetRecord
    <3> QED
      BY <1>1, <2>1, <2>3, <3>1, ReplyTyped, ReplyPlace
  <2> QED
    BY <2>2, <2>4, <2>5, <2>6
<1>5. CASE SetIcon(c)
  <2>1. /\ req[c].pc = "icon" /\ UNCHANGED <<account, rows>> /\ req[c].op = "register"
        /\ Step(c, To("prepend"))
    BY <1>5 DEF SetIcon, Serving
  <2>2. Fits(req[c].op, "prepend") /\ "prepend" \in Places \ {"idle"}
    BY <2>1 DEF Fits, Places
  <2> QED
    BY <2>1, <2>2, ToTyped, ToPlace
<1>6. CASE StartFill(c) \/ Prepend(c)
  <2>1. /\ req[c].pc # "idle" /\ UNCHANGED <<account, rows>> /\ req[c].isu \in Isus
        /\ Step(c, Reply(<<Plain(req[c].isu, Id(req[c].isu))>>))
    BY <1>0, <1>6 DEF StartFill, Prepend, Serving, Place
  <2> QED
    BY <1>1, <2>1, ReplyTyped, ReplyPlace
<1> QED
  BY <1>2, <1>3, <1>4, <1>5, <1>6

LEMMA IsSeq ==
    ASSUME NEW S, NEW n \in Nat, NEW f \in [1..n -> S] PROVE f \in Seq(S)
BY SeqDef

\* A SELECT returns the user's rows with their ids.
LEMMA ListOfFacts ==
    ASSUME CacheTypes, NEW u \in Users, NEW saved \in Saved
    PROVE  /\ ListOf(u, saved) \in Seq(Items)
           /\ \A n \in DOMAIN ListOf(u, saved) :
                 /\ Owns(u, ListOf(u, saved)[n].isu)
                 /\ ListOf(u, saved)[n].id = Id(ListOf(u, saved)[n].isu)
<1> DEFINE ids == Descending(Ids(rows, u))
           k == Cardinality(Ids(rows, u))
           item(n) == [isu |-> rows[ids[n]].isu, id |-> ids[n],
                       at |-> saved[rows[ids[n]].isu]]
<1>1. rows \in Seq([isu : Isus, user : Users]) /\ Unique(rows)
  BY DEF CacheTypes
<1>2. /\ DOMAIN ids = 1..k /\ k \in Nat
      /\ \A n \in 1..k : /\ ids[n] \in DOMAIN rows /\ ids[n] \in Nat
                         /\ rows[ids[n]].user = u /\ rows[ids[n]].isu \in Isus
  BY ZenonT(30), <1>1, IdsFacts
<1>3. \A i \in Isus : saved[i] \in Nat
  <2>1. \A i \in Isus : saved[i] \in Times(i)
    BY DEF Saved
  <2>2. \A i \in Isus : Times(i) \subseteq Nat
    BY CatalogAssumption DEF Times, SeedLatest, Never
  <2> QED
    BY <2>1, <2>2
<1>4. ListOf(u, saved) = [n \in 1..k |-> item(n)]
  BY <1>2 DEF ListOf
<1> HIDE DEF ids, k
<1>5. \A n \in 1..k : item(n) \in Items
  BY <1>2, <1>3 DEF Items
<1>6. ASSUME NEW n \in 1..k
      PROVE  Owns(u, item(n).isu) /\ item(n).id = Id(item(n).isu)
  <2>1. /\ item(n).isu = rows[ids[n]].isu /\ item(n).id = ids[n]
        /\ ids[n] \in DOMAIN rows /\ rows[ids[n]].isu \in Isus /\ rows[ids[n]].user = u
    BY <1>2
  <2>2. Id(rows[ids[n]].isu) = ids[n]
    BY <1>1, <2>1, IdFacts
  <2>3. Owns(u, rows[ids[n]].isu)
    BY <2>1, RowsFacts
  <2> QED
    BY <2>1, <2>2, <2>3
<1> HIDE DEF item
<1>7. [n \in 1..k |-> item(n)] \in [1..k -> Items]
  BY <1>5
<1>8. ListOf(u, saved) \in Seq(Items)
  BY <1>2, <1>4, <1>7, IsSeq
<1> QED
  BY <1>4, <1>6, <1>8

\* A cached order becomes the rows of the list, ids to follow.
LEMMA OrderFacts ==
    ASSUME NEW o \in Seq(Isus)
    PROVE  LET todo == [n \in DOMAIN o |-> Plain(o[n], Partial)]
           IN  /\ todo \in Seq(Items) /\ (o # <<>> => todo # <<>>)
               /\ DOMAIN todo = DOMAIN o
               /\ \A n \in DOMAIN o : todo[n].isu = o[n]
<1>1. DOMAIN o = 1..Len(o) /\ Len(o) \in Nat
  BY LenProperties
<1>2. \A n \in 1..Len(o) : o[n] \in Isus
  BY ElementOfSeq
<1>3. \A n \in 1..Len(o) : Plain(o[n], Partial) \in Items /\ Plain(o[n], Partial).isu = o[n]
  BY <1>2, PlainFacts DEF Partial
<1> DEFINE item(n) == Plain(o[n], Partial)
           todo == [n \in DOMAIN o |-> item(n)]
<1> HIDE DEF item
<1>4. todo \in [1..Len(o) -> Items] /\ \A n \in DOMAIN o : todo[n].isu = o[n]
  BY <1>1, <1>3 DEF item
<1>5. todo \in Seq(Items)
  BY <1>1, <1>4, IsSeq
<1>6. o # <<>> => todo # <<>>
  <2>1. o # <<>> => Len(o) # 0
    BY EmptySeq
  <2>2. o # <<>> => 1 \in DOMAIN todo
    BY <1>1, <2>1
  <2> QED
    BY <2>2
<1> QED
  BY <1>4, <1>5, <1>6 DEF item

\* The row in work is replaced by one with the id of its record.
LEMMA HeadFacts ==
    ASSUME TypeInv, NEW c \in Clients, req[c].op = "list", req[c].pc \in RowPcs,
           NEW id \in Nat
    PROVE  LET todo == <<Plain(Subject(c), id)>> \o Tail(req[c].todo)
           IN  todo \in Seq(Items) /\ todo # <<>>
<1>1. Subject(c) \in Isus /\ Tail(req[c].todo) \in Seq(Items)
  BY SubjectFacts
<1>2. <<Plain(Subject(c), id)>> \in Seq(Items) /\ Len(<<Plain(Subject(c), id)>>) = 1
  BY <1>1, PlainFacts
<1>3. Len(Tail(req[c].todo)) \in Nat
  BY <1>1, LenProperties
<1> QED
  BY <1>1, <1>2, <1>3, ConcatProperties, EmptySeq

LEMMA TypedList ==
    ASSUME TypeInv, NEW c \in Clients,
           ReadOrder(c) \/ ReadRecord(c) \/ SelectList(c) \/ ReadBack(c)
              \/ BuildItem(c)
    PROVE  req' \in [Clients -> Handlers] /\ Place(c)'
<1>0. /\ req[c] \in Handlers /\ Place(c) /\ Me(c) \in Users /\ CacheTypes
      /\ <<>> \in Seq(Items)
  BY DEF TypeInv, CacheTypes, Me
<1>1. req[c].op = "list" /\ UNCHANGED <<account, rows>>
  BY <1>0 DEF ReadOrder, ReadRecord, SelectList, ReadBack, BuildItem, Serving,
     Place, Fits, Handlers, Ops
\* It is enough to know what the step does to the place and the rows.
<1>2. ASSUME Moved(c), req'[c].pc \in ListPcs, Same(c, {"op", "isu", "due"}),
             req'[c].todo \in Seq(Items), req'[c].items \in Seq(Items),
             req'[c].over \in BOOLEAN,
             req'[c].pc \in RowPcs => req'[c].todo # <<>>
      PROVE  req' \in [Clients -> Handlers] /\ Place(c)'
  <2>1. req'[c].op = "list" /\ req'[c].isu = req[c].isu /\ req'[c].due = req[c].due
    BY <1>1, <1>2 DEF Same
  <2>2. req'[c].pc \in Places /\ req'[c].pc # "idle" /\ Fits("list", req'[c].pc)
    BY <1>2 DEF ListPcs, RowPcs, Places, Fits
  <2>3. req' \in [Clients -> Handlers]
    BY <1>0, <1>2, <2>1, <2>2, MovedFacts DEF Handlers, Ops
  <2> QED
    BY <1>2, <2>1, <2>2, <2>3 DEF Place
<1>3. CASE ReadOrder(c)
  <2>1. CASE \E o \in order[Me(c)] :
                Step(c, [pc |-> IF o = <<>> THEN "setJSON" ELSE "known",
                         todo |-> [n \in DOMAIN o |-> Plain(o[n], Partial)]])
    <3>1. PICK o \in order[Me(c)] :
              Step(c, [pc |-> IF o = <<>> THEN "setJSON" ELSE "known",
                       todo |-> [n \in DOMAIN o |-> Plain(o[n], Partial)]])
      BY <2>1
    <3> DEFINE todo == [n \in DOMAIN o |-> Plain(o[n], Partial)]
               pc == IF o = <<>> THEN "setJSON" ELSE "known"
    <3>2. todo \in Seq(Items) /\ (o # <<>> => todo # <<>>)
      BY <1>0, OrderFacts DEF CacheTypes
    <3>3. pc \in ListPcs /\ (pc \in RowPcs => o # <<>>)
      BY DEF ListPcs, RowPcs
    <3> HIDE DEF todo, pc
    <3>4. Step(c, [pc |-> pc, todo |-> todo])
      BY <3>1 DEF todo, pc
    <3>5. /\ Moved(c) /\ req'[c].pc = pc /\ req'[c].todo = todo
          /\ req'[c].items = req[c].items /\ req'[c].over = req[c].over
          /\ Same(c, {"op", "isu", "due"})
      BY <3>4, StepFacts DEF TypeInv, Same, Fields
    <3> QED
      BY <1>0, <1>2, <3>2, <3>3, <3>5 DEF Handlers
  <2>2. CASE Step(c, To("select"))
    <3>1. req[c].pc # "idle" /\ Fits(req[c].op, "select") /\ "select" \in Places \ {"idle"}
      BY <1>0, <1>1 DEF Fits, ListPcs, Places, Place
    <3>2. "select" \notin RowPcs
      BY DEF RowPcs
    <3> QED
      BY <1>1, <2>2, <3>1, <3>2, ToTyped, ToPlace
  <2> QED
    BY <1>3, <2>1, <2>2 DEF ReadOrder
<1>4. CASE ReadRecord(c)
  <2>1. req[c].pc = "known" /\ req[c].pc \in RowPcs
    BY <1>4 DEF ReadRecord, Serving, RowPcs
  <2>2. CASE \E r \in RecordOf(Me(c), Subject(c)) :
                Step(c, [pc |-> "knownItem",
                         todo |-> <<Plain(Subject(c), r.id)>> \o Tail(req[c].todo)])
    <3>1. PICK r \in RecordOf(Me(c), Subject(c)) :
                Step(c, [pc |-> "knownItem",
                         todo |-> <<Plain(Subject(c), r.id)>> \o Tail(req[c].todo)])
      BY <2>2
    <3>2. Subject(c) \in Isus
      BY <1>1, <2>1, SubjectFacts
    <3>3. r.id \in Nat
      BY <1>0, <3>2 DEF RecordOf, CacheTypes
    <3> DEFINE todo == <<Plain(Subject(c), r.id)>> \o Tail(req[c].todo)
    <3>4. todo \in Seq(Items) /\ todo # <<>>
      BY <1>1, <2>1, <3>3, HeadFacts
    <3> HIDE DEF todo
    <3>5. Step(c, [pc |-> "knownItem", todo |-> todo])
      BY <3>1 DEF todo
    <3>6. /\ Moved(c) /\ req'[c].pc = "knownItem" /\ req'[c].todo = todo
          /\ req'[c].items = req[c].items /\ req'[c].over = req[c].over
          /\ Same(c, {"op", "isu", "due"})
      BY <3>5, StepFacts DEF TypeInv, Same, Fields
    <3>7. "knownItem" \in ListPcs
      BY DEF ListPcs, RowPcs
    <3> QED
      BY <1>0, <1>2, <3>4, <3>6, <3>7 DEF Handlers
  <2>3. CASE Step(c, [pc |-> "select", todo |-> <<>>, items |-> <<>>, over |-> FALSE])
    <3>1. /\ Moved(c) /\ req'[c].pc = "select" /\ req'[c].todo = <<>>
          /\ req'[c].items = <<>> /\ req'[c].over = FALSE
          /\ Same(c, {"op", "isu", "due"})
      BY <2>3, StepFacts DEF TypeInv, Same, Fields
    <3>2. "select" \in ListPcs /\ "select" \notin RowPcs
      BY DEF ListPcs, RowPcs
    <3> QED
      BY <1>0, <1>2, <3>1, <3>2
  <2> QED
    BY <1>4, <2>2, <2>3 DEF ReadRecord
<1>5. CASE SelectList(c)
  <2>1. PICK saved \in Saved :
            Step(c, [pc |-> IF ListOf(Me(c), saved) = <<>> THEN "setOrder" ELSE "owner",
                     todo |-> ListOf(Me(c), saved)])
    BY <1>5 DEF SelectList
  <2> DEFINE todo == ListOf(Me(c), saved)
             pc == IF todo = <<>> THEN "setOrder" ELSE "owner"
  <2>2. todo \in Seq(Items)
    BY <1>0, ListOfFacts
  <2>3. pc \in ListPcs /\ (pc \in RowPcs => todo # <<>>)
    BY DEF ListPcs, RowPcs
  <2> HIDE DEF todo, pc
  <2>4. Step(c, [pc |-> pc, todo |-> todo])
    BY <2>1 DEF todo, pc
  <2>5. /\ Moved(c) /\ req'[c].pc = pc /\ req'[c].todo = todo
        /\ req'[c].items = req[c].items /\ req'[c].over = req[c].over
        /\ Same(c, {"op", "isu", "due"})
    BY <2>4, StepFacts DEF TypeInv, Same, Fields
  <2> QED
    BY <1>0, <1>2, <2>2, <2>3, <2>5 DEF Handlers
<1>6. CASE ReadBack(c)
  <2> DEFINE id == IF RecordOf(Me(c), Subject(c)) = {} THEN Partial
                   ELSE record[Subject(c)].id
             todo == <<Plain(Subject(c), id)>> \o Tail(req[c].todo)
  <2>1. req[c].pc \in RowPcs /\ Step(c, [pc |-> "item", todo |-> todo])
    BY <1>6 DEF ReadBack, Serving, RowPcs
  <2>2. Subject(c) \in Isus
    BY <1>1, <2>1, SubjectFacts
  <2>3. id \in Nat
    BY <1>0, <2>2 DEF CacheTypes, Partial
  <2> HIDE DEF id
  <2>4. todo \in Seq(Items) /\ todo # <<>>
    BY <1>1, <2>1, <2>3, HeadFacts
  <2> HIDE DEF todo
  <2>5. /\ Moved(c) /\ req'[c].pc = "item" /\ req'[c].todo = todo
        /\ req'[c].items = req[c].items /\ req'[c].over = req[c].over
        /\ Same(c, {"op", "isu", "due"})
    BY <2>1, StepFacts DEF TypeInv, Same, Fields
  <2>6. "item" \in ListPcs
    BY DEF ListPcs, RowPcs
  <2> QED
    BY <1>0, <1>2, <2>4, <2>5, <2>6 DEF Handlers
<1>7. CASE BuildItem(c)
  <2> DEFINE rest == Tail(req[c].todo)
             new == [Head(req[c].todo) EXCEPT !.at = latest[Subject(c)]]
             items == Append(req[c].items, new)
             pc == CASE req[c].pc = "item" /\ rest # <<>> -> "owner"
                     [] req[c].pc = "item" /\ rest = <<>> -> "setOrder"
                     [] req[c].pc = "knownItem" /\ rest # <<>> -> "known"
                     [] OTHER -> "setJSON"
  <2>1. req[c].pc \in {"item", "knownItem"} /\ req[c].pc \in RowPcs
    BY <1>7 DEF BuildItem, RowPcs
  <2>2. Subject(c) \in Isus /\ Head(req[c].todo) \in Items /\ rest \in Seq(Items)
    BY <1>1, <2>1, SubjectFacts
  <2>3. new \in Items
    BY <1>0, <2>2 DEF Items, CacheTypes
  <2>4. pc \in ListPcs /\ (pc \in RowPcs => rest # <<>>)
    BY <2>1 DEF ListPcs, RowPcs
  <2>5. Step(c, [todo |-> rest, items |-> items, pc |-> pc])
    BY <1>7 DEF BuildItem
  <2> HIDE DEF rest, new, pc
  <2>6. items \in Seq(Items)
    BY <1>0, <2>3, AppendProperties DEF Handlers
  <2> HIDE DEF items
  <2>7. /\ Moved(c) /\ req'[c].pc = pc /\ req'[c].todo = rest
        /\ req'[c].items = items /\ req'[c].over = req[c].over
        /\ Same(c, {"op", "isu", "due"})
    BY <2>5, StepFacts DEF TypeInv, Same, Fields
  <2> QED
    BY <1>0, <1>2, <2>2, <2>4, <2>6, <2>7 DEF Handlers
<1> QED
  BY <1>3, <1>4, <1>5, <1>6, <1>7

LEMMA TypedTo ==
    ASSUME TypeInv, NEW c \in Clients,
           LookLatest(c) \/ FillDrop(c) \/ SetOrder(c) \/ SetJSON(c)
    PROVE  req' \in [Clients -> Handlers] /\ Place(c)'
<1>1. /\ req[c].op = "list" /\ UNCHANGED <<account, rows>>
      /\ req[c].pc \in {"look", "drop", "setOrder", "setJSON"}
  BY DEF LookLatest, FillDrop, SetOrder, SetJSON, Serving
<1>2. \E pc \in {"latest", "again", "setJSON", "done"} :
          Step(c, To(pc)) /\ (pc \in {"latest", "again"} => req[c].pc \in {"look", "drop"})
  BY DEF LookLatest, FillDrop, SetOrder, SetJSON, Serving
<1>3. PICK pc \in {"latest", "again", "setJSON", "done"} :
          Step(c, To(pc)) /\ (pc \in {"latest", "again"} => req[c].pc \in {"look", "drop"})
  BY <1>2
<1>4. pc \in Places \ {"idle"} /\ Fits(req[c].op, pc)
  BY <1>1 DEF Places, Fits, ListPcs, RowPcs
<1>5. pc \in RowPcs => req[c].todo # <<>>
  BY <1>1, <1>3 DEF TypeInv, Place, RowPcs
<1> QED
  BY <1>1, <1>3, <1>4, <1>5, ToTyped, ToPlace

\* A new latest condition marks the lists it overtakes, nothing else of them.
LEMMA OvertakenFacts ==
    ASSUME TypeInv, NEW i, NEW t, NEW d \in Clients
    PROVE  /\ Overtaken(i, t)[d] \in Handlers
           /\ \A f \in Fields \ {"over"} : Overtaken(i, t)[d][f] = req[d][f]
<1>1. req[d] \in Handlers
  BY DEF TypeInv
<1>2. PICK b \in BOOLEAN : Overtaken(i, t)[d] = [req[d] EXCEPT !.over = b]
  <2>1. req[d].over \in BOOLEAN
    BY <1>1 DEF Handlers
  <2> QED
    BY <1>1, <2>1 DEF Overtaken
<1> QED
  BY <1>1, <1>2 DEF Handlers, Fields

LEMMA TypedFill ==
    ASSUME TypeInv, NEW c \in Clients, FillLatest(c)
    PROVE  req' \in [Clients -> Handlers] /\ \A d \in Clients : Place(d)'
<1> DEFINE row == Head(req[c].todo)
<1>0. /\ req[c] \in Handlers /\ Place(c) /\ UNCHANGED <<account, rows>>
      /\ req[c].op = "list" /\ req[c].pc = "latest" /\ req[c].todo # <<>>
  BY DEF TypeInv, FillLatest, Serving, Place, RowPcs
<1>1. CASE Step(c, To("again"))
  <2>1. Fits(req[c].op, "again") /\ "again" \in Places \ {"idle"}
    BY <1>0 DEF Fits, ListPcs, RowPcs, Places
  <2>2. req' \in [Clients -> Handlers] /\ Place(c)' /\ Moved(c)
    BY <1>0, <1>1, <2>1, ToTyped, ToPlace, ToFacts DEF TypeInv
  <2>3. \A d \in Clients \ {c} : Place(d)'
    BY <1>0, <2>2, PlaceFrame, KeptFrame DEF Moved, Same
  <2> QED
    BY <2>2, <2>3
<1>2. CASE req' = [Overtaken(row.isu, row.at) EXCEPT ![c].pc = "drop"]
  <2> DEFINE over == Overtaken(row.isu, row.at)
  <2>1. \A d \in Clients : over[d] \in Handlers /\
            \A f \in Fields \ {"over"} : over[d][f] = req[d][f]
    BY OvertakenFacts
  <2>2. DOMAIN over = Clients
    BY DEF Overtaken
  <2> HIDE DEF over
  <2>3. /\ DOMAIN req' = Clients /\ req' = [d \in Clients |-> req'[d]]
        /\ \A d \in Clients \ {c} : req'[d] = over[d]
        /\ req'[c] = [over[c] EXCEPT !.pc = "drop"]
    BY <1>2, <2>2 DEF over
  <2>4. req'[c] \in Handlers /\ req'[c].pc = "drop" /\ Same(c, Fields \ {"over", "pc"})
    <3>1. over[c] \in Handlers /\ \A f \in Fields \ {"over"} : over[c][f] = req[c][f]
      BY <2>1
    <3>2. req'[c] \in Handlers /\ req'[c].pc = "drop"
      BY <2>3, <3>1 DEF Handlers, Places
    <3>3. \A f \in Fields \ {"pc"} : req'[c][f] = over[c][f]
      BY <2>3, <3>1 DEF Handlers, Fields
    <3> QED
      BY <3>1, <3>2, <3>3 DEF Same
  <2>5. Place(c)'
    <3>1. /\ req'[c].op = "list" /\ req'[c].todo = req[c].todo
      BY <1>0, <2>4 DEF Same, Fields
    <3> QED
      BY <1>0, <2>4, <3>1 DEF Place, Fits, ListPcs, RowPcs
  <2>6. \A d \in Clients \ {c} : Place(d)'
    BY <1>0, <2>1, <2>3, PlaceFrame, KeptFrame DEF Same
  <2>7. req' \in [Clients -> Handlers]
    BY <2>1, <2>3, <2>4
  <2> QED
    BY <2>5, <2>6, <2>7
<1> QED
  BY <1>1, <1>2 DEF FillLatest

LEMMA TypedDone ==
    ASSUME TypeInv, NEW c \in Clients, Done(c)
    PROVE  req' \in [Clients -> Handlers] /\ Place(c)'
<1>1. req'[c] = Idle /\ req' = [req EXCEPT ![c] = Idle]
  BY DEF Done, TypeInv
<1>2. /\ Idle \in Handlers /\ Idle.op = "none" /\ Idle.pc = "idle" /\ Idle.due = {}
      /\ Idle.todo = <<>> /\ Idle.items = <<>>
  BY DEF Idle, Handlers, Places
<1>3. Fits("none", "idle")
  BY DEF Fits
<1> QED
  BY <1>1, <1>2, <1>3 DEF Place, TypeInv

LEMMA HandleTyped ==
    ASSUME TypeInv, NEW c \in Clients, Handle(c)
    PROVE  req' \in [Clients -> Handlers] /\ \A d \in Clients : Place(d)'
<1>1. CASE FillLatest(c)
  BY <1>1, TypedFill
<1>2. CASE ~FillLatest(c)
  <2>1. req' \in [Clients -> Handlers] /\ Place(c)'
    BY <1>2, TypedOne, TypedList, TypedTo, TypedDone DEF Handle
  <2>2. UNCHANGED <<account, rows>>
    BY <1>2 DEF Handle, SelectRow, SetOwner, SetRecord, SetIcon, StartFill, Prepend,
       ReadOrder, ReadRecord, SelectList, LookLatest, FillDrop, ReadBack,
       BuildItem, SetOrder, SetJSON, Done
  <2>3. \A d \in Clients \ {c} : req'[d] = req[d]
    BY <1>2 DEF Handle, SelectRow, SetOwner, SetRecord, SetIcon, StartFill, Prepend,
       ReadOrder, ReadRecord, SelectList, LookLatest, FillDrop, ReadBack,
       BuildItem, SetOrder, SetJSON, Done, Step, TypeInv
  <2> QED
    BY <2>1, <2>2, <2>3, PlaceFrame, KeptFrame DEF Same
<1> QED
  BY <1>1, <1>2

\* The caches while handlers are served.
LEMMA HandleCaches ==
    ASSUME TypeInv, NEW c \in Clients, Handle(c) PROVE CacheTypes'
<1>0. /\ CacheTypes /\ req[c] \in Handlers /\ Place(c) /\ Me(c) \in Users
      /\ \A i \in Isus : Id(i) \in Nat
  BY RowsFacts DEF TypeInv, CacheTypes, Me
<1>1. UNCHANGED <<account, rows, writer, forgotten>> /\ Registered' = Registered
  BY DEF Handle, SelectRow, SetOwner, SetRecord, SetIcon, StartFill, Prepend,
     ReadOrder, ReadRecord, SelectList, LookLatest, FillLatest, FillDrop, ReadBack,
     BuildItem, SetOrder, SetJSON, Done, history, Registered
<1>2. owner' \in [Isus -> Users \cup {Nobody}]
  <2>1. owner' = owner \/ owner' = [owner EXCEPT ![Subject(c)] = Me(c)]
    BY DEF Handle, SelectRow, SetOwner, SetRecord, SetIcon, StartFill, Prepend,
       ReadOrder, ReadRecord, SelectList, LookLatest, FillLatest, FillDrop, ReadBack,
       BuildItem, SetOrder, SetJSON, Done, caches
  <2> QED
    BY <1>0, <2>1 DEF CacheTypes
<1>3. record' \in [Isus -> [user : Users \cup {Nobody}, id : Nat]]
  <2>1. CASE SetRecord(c)
    <3>1. req[c].op # "none" /\ Subject(c) \in Isus
      <4>1. req[c].op # "none" /\ req[c].pc \in RowPcs
        BY <1>0, <2>1 DEF SetRecord, Place, Fits, RowPcs
      <4> QED
        BY <4>1, SubjectFacts
    <3> QED
      BY <1>0, <2>1, <3>1 DEF SetRecord, CacheTypes, Partial
  <2>2. CASE ~SetRecord(c)
    <3>1. record' = record
      BY <2>2 DEF Handle, SelectRow, SetOwner, SetIcon, StartFill, Prepend,
         ReadOrder, ReadRecord, SelectList, LookLatest, FillLatest, FillDrop, ReadBack,
         BuildItem, SetOrder, SetJSON, Done, caches
    <3> QED
      BY <1>0, <3>1 DEF CacheTypes
  <2> QED
    BY <2>1, <2>2
<1>4. icon' \in [Isus -> Users \cup {Nobody}]
  <2>1. icon' = icon \/ icon' = [icon EXCEPT ![req[c].isu] = Me(c)]
    BY DEF Handle, SelectRow, SetOwner, SetRecord, SetIcon, StartFill, Prepend,
       ReadOrder, ReadRecord, SelectList, LookLatest, FillLatest, FillDrop, ReadBack,
       BuildItem, SetOrder, SetJSON, Done, caches
  <2> QED
    BY <1>0, <2>1 DEF CacheTypes
<1>5. latest' \in [Isus -> Nat]
  <2>1. CASE FillLatest(c)
    <3>1. Head(req[c].todo) \in Items
      <4>1. req[c].op = "list" /\ req[c].pc \in RowPcs
        BY <2>1 DEF FillLatest, Serving, RowPcs
      <4> QED
        BY <4>1, SubjectFacts
    <3> QED
      BY <1>0, <2>1, <3>1 DEF FillLatest, SetLatest, CacheTypes, Items
  <2>2. CASE ~FillLatest(c)
    <3>1. latest' = latest
      BY <2>2 DEF Handle, SelectRow, SetOwner, SetRecord, SetIcon, StartFill, Prepend,
         ReadOrder, ReadRecord, SelectList, LookLatest, FillDrop, ReadBack,
         BuildItem, SetOrder, SetJSON, Done, caches
    <3> QED
      BY <1>0, <3>1 DEF CacheTypes
  <2> QED
    BY <2>1, <2>2
<1>6. /\ order' \in [Users -> SUBSET Seq(Isus)]
      /\ \A u \in Users : Cardinality(order'[u]) <= 1
  <2>1. CASE order' = order
    BY <1>0, <2>1 DEF CacheTypes
  <2>2. ASSUME NEW o \in Seq(Isus), order' = [order EXCEPT ![Me(c)] = {o}]
        PROVE  /\ order' \in [Users -> SUBSET Seq(Isus)]
               /\ \A u \in Users : Cardinality(order'[u]) <= 1
    <3>1. Cardinality({o}) = 1
      BY FS_Singleton
    <3> QED
      BY <1>0, <2>2, <3>1 DEF CacheTypes
  <2>3. CASE Prepend(c)
    <3> DEFINE old == IF order[Me(c)] = {} THEN <<>> ELSE CHOOSE o \in order[Me(c)] : TRUE
    <3>1. req[c].isu \in Isus
      BY <1>0, <2>3 DEF Prepend, Serving, Place
    <3>2. old \in Seq(Isus)
      BY <1>0 DEF CacheTypes
    <3> HIDE DEF old
    <3>3. <<req[c].isu>> \o old \in Seq(Isus)
      BY <3>1, <3>2, ConcatProperties
    <3>4. order' = [order EXCEPT ![Me(c)] = {<<req[c].isu>> \o old}]
      BY <2>3 DEF Prepend, old
    <3> QED
      BY <2>2, <3>3, <3>4
  <2>4. CASE SetOrder(c)
    <3>1. req[c].items \in Seq(Items)
      BY <1>0 DEF Handlers
    <3>2. /\ DOMAIN req[c].items = 1..Len(req[c].items) /\ Len(req[c].items) \in Nat
          /\ \A n \in 1..Len(req[c].items) : req[c].items[n] \in Items
      BY <3>1, LenProperties, ElementOfSeq
    <3>3. IsusOf(req[c].items) \in [1..Len(req[c].items) -> Isus]
      BY <3>2 DEF IsusOf, Items
    <3>4. IsusOf(req[c].items) \in Seq(Isus)
      BY <3>2, <3>3, IsSeq
    <3> QED
      BY <2>2, <2>4, <3>4 DEF SetOrder
  <2>5. order' = order \/ Prepend(c) \/ SetOrder(c)
    BY DEF Handle, SelectRow, SetOwner, SetRecord, SetIcon, StartFill,
       ReadOrder, ReadRecord, SelectList, LookLatest, FillLatest, FillDrop, ReadBack,
       BuildItem, SetJSON, Done, caches
  <2> QED
    BY <2>1, <2>3, <2>4, <2>5
<1>7. /\ listJSON' \in [Users -> SUBSET [items : Seq(Items), over : BOOLEAN]]
      /\ \A u \in Users : Cardinality(listJSON'[u]) <= 1
  <2>1. \/ listJSON' = listJSON
        \/ listJSON' = [listJSON EXCEPT ![Me(c)] = {}]
        \/ listJSON' = [listJSON EXCEPT ![Me(c)] =
               {[items |-> req[c].items, over |-> req[c].over]}]
    BY DEF Handle, SelectRow, SetOwner, SetRecord, SetIcon, StartFill, Prepend,
       ReadOrder, ReadRecord, SelectList, LookLatest, FillLatest, FillDrop, ReadBack,
       BuildItem, SetOrder, SetJSON, Done, caches
  <2>2. Cardinality({[items |-> req[c].items, over |-> req[c].over]}) = 1
        /\ Cardinality({}) = 0
    BY FS_Singleton, FS_EmptySet
  <2>3. [items |-> req[c].items, over |-> req[c].over] \in
            [items : Seq(Items), over : BOOLEAN]
    BY <1>0 DEF Handlers
  <2>4. ASSUME NEW S \in SUBSET [items : Seq(Items), over : BOOLEAN],
               Cardinality(S) <= 1, listJSON' = [listJSON EXCEPT ![Me(c)] = S]
        PROVE  /\ listJSON' \in [Users -> SUBSET [items : Seq(Items), over : BOOLEAN]]
               /\ \A u \in Users : Cardinality(listJSON'[u]) <= 1
    BY <1>0, <2>4 DEF CacheTypes
  <2>5. CASE listJSON' = listJSON
    BY <1>0, <2>5 DEF CacheTypes
  <2>6. CASE listJSON' = [listJSON EXCEPT ![Me(c)] = {}]
    <3>1. {} \in SUBSET [items : Seq(Items), over : BOOLEAN] /\ Cardinality({}) <= 1
      BY <2>2
    <3> QED
      BY ONLY <2>4, <2>6, <3>1
  <2>7. CASE listJSON' = [listJSON EXCEPT ![Me(c)] =
               {[items |-> req[c].items, over |-> req[c].over]}]
    <3> DEFINE body == [items |-> req[c].items, over |-> req[c].over]
    <3>1. {body} \in SUBSET [items : Seq(Items), over : BOOLEAN]
      BY <2>3
    <3>2. Cardinality({body}) <= 1
      BY <2>2
    <3>3. listJSON' = [listJSON EXCEPT ![Me(c)] = {body}]
      BY <2>7
    <3> HIDE DEF body
    <3> QED
      BY <2>4, <3>1, <3>2, <3>3
  <2> QED
    BY <2>1, <2>5, <2>6, <2>7
<1>8. fills' \subseteq [isu : Isus, user : Users]
  <2>1. CASE StartFill(c)
    BY <1>0, <2>1 DEF StartFill, Serving, Place, CacheTypes
  <2>2. CASE ~StartFill(c)
    <3>1. fills' = fills
      BY <2>2 DEF Handle, SelectRow, SetOwner, SetRecord, SetIcon, Prepend,
         ReadOrder, ReadRecord, SelectList, LookLatest, FillLatest, FillDrop, ReadBack,
         BuildItem, SetOrder, SetJSON, Done
    <3> QED
      BY <1>0, <3>1 DEF CacheTypes
  <2> QED
    BY <2>1, <2>2
<1>9. acked' \subseteq Registered /\ acked \subseteq acked'
  <2>1. CASE Prepend(c)
    <3>1. req[c].isu \in Registered
      BY <1>0, <2>1, RowsFacts DEF Prepend, Serving, Place
    <3> QED
      BY <1>0, <2>1, <3>1 DEF Prepend, CacheTypes
  <2>2. CASE ~Prepend(c)
    <3>1. acked' = acked
      BY <2>2 DEF Handle, SelectRow, SetOwner, SetRecord, SetIcon, StartFill,
         ReadOrder, ReadRecord, SelectList, LookLatest, FillLatest, FillDrop, ReadBack,
         BuildItem, SetOrder, SetJSON, Done, history
    <3> QED
      BY <1>0, <3>1 DEF CacheTypes
  <2> QED
    BY <2>1, <2>2
<1> QED
  BY <1>0, <1>1, <1>2, <1>3, <1>4, <1>5, <1>6, <1>7, <1>8, <1>9 DEF CacheTypes, Unique

\* What POST /initialize leaves behind is about the rows of the initial data.
LEMMA SeedFacts ==
    /\ Seed \in Seq([isu : Isus, user : Users]) /\ Unique(Seed)
    /\ \A i \in Isus : /\ SeedUser(i) \in Users \cup {Nobody}
                       /\ SeedUser(i) \in Users =>
                             [isu |-> i, user |-> SeedUser(i)] \in Range(Seed)
    /\ SeedLatest \in [Isus -> Nat]
    /\ SeedRecord \in [Isus -> [user : Users \cup {Nobody}, id : Nat]]
    /\ SeedOrder \in [Users -> SUBSET Seq(Isus)]
    /\ \A u \in Users : Cardinality(SeedOrder[u]) <= 1
    /\ \A u \in Users : \A o \in SeedOrder[u] : \A n \in DOMAIN o :
          [isu |-> o[n], user |-> u] \in Range(Seed)
<1>1. Seed \in Seq([isu : Isus, user : Users]) /\ Unique(Seed)
  BY CatalogAssumption DEF Unique
<1>2. \A r \in Range(Seed) : r \in [isu : Isus, user : Users]
  BY <1>1, RangeOfSeq
<1>3. ASSUME NEW i \in Isus
      PROVE  /\ SeedUser(i) \in Users \cup {Nobody}
             /\ SeedUser(i) \in Users =>
                   [isu |-> i, user |-> SeedUser(i)] \in Range(Seed)
  <2>1. CASE i \in SeedIsus
    <3>1. PICK r \in Range(Seed) : r.isu = i /\ SeedUser(i) = r.user
      BY <2>1 DEF SeedIsus, SeedUser
    <3>2. r = [isu |-> i, user |-> SeedUser(i)]
      BY <1>2, <3>1
    <3> QED
      BY <1>2, <3>1, <3>2
  <2>2. CASE i \notin SeedIsus
    BY <2>2, CatalogAssumption DEF SeedUser, Nobody
  <2> QED
    BY <2>1, <2>2
<1>4. SeedLatest \in [Isus -> Nat]
  BY DEF SeedLatest, Never
<1>5. SeedRecord \in [Isus -> [user : Users \cup {Nobody}, id : Nat]]
  BY <1>1, <1>3, TableFacts DEF SeedRecord
<1>6. ASSUME NEW u \in Users
      PROVE  /\ SeedOrder[u] \subseteq Seq(Isus) /\ Cardinality(SeedOrder[u]) <= 1
             /\ \A o \in SeedOrder[u] : \A n \in DOMAIN o :
                   [isu |-> o[n], user |-> u] \in Range(Seed)
  <2> DEFINE ids == Descending(Ids(Seed, u))
             k == Cardinality(Ids(Seed, u))
             own == [n \in DOMAIN ids |-> Seed[ids[n]].isu]
  <2>1. /\ DOMAIN ids = 1..k /\ k \in Nat
        /\ \A n \in 1..k : /\ Seed[ids[n]].user = u /\ Seed[ids[n]].isu \in Isus
                           /\ Seed[ids[n]] \in Range(Seed)
    BY <1>1, IdsFacts
  <2>2. SeedOrder[u] = IF ids = <<>> THEN {} ELSE {own}
    BY DEF SeedOrder
  <2> HIDE DEF ids, k
  <2>3. own \in [1..k -> Isus]
    BY <2>1
  <2>4. ASSUME NEW n \in 1..k PROVE [isu |-> own[n], user |-> u] \in Range(Seed)
    <3>1. Seed[ids[n]] = [isu |-> own[n], user |-> u]
      BY <1>2, <2>1
    <3> QED
      BY <2>1, <3>1
  <2> HIDE DEF own
  <2>5. own \in Seq(Isus) /\ DOMAIN own = 1..k
    BY <2>1, <2>3, IsSeq
  <2>6. Cardinality({}) <= 1 /\ Cardinality({own}) <= 1
    BY FS_Singleton, FS_EmptySet
  <2> QED
    BY <2>2, <2>4, <2>5, <2>6
<1>7. SeedOrder \in [Users -> SUBSET Seq(Isus)]
  <2>1. SeedOrder = [u \in Users |-> SeedOrder[u]]
    BY DEF SeedOrder
  <2> QED
    BY <1>6, <2>1
<1> QED
  BY <1>1, <1>3, <1>4, <1>5, <1>6, <1>7

\* The INSERT adds one row at the end; all others keep their ids.
LEMMA InsertFacts ==
    ASSUME CacheTypes, NEW u \in Users, NEW i \in Isus, i \notin Registered,
           rows' = Append(rows, [isu |-> i, user |-> u])
    PROVE  /\ rows' \in Seq([isu : Isus, user : Users]) /\ Unique(rows)'
           /\ Range(rows)' = Range(rows) \cup {[isu |-> i, user |-> u]}
           /\ \A j \in Registered : Id(j)' = Id(j)
<1> DEFINE new == [isu |-> i, user |-> u]
           k == Len(rows)
<1>1. rows \in Seq([isu : Isus, user : Users]) /\ new \in [isu : Isus, user : Users]
  BY DEF CacheTypes
<1>2. /\ k \in Nat /\ DOMAIN rows = 1..k
      /\ DOMAIN rows' = 1..(k + 1) /\ rows' \in Seq([isu : Isus, user : Users])
      /\ \A n \in 1..k : rows'[n] = rows[n]
      /\ rows'[k + 1] = new
  BY <1>1, AppendProperties, LenProperties
<1>3. \A n \in 1..k : rows[n].isu # i
  BY <1>2 DEF Registered, Range
<1>4. Range(rows)' = Range(rows) \cup {new}
  <2>1. \A x : x \in Range(rows') <=> \E n \in 1..(k + 1) : x = rows'[n]
    BY <1>2 DEF Range
  <2>2. \A x : x \in Range(rows) <=> \E n \in 1..k : x = rows[n]
    BY <1>2 DEF Range
  <2>3. \A n \in 1..(k + 1) : n \in 1..k \/ n = k + 1
    BY <1>2
  <2>4. \A n \in 1..k : n \in 1..(k + 1)
    BY <1>2
  <2>5. k + 1 \in 1..(k + 1)
    BY <1>2
  <2>6. \A x : x \in Range(rows') <=> x \in Range(rows) \/ x = new
    BY <1>2, <2>1, <2>2, <2>3, <2>4, <2>5
  <2> QED
    BY <2>6
<1>5. Unique(rows')
  <2> SUFFICES ASSUME NEW m \in 1..(k + 1), NEW n \in 1..(k + 1),
                      rows'[m].isu = rows'[n].isu
               PROVE  m = n
    BY <1>2 DEF Unique
  <2>1. CASE m \in 1..k /\ n \in 1..k
    BY <1>2, <2>1 DEF CacheTypes, Unique
  <2>2. CASE m = k + 1 /\ n = k + 1
    BY <2>2
  <2>3. CASE m = k + 1 /\ n \in 1..k
    BY <1>2, <1>3, <2>3
  <2>4. CASE n = k + 1 /\ m \in 1..k
    BY <1>2, <1>3, <2>4
  <2>5. \A l \in 1..(k + 1) : l \in 1..k \/ l = k + 1
    BY <1>2
  <2> QED
    BY <2>1, <2>2, <2>3, <2>4, <2>5
<1>6. ASSUME NEW j \in Registered PROVE Id(j)' = Id(j)
  <2>1. PICK n \in 1..k : rows[n].isu = j
    BY <1>2 DEF Registered, Range
  <2>2. IdIn(rows, j) = n
    BY <1>1, <1>2, <2>1, TableFacts DEF CacheTypes
  <2>3. n \in DOMAIN rows' /\ rows'[n].isu = j
    BY <1>2, <2>1
  <2>4. IdIn(rows', j) = n
    BY <1>2, <1>5, <2>3, TableFacts
  <2> QED
    BY <2>2, <2>4 DEF Id
<1> QED
  BY <1>2, <1>4, <1>5, <1>6 DEF Unique

LEMMA TypeInvInit == Init => TypeInv
<1> SUFFICES ASSUME Init PROVE TypeInv
  OBVIOUS
<1>1. CacheTypes
  <2>1. account \in [Clients -> Users]
    BY CatalogAssumption DEF Init
  <2>2. \A u \in Users : Cardinality(listJSON[u]) <= 1
    BY FS_EmptySet DEF Init
  <2>3. acked \subseteq Registered /\ forgotten \subseteq acked
    BY DEF Init, SeedIsus, Registered
  <2> QED
    BY <2>1, <2>2, <2>3, SeedFacts DEF Init, CacheTypes, AtRest
<1>2. /\ Idle \in Handlers /\ Idle.op = "none" /\ Idle.pc = "idle" /\ Idle.due = {}
      /\ Idle.todo = <<>> /\ Idle.items = <<>>
  BY DEF Idle, Handlers, Places
<1>3. Fits("none", "idle")
  BY DEF Fits
<1> QED
  BY <1>1, <1>2, <1>3 DEF Init, TypeInv, Place

\* A request that arrives is answered at once or taken to its first place.
Begins(c, op, i, pc, items) ==
    \/ pc = "done" /\ Arrive(c, op, i, Reply(items))
    \/ items = <<>> /\ Arrive(c, op, i, To(pc))

LEMMA BeginsFacts ==
    ASSUME req \in [Clients -> Handlers], NEW c \in Clients, NEW op, NEW i,
           NEW pc, NEW items, Begins(c, op, i, pc, items)
    PROVE  /\ req[c].pc = "idle" /\ req'[c].pc = pc /\ req'[c].items = items
           /\ req'[c].op = op /\ req'[c].isu = i /\ req'[c].todo = <<>>
           /\ req'[c].over = FALSE
           /\ req'[c].due = {j \in acked : Owns(Me(c), j)}
           /\ Moved(c) /\ account' = account
<1>1. CASE pc = "done" /\ Arrive(c, op, i, Reply(items))
  <2>1. /\ DOMAIN Reply(items) = {"pc", "items"} /\ Reply(items).pc = "done"
        /\ Reply(items).items = items
    BY DEF Reply
  <2>2. "pc" \in DOMAIN Reply(items) /\ "items" \in DOMAIN Reply(items)
    BY <2>1
  <2>3. DOMAIN Reply(items) \subseteq {"pc", "items"}
    BY <2>1
  <2>4. account' = account
    BY <1>1 DEF Arrive
  <2> QED
    BY <1>1, <2>1, <2>2, <2>3, <2>4, ArriveFacts
<1>2. CASE items = <<>> /\ Arrive(c, op, i, To(pc))
  <2>1. DOMAIN To(pc) = {"pc"} /\ To(pc).pc = pc
    BY DEF To
  <2>2. "pc" \in DOMAIN To(pc) /\ "items" \notin DOMAIN To(pc)
    BY <2>1
  <2>3. DOMAIN To(pc) \subseteq {"pc", "items"}
    BY <2>1
  <2>4. account' = account
    BY <1>2 DEF Arrive
  <2> DEFINE changes == To(pc)
  <2>5. /\ Arrive(c, op, i, changes) /\ changes.pc = pc
        /\ "pc" \in DOMAIN changes /\ "items" \notin DOMAIN changes
        /\ DOMAIN changes \subseteq {"pc", "items"}
    BY <1>2, <2>1, <2>2, <2>3
  <2> HIDE DEF changes
  <2>6. /\ req[c].pc = "idle"
        /\ req'[c].pc = IF "pc" \in DOMAIN changes THEN changes.pc ELSE "idle"
        /\ req'[c].items = IF "items" \in DOMAIN changes THEN changes.items ELSE <<>>
        /\ req'[c].op = op /\ req'[c].isu = i /\ req'[c].todo = <<>>
        /\ req'[c].over = FALSE
        /\ req'[c].due = {j \in acked : Owns(Me(c), j)}
        /\ Moved(c)
    BY <2>5, ArriveFacts
  <2> QED
    BY <1>2, <2>4, <2>5, <2>6
<1> QED
  BY <1>1, <1>2 DEF Begins

LEMMA TypeInvArrive ==
    ASSUME TypeInv, NEW c \in Clients, NEW op \in Ops, NEW i \in Isus \cup {NoIsu},
           NEW pc \in Places \ {"idle"}, NEW items \in Seq(Items),
           Begins(c, op, i, pc, items), Fits(op, pc),
           op = "list" => pc \notin RowPcs, op # "list" => i \in Isus,
           Kept, op = "register" => Owns(Me(c), i)', CacheTypes'
    PROVE  TypeInv'
<1>1. /\ req'[c].pc = pc /\ req'[c].op = op /\ req'[c].isu = i
      /\ req'[c].todo = <<>> /\ req'[c].over = FALSE /\ req'[c].items = items
      /\ req'[c].due = {j \in acked : Owns(Me(c), j)} /\ Moved(c)
      /\ account' = account
  BY BeginsFacts DEF TypeInv
<1>2. {j \in acked : Owns(Me(c), j)} \in SUBSET Isus
  <2>1. rows \in Seq([isu : Isus, user : Users])
    BY DEF TypeInv, CacheTypes
  <2>2. ASSUME NEW r \in Range(rows) PROVE r.isu \in Isus
    <3>1. r \in [isu : Isus, user : Users]
      BY <2>1, RangeOfSeq
    <3> QED
      BY <3>1
  <2>3. Registered \subseteq Isus /\ acked \subseteq Registered
    BY SMTT(30), <2>2 DEF TypeInv, CacheTypes, Registered
  <2> QED
    BY <2>3
<1>3. <<>> \in Seq(Items)
  OBVIOUS
<1>4. req' \in [Clients -> Handlers]
  BY <1>1, <1>2, <1>3, MovedFacts
<1>5. Place(c)'
  <2>1. op # "none" /\ pc # "idle"
    BY DEF Ops
  <2>2. Fits(req'[c].op, req'[c].pc)
    BY <1>1
  <2>3. Owns(Me(c), req[c].isu)' <=> Owns(Me(c), i)'
    BY <1>1
  <2> QED
    BY <1>1, <2>1, <2>2, <2>3 DEF Place
<1> QED
  BY <1>1, <1>4, <1>5, TypeInvFrame DEF Moved

LEMMA TypeInvRequest ==
    ASSUME TypeInv, NEW c \in Clients,
           \/ GetList(c)
           \/ \E i \in Isus : Insert(c, i) \/ \E op \in Ops : GetIsu(c, op, i)
    PROVE  TypeInv'
<1>0. CacheTypes /\ Me(c) \in Users /\ \A i \in Isus : Id(i) \in Nat
  BY RowsFacts DEF TypeInv, CacheTypes, Me
<1>1. <<>> \in Seq(Items)
  OBVIOUS
<1>2. ASSUME NEW op, NEW i, NEW changes, Arrive(c, op, i, changes),
             UNCHANGED <<rows, caches>>
      PROVE  CacheTypes' /\ Kept
  BY <1>0, <1>2, KeptFrame DEF Arrive, CacheTypes, Unique, caches, Registered
<1>3. CASE GetList(c)
  <2>1. CASE \E body \in listJSON[Me(c)] : Arrive(c, "list", NoIsu, Reply(body.items))
    <3>1. PICK body \in listJSON[Me(c)] : Arrive(c, "list", NoIsu, Reply(body.items))
      BY <2>1
    <3>2. body.items \in Seq(Items)
      BY <1>0 DEF CacheTypes
    <3>3. CacheTypes' /\ Kept
      BY <1>2, <1>3, <3>1 DEF GetList
    <3>4. /\ "done" \in Places \ {"idle"} /\ "done" \notin RowPcs
          /\ Fits("list", "done") /\ "list" \in Ops
      BY DEF Places, RowPcs, Fits, ListPcs, Ops
    <3>5. Begins(c, "list", NoIsu, "done", body.items)
      BY <3>1 DEF Begins
    <3>6. NoIsu \in Isus \cup {NoIsu}
      OBVIOUS
    <3> QED
      BY <3>2, <3>3, <3>4, <3>5, <3>6, TypeInvArrive
  <2>2. CASE Arrive(c, "list", NoIsu, To("order"))
    <3>1. CacheTypes' /\ Kept
      BY <1>2, <1>3, <2>2 DEF GetList
    <3>2. /\ "order" \in Places \ {"idle"} /\ "order" \notin RowPcs
          /\ Fits("list", "order") /\ "list" \in Ops
      BY DEF Places, RowPcs, Fits, ListPcs, Ops
    <3>3. Begins(c, "list", NoIsu, "order", <<>>)
      BY <2>2 DEF Begins
    <3>4. NoIsu \in Isus \cup {NoIsu}
      OBVIOUS
    <3> QED
      BY <1>1, <3>1, <3>2, <3>3, <3>4, TypeInvArrive
  <2> QED
    BY <1>3, <2>1, <2>2 DEF GetList
<1>4. ASSUME NEW i \in Isus, Insert(c, i) PROVE TypeInv'
  <2>1. /\ i \notin Registered /\ rows' = Append(rows, [isu |-> i, user |-> Me(c)])
        /\ Arrive(c, "register", i, To("owner")) /\ UNCHANGED caches
    BY <1>4 DEF Insert
  <2>2. /\ rows' \in Seq([isu : Isus, user : Users]) /\ Unique(rows)'
        /\ Range(rows)' = Range(rows) \cup {[isu |-> i, user |-> Me(c)]}
    BY <1>0, <2>1, InsertFacts
  <2>3. Kept /\ Registered \subseteq Registered' /\ Owns(Me(c), i)'
    <3>1. Me(c)' = Me(c)
      BY <2>1 DEF Arrive, Me
    <3> QED
      BY <2>2, <3>1 DEF Kept, Owns, Registered
  <2>4. CacheTypes'
    BY <1>0, <2>1, <2>2, <2>3 DEF CacheTypes, Arrive, caches
  <2>5. "owner" \in Places \ {"idle"} /\ Fits("register", "owner") /\ "register" \in Ops
    BY DEF Places, Fits, Ops
  <2>6. Begins(c, "register", i, "owner", <<>>)
    BY <2>1 DEF Begins
  <2>7. i \in Isus \cup {NoIsu} /\ "register" # "list"
    OBVIOUS
  <2> QED
    BY <1>1, <2>3, <2>4, <2>5, <2>6, <2>7, TypeInvArrive
<1>5. ASSUME NEW i \in Isus, NEW op \in Ops, GetIsu(c, op, i) PROVE TypeInv'
  <2>1. op \in {"detail", "icon", "conditions"} /\ UNCHANGED <<rows, caches>>
    BY <1>5 DEF GetIsu
  <2>2. CASE Arrive(c, op, i, Reply(<<Plain(i, record[i].id)>>))
    <3>1. <<Plain(i, record[i].id)>> \in Seq(Items)
      BY <1>0, PlainFacts DEF CacheTypes
    <3>2. CacheTypes' /\ Kept
      BY <1>2, <2>1, <2>2
    <3>3. "done" \in Places \ {"idle"} /\ Fits(op, "done")
      BY <2>1 DEF Places, Fits
    <3>4. Begins(c, op, i, "done", <<Plain(i, record[i].id)>>)
      BY <2>2 DEF Begins
    <3>5. i \in Isus \cup {NoIsu} /\ op # "list" /\ op # "register"
      BY <2>1
    <3> QED
      BY <3>1, <3>2, <3>3, <3>4, <3>5, TypeInvArrive
  <2>3. CASE Arrive(c, op, i, To("select"))
    <3>1. CacheTypes' /\ Kept
      BY <1>2, <2>1, <2>3
    <3>2. "select" \in Places \ {"idle"} /\ Fits(op, "select")
      BY <2>1 DEF Places, Fits
    <3>3. Begins(c, op, i, "select", <<>>)
      BY <2>3 DEF Begins
    <3>4. i \in Isus \cup {NoIsu} /\ op # "list" /\ op # "register"
      BY <2>1
    <3> QED
      BY <1>1, <3>1, <3>2, <3>3, <3>4, TypeInvArrive
  <2> QED
    BY <1>5, <2>2, <2>3 DEF GetIsu
<1> QED
  BY <1>3, <1>4, <1>5

\* What the memory writer and the goroutines of the icons do.
LEMMA TypeInvWriter ==
    ASSUME TypeInv,
           \/ \E f \in fills : FillIcon(f)
           \/ \E x \in Conditions : WriteLatest(x.isu, x.at)
           \/ LookUpOwner \/ DropJSON
    PROVE  TypeInv'
<1>0. CacheTypes /\ req \in [Clients -> Handlers]
  BY DEF TypeInv
<1>1. UNCHANGED <<account, rows>>
  BY DEF FillIcon, WriteLatest, LookUpOwner, DropJSON
<1>2. Kept /\ Registered' = Registered
  BY <1>1, KeptFrame DEF Registered
<1>3. ASSUME CacheTypes', req' = req PROVE TypeInv'
  BY <1>0, <1>1, <1>2, <1>3, PlaceFrame DEF TypeInv, Same
<1>4. ASSUME NEW f \in fills, FillIcon(f) PROVE TypeInv'
  <2>1. f.isu \in Isus /\ f.user \in Users
    BY <1>0 DEF CacheTypes
  <2>2. /\ icon' = [icon EXCEPT ![f.isu] = f.user] /\ fills' = fills \ {f}
        /\ UNCHANGED <<owner, record, latest, order, listJSON, writer, acked,
                       forgotten, req>>
    BY <1>4 DEF FillIcon, history
  <2>3. /\ icon' \in [Isus -> Users \cup {Nobody}]
        /\ fills' \subseteq [isu : Isus, user : Users]
    BY <1>0, <2>1, <2>2 DEF CacheTypes
  <2>4. CacheTypes'
    BY <1>0, <1>1, <1>2, <2>2, <2>3 DEF CacheTypes, Unique
  <2> QED
    BY <1>3, <2>2, <2>4
<1>5. ASSUME NEW x \in Conditions, WriteLatest(x.isu, x.at) PROVE TypeInv'
  <2>1. x.isu \in Isus /\ x.at \in Nat
    BY CatalogAssumption
  <2>2. /\ latest' = [latest EXCEPT ![x.isu] = x.at]
        /\ writer' = [pc |-> "owner", isu |-> x.isu, user |-> Nobody]
        /\ req' = Overtaken(x.isu, x.at)
        /\ UNCHANGED <<owner, record, icon, order, listJSON, fills, acked, forgotten>>
    BY <1>5 DEF WriteLatest, SetLatest, history
  <2>3. /\ latest' \in [Isus -> Nat]
        /\ writer' \in [pc : {"idle", "owner", "drop"}, isu : Isus \cup {NoIsu},
                        user : Users \cup {Nobody}]
        /\ writer'.pc = "owner" /\ writer'.isu \in Isus
    BY <1>0, <2>1, <2>2 DEF CacheTypes
  <2>4. CacheTypes'
    BY <1>0, <1>1, <1>2, <2>2, <2>3 DEF CacheTypes, Unique
  <2> DEFINE over == Overtaken(x.isu, x.at)
  <2>5. /\ DOMAIN over = Clients /\ over = [c \in Clients |-> over[c]]
        /\ \A d \in Clients : over[d] \in Handlers /\
              \A f \in Fields \ {"over"} : over[d][f] = req[d][f]
    <3>1. \A d \in Clients : over[d] \in Handlers /\
              \A f \in Fields \ {"over"} : over[d][f] = req[d][f]
      BY OvertakenFacts
    <3>2. DOMAIN over = Clients /\ over = [c \in Clients |-> over[c]]
      BY DEF Overtaken
    <3> HIDE DEF over
    <3> QED
      BY <3>1, <3>2
  <2> HIDE DEF over
  <2>6. req' \in [Clients -> Handlers]
    BY <2>2, <2>5 DEF over
  <2>7. \A d \in Clients : Place(d)'
    BY <1>1, <1>2, <2>2, <2>5, PlaceFrame DEF over, Same
  <2> QED
    BY <2>4, <2>6, <2>7 DEF TypeInv
<1>6. CASE LookUpOwner
  <2>1. /\ writer.pc = "owner"
        /\ UNCHANGED <<owner, record, icon, latest, order, listJSON, fills, acked,
                       forgotten, req>>
        /\ writer' = IF owner[writer.isu] = Nobody THEN AtRest
                     ELSE [writer EXCEPT !.pc = "drop", !.user = owner[writer.isu]]
    BY <1>6 DEF LookUpOwner, history, caches
  <2>2. writer.isu \in Isus /\ owner[writer.isu] \in Users \cup {Nobody}
    BY <1>0, <2>1 DEF CacheTypes
  <2>3. /\ writer' \in [pc : {"idle", "owner", "drop"}, isu : Isus \cup {NoIsu},
                        user : Users \cup {Nobody}]
        /\ writer'.pc # "idle" => writer'.isu \in Isus
        /\ writer'.pc = "drop" => writer'.user \in Users
    BY <1>0, <2>1, <2>2 DEF CacheTypes, AtRest
  <2>4. CacheTypes'
    BY <1>0, <1>1, <1>2, <2>1, <2>3 DEF CacheTypes, Unique
  <2> QED
    BY <1>3, <2>1, <2>4
<1>7. CASE DropJSON
  <2>1. /\ writer.pc = "drop" /\ writer' = AtRest
        /\ UNCHANGED <<owner, record, icon, latest, order, fills, acked, forgotten, req>>
        /\ listJSON' = [listJSON EXCEPT ![writer.user] = {}]
    BY <1>7 DEF DropJSON, history
  <2>2. writer' \in [pc : {"idle", "owner", "drop"}, isu : Isus \cup {NoIsu},
                     user : Users \cup {Nobody}] /\ writer'.pc = "idle"
    BY <2>1 DEF AtRest
  <2>3. /\ listJSON' \in [Users -> SUBSET [items : Seq(Items), over : BOOLEAN]]
        /\ \A u \in Users : Cardinality(listJSON'[u]) <= 1
    <3>1. Cardinality({}) <= 1
      BY FS_EmptySet
    <3> QED
      BY <1>0, <2>1, <3>1 DEF CacheTypes
  <2>4. CacheTypes'
    BY <1>0, <1>1, <1>2, <2>1, <2>2, <2>3 DEF CacheTypes, Unique
  <2> QED
    BY <1>3, <2>1, <2>4
<1> QED
  BY <1>4, <1>5, <1>6, <1>7

LEMMA IdleFacts ==
    /\ Idle \in Handlers /\ Idle.op = "none" /\ Idle.pc = "idle" /\ Idle.due = {}
    /\ Idle.todo = <<>> /\ Idle.items = <<>> /\ Fits("none", "idle")
BY DEF Idle, Handlers, Places, Fits

LEMMA TypeInvRestart == ASSUME TypeInv, Restart PROVE TypeInv'
<1>0. CacheTypes
  BY DEF TypeInv
<1>1. /\ UNCHANGED <<account, rows>> /\ NoCaches /\ fills' = {} /\ writer' = AtRest
      /\ req' = [c \in Clients |-> Idle]
      /\ forgotten' = forgotten \cup acked /\ acked' = acked
  BY DEF Restart
<1>2. Cardinality({}) <= 1
  BY FS_EmptySet
<1>3. AtRest \in [pc : {"idle", "owner", "drop"}, isu : Isus \cup {NoIsu},
                  user : Users \cup {Nobody}] /\ AtRest.pc = "idle"
  BY DEF AtRest
<1>4. NoRecord \in [user : Users \cup {Nobody}, id : Nat] /\ Never \in Nat
  BY DEF NoRecord, Never, Partial
<1>5. CacheTypes'
  BY <1>0, <1>1, <1>2, <1>3, <1>4 DEF CacheTypes, NoCaches, Unique, Registered
<1> QED
  BY <1>1, <1>5, IdleFacts DEF TypeInv, Place

LEMMA TypeInvInitialize == ASSUME TypeInv, Initialize PROVE TypeInv'
<1>0. CacheTypes
  BY DEF TypeInv
<1>1. /\ \A c \in Clients : req[c].pc = "idle"
      /\ UNCHANGED <<account, fills, writer, req>> /\ rows' = Seed
      /\ owner' = [i \in Isus |-> SeedUser(i)] /\ record' = SeedRecord
      /\ icon' = [i \in Isus |-> Nobody] /\ latest' = SeedLatest
      /\ order' = SeedOrder /\ listJSON' = [u \in Users |-> {}]
      /\ acked' = SeedIsus /\ forgotten' = {}
  BY DEF Initialize
<1>2. Cardinality({}) <= 1
  BY FS_EmptySet
<1>3. Registered' = SeedIsus
  BY <1>1 DEF Registered, SeedIsus
<1>4. CacheTypes'
  BY <1>0, <1>1, <1>2, <1>3, SeedFacts DEF CacheTypes, Unique
<1>5. ASSUME NEW c \in Clients PROVE Place(c)'
  <2>1. Place(c) /\ req[c] \in Handlers /\ req[c].pc = "idle" /\ req' = req
    BY <1>1 DEF TypeInv
  <2>2. req[c].op = "none"
    BY <2>1 DEF Place, Fits
  <2> QED
    BY <2>1, <2>2 DEF Place
<1> QED
  BY <1>1, <1>4, <1>5 DEF TypeInv

LEMMA TypeInvNext == TypeInv /\ [Next]_vars => TypeInv'
<1> SUFFICES ASSUME TypeInv, [Next]_vars PROVE TypeInv'
  OBVIOUS
<1>1. ASSUME NEW c \in Clients, Handle(c) PROVE TypeInv'
  BY <1>1, HandleTyped, HandleCaches DEF TypeInv
<1>2. ASSUME NEW c \in Clients,
             \/ GetList(c)
             \/ \E i \in Isus : Insert(c, i) \/ \E op \in Ops : GetIsu(c, op, i)
      PROVE  TypeInv'
  BY <1>2, TypeInvRequest
<1>3. CASE UNCHANGED vars
  BY <1>3 DEF vars, caches, history, TypeInv, CacheTypes, Place, Unique, Registered,
     Owns, Me
<1> QED
  BY <1>1, <1>2, <1>3, TypeInvWriter, TypeInvRestart, TypeInvInitialize DEF Next

LEMMA TypeInvariant == Spec => []TypeInv
<1> QED
  BY TypeInvInit, TypeInvNext, PTL DEF Spec

\* Rows, caches and handlers keep their types whatever is served at the same
\* time: a user has at most one order and one JSON, and an ISU whose
\* registration was answered has its row until POST /initialize.
THEOREM CatalogTypeCorrect == Spec => []TypeOK
<1> QED
  BY TypeInvariant, TypeInvIsTypeOK, PTL

----------------------------------------------------------------------------
(* Whose rows the caches and the handlers hold.                            *)

AllOwned(u, items) == \A n \in DOMAIN items : Owns(u, items[n].isu)

OwnRecord == \A i \in Isus : record[i].user \in Users =>
                 Owns(record[i].user, i) /\ record[i].id \in {Partial, Id(i)}
OwnIcon == \A i \in Isus : icon[i] \in Users => Owns(icon[i], i)
OwnOrder == \A u \in Users : \A o \in order[u] : \A n \in DOMAIN o : Owns(u, o[n])
OwnJSON == \A u \in Users : \A body \in listJSON[u] : AllOwned(u, body.items)
OwnFills == \A f \in fills : Owns(f.user, f.isu)

\* A handler of one ISU that is past its SELECT serves the owner, and what was
\* due when the request came is the user's.
OwnHandler(c) ==
    /\ req[c].op # "list" /\ req[c].pc \in {"owner", "record", "icon", "prepend"} =>
           Owns(Me(c), req[c].isu)
    /\ AllOwned(Me(c), req[c].todo) /\ AllOwned(Me(c), req[c].items)
    /\ \A j \in req[c].due : Owns(Me(c), j)
    /\ Answered(c, "detail") /\ req[c].isu \in req[c].due =>
           req[c].items = <<Plain(req[c].isu, Id(req[c].isu))>>

OwnInv ==
    /\ TypeInv
    /\ OwnRecord /\ OwnIcon /\ OwnOrder /\ OwnJSON /\ OwnFills
    /\ \A c \in Clients : OwnHandler(c)

\* What is registered stays so, under its id, until POST /initialize.
Stays == \A u \in Users : \A i \in Isus :
             Owns(u, i) => Owns(u, i)' /\ Id(i)' = Id(i)

LEMMA StaysFrame == ASSUME rows' = rows PROVE Stays
BY DEF Stays, Owns, Id

LEMMA ItemFacts ==
    ASSUME NEW s \in Seq(Items), NEW n \in DOMAIN s
    PROVE  s[n] \in Items /\ s[n].isu \in Isus
<1>1. s[n] \in Items
  BY ElementOfSeq
<1> QED
  BY <1>1 DEF Items

LEMMA AllOwnedKept ==
    ASSUME Stays, NEW u \in Users, NEW s \in Seq(Items), AllOwned(u, s)
    PROVE  AllOwned(u, s)'
BY ItemFacts DEF AllOwned, Stays

LEMMA AllOwnedOne ==
    ASSUME NEW u, NEW i, NEW id, Owns(u, i) PROVE AllOwned(u, <<Plain(i, id)>>)
BY DEF AllOwned, Plain

LEMMA AllOwnedTail ==
    ASSUME NEW u, NEW s \in Seq(Items), s # <<>>, AllOwned(u, s)
    PROVE  Owns(u, Head(s).isu) /\ AllOwned(u, Tail(s))
<1>1. /\ Head(s) = s[1] /\ Tail(s) \in Seq(Items) /\ Len(Tail(s)) = Len(s) - 1
      /\ \A n \in 1..Len(Tail(s)) : Tail(s)[n] = s[n + 1]
  BY HeadTailProperties
<1>2. Len(s) \in Nat /\ Len(s) # 0 /\ DOMAIN s = 1..Len(s)
  BY LenProperties, EmptySeq
<1>3. DOMAIN Tail(s) = 1..Len(Tail(s)) /\ Len(Tail(s)) \in Nat
  BY <1>1, LenProperties
<1>4. 1 \in DOMAIN s /\ \A n \in DOMAIN Tail(s) : n + 1 \in DOMAIN s
  BY <1>1, <1>2, <1>3
<1> QED
  BY <1>1, <1>3, <1>4 DEF AllOwned

LEMMA AllOwnedCons ==
    ASSUME NEW u, NEW x \in Items, NEW s \in Seq(Items), Owns(u, x.isu), AllOwned(u, s)
    PROVE  AllOwned(u, <<x>> \o s)
<1>1. /\ <<x>> \in Seq(Items) /\ Len(<<x>>) = 1 /\ <<x>>[1] = x
  OBVIOUS
<1>2. Len(s) \in Nat /\ DOMAIN s = 1..Len(s)
  BY LenProperties
<1>3. /\ <<x>> \o s \in Seq(Items) /\ Len(<<x>> \o s) = 1 + Len(s)
      /\ \A n \in 1..(1 + Len(s)) :
            (<<x>> \o s)[n] = IF n <= 1 THEN <<x>>[n] ELSE s[n - 1]
  BY <1>1, ConcatProperties
<1>4. DOMAIN (<<x>> \o s) = 1..(1 + Len(s))
  BY <1>3, LenProperties
<1>5. ASSUME NEW n \in 1..(1 + Len(s)) PROVE Owns(u, (<<x>> \o s)[n].isu)
  <2>1. CASE n = 1
    BY <1>1, <1>3, <2>1
  <2>2. CASE n # 1
    <3>1. n - 1 \in DOMAIN s /\ ~(n <= 1)
      BY <1>2, <2>2
    <3> QED
      BY <1>3, <3>1 DEF AllOwned
  <2> QED
    BY <2>1, <2>2
<1> QED
  BY <1>4, <1>5 DEF AllOwned

LEMMA AllOwnedAppend ==
    ASSUME NEW u, NEW x \in Items, NEW s \in Seq(Items), Owns(u, x.isu), AllOwned(u, s)
    PROVE  AllOwned(u, Append(s, x))
<1>1. Len(s) \in Nat /\ DOMAIN s = 1..Len(s)
  BY LenProperties
<1>2. /\ DOMAIN Append(s, x) = 1..(Len(s) + 1) /\ Append(s, x)[Len(s) + 1] = x
      /\ \A n \in 1..Len(s) : Append(s, x)[n] = s[n]
  BY AppendProperties, LenProperties
<1>3. \A n \in 1..(Len(s) + 1) : n \in 1..Len(s) \/ n = Len(s) + 1
  BY <1>1
<1> QED
  BY <1>1, <1>2, <1>3 DEF AllOwned

LEMMA OwnCachesFrame ==
    ASSUME CacheTypes, Stays
    PROVE  /\ OwnRecord /\ record' = record => OwnRecord'
           /\ OwnIcon /\ icon' = icon => OwnIcon'
           /\ OwnOrder /\ order' = order => OwnOrder'
           /\ OwnJSON /\ listJSON' = listJSON => OwnJSON'
           /\ OwnFills /\ fills' = fills => OwnFills'
<1>1. OwnRecord /\ record' = record => OwnRecord'
  BY DEF OwnRecord, Stays
<1>2. OwnIcon /\ icon' = icon => OwnIcon'
  BY DEF OwnIcon, Stays
<1>3. OwnOrder /\ order' = order => OwnOrder'
  <2> SUFFICES ASSUME OwnOrder, order' = order, NEW u \in Users, NEW o \in order[u],
                      NEW n \in DOMAIN o
               PROVE  Owns(u, o[n])'
    BY DEF OwnOrder
  <2>1. o \in Seq(Isus)
    BY DEF CacheTypes
  <2>2. o[n] \in Isus /\ Owns(u, o[n])
    BY <2>1, ElementOfSeq DEF OwnOrder
  <2> QED
    BY <2>2 DEF Stays
<1>4. OwnJSON /\ listJSON' = listJSON => OwnJSON'
  <2> SUFFICES ASSUME OwnJSON, listJSON' = listJSON, NEW u \in Users,
                      NEW body \in listJSON[u]
               PROVE  AllOwned(u, body.items)'
    BY DEF OwnJSON
  <2>1. body.items \in Seq(Items)
    BY DEF CacheTypes
  <2> QED
    BY <2>1, AllOwnedKept DEF OwnJSON
<1>5. OwnFills /\ fills' = fills => OwnFills'
  <2>1. \A f \in fills : f.user \in Users /\ f.isu \in Isus
    BY DEF CacheTypes
  <2> QED
    BY <2>1 DEF OwnFills, Stays
<1> QED
  BY <1>1, <1>2, <1>3, <1>4, <1>5

LEMMA OwnHandlerFrame ==
    ASSUME OwnInv, NEW d \in Clients, Stays, account' = account,
           Same(d, Fields \ {"over"})
    PROVE  OwnHandler(d)'
<1>1. /\ req'[d].pc = req[d].pc /\ req'[d].op = req[d].op /\ req'[d].due = req[d].due
      /\ req'[d].todo = req[d].todo /\ req'[d].items = req[d].items
      /\ req'[d].isu = req[d].isu
  BY DEF Same, Fields
<1>2. /\ OwnHandler(d) /\ Place(d) /\ req[d] \in Handlers
      /\ Me(d)' = Me(d) /\ Me(d) \in Users
  BY DEF OwnInv, TypeInv, CacheTypes, Me
<1>3. AllOwned(Me(d), req[d].todo)' /\ AllOwned(Me(d), req[d].items)'
  <2>1. /\ req[d].todo \in Seq(Items) /\ req[d].items \in Seq(Items)
        /\ AllOwned(Me(d), req[d].todo) /\ AllOwned(Me(d), req[d].items)
    BY <1>2 DEF Handlers, OwnHandler
  <2>2. \A s \in Seq(Items) : AllOwned(Me(d), s) => \A n \in DOMAIN s : Owns(Me(d), s[n].isu)'
    BY <1>2, AllOwnedKept DEF AllOwned
  <2> QED
    BY <1>1, <1>2, <2>1, <2>2 DEF AllOwned
<1>4. ASSUME NEW j \in req[d].due PROVE Owns(Me(d), j)' /\ Id(j)' = Id(j)
  BY <1>2 DEF OwnHandler, Stays, Handlers
<1>5. /\ req[d].op # "list" /\ req[d].pc \in {"owner", "record", "icon", "prepend"}
      => Owns(Me(d), req[d].isu)'
  <2> SUFFICES ASSUME req[d].op # "list", req[d].pc \in {"owner", "record", "icon", "prepend"}
               PROVE  Owns(Me(d), req[d].isu)'
    OBVIOUS
  <2>1. req[d].isu \in Isus
    BY <1>2 DEF Place, Fits
  <2> QED
    BY <1>1, <1>2, <2>1 DEF OwnHandler, Stays
<1> QED
  BY <1>1, <1>2, <1>3, <1>4, <1>5 DEF OwnHandler, Answered, Serving

LEMMA SameRows ==
    ASSUME UNCHANGED <<account, rows>>
    PROVE  /\ \A u, i : Owns(u, i)' <=> Owns(u, i)
           /\ \A u, s : AllOwned(u, s)' <=> AllOwned(u, s)
           /\ \A i : Id(i)' = Id(i)
           /\ \A c : Me(c)' = Me(c)
BY DEF Owns, AllOwned, Id, Me

\* A handler goes on to another place.
LEMMA OwnTo ==
    ASSUME OwnInv, NEW c \in Clients, NEW pc, Step(c, To(pc)),
           UNCHANGED <<account, rows>>, pc # "done" \/ req[c].op = "list",
           req[c].op # "list" /\ pc \in {"owner", "record", "icon", "prepend"} =>
               Owns(Me(c), req[c].isu)
    PROVE  OwnHandler(c)'
<1>1. /\ req'[c].pc = pc /\ req'[c].op = req[c].op /\ req'[c].due = req[c].due
      /\ req'[c].todo = req[c].todo /\ req'[c].items = req[c].items
      /\ req'[c].isu = req[c].isu
  BY ToFacts DEF OwnInv, TypeInv, Same, Fields
<1>2. OwnHandler(c)
  BY DEF OwnInv
<1>3. /\ AllOwned(Me(c), req[c].todo)' /\ AllOwned(Me(c), req[c].items)'
  BY <1>1, <1>2 DEF OwnHandler, AllOwned, Owns, Me
<1>4. \A j \in req'[c].due : Owns(Me(c), j)'
  BY <1>1, <1>2, SameRows DEF OwnHandler
<1>5. /\ req'[c].op # "list" /\ req'[c].pc \in {"owner", "record", "icon", "prepend"}
      => Owns(Me(c), req[c].isu)'
  BY <1>1, SameRows DEF Owns, Me
<1>6. ~Answered(c, "detail")'
  BY <1>1 DEF Answered, Serving
<1> QED
  BY <1>3, <1>4, <1>5, <1>6 DEF OwnHandler

\* A handler of one ISU answers.
LEMMA OwnReply ==
    ASSUME OwnInv, NEW c \in Clients, NEW items, Step(c, Reply(items)),
           UNCHANGED <<account, rows>>, AllOwned(Me(c), items),
           req[c].op = "detail" /\ req[c].isu \in req[c].due =>
               items = <<Plain(req[c].isu, Id(req[c].isu))>>
    PROVE  OwnHandler(c)'
<1>1. /\ req'[c].pc = "done" /\ req'[c].op = req[c].op /\ req'[c].due = req[c].due
      /\ req'[c].todo = req[c].todo /\ req'[c].items = items
      /\ req'[c].isu = req[c].isu
  BY ReplyFacts DEF OwnInv, TypeInv, Same, Fields
<1>2. OwnHandler(c)
  BY DEF OwnInv
<1>3. /\ AllOwned(Me(c), req[c].todo)' /\ AllOwned(Me(c), req[c].items)'
  BY <1>1, <1>2 DEF OwnHandler, AllOwned, Owns, Me
<1>4. \A j \in req'[c].due : Owns(Me(c), j)'
  BY <1>1, <1>2, SameRows DEF OwnHandler
<1>5. (req[c].items = <<Plain(req[c].isu, Id(req[c].isu))>>)' <=>
          items = <<Plain(req[c].isu, Id(req[c].isu))>>
  <2>1. (<<Plain(req[c].isu, Id(req[c].isu))>>)' = <<Plain(req[c].isu, Id(req[c].isu))>>
    BY <1>1 DEF Plain, Id
  <2> QED
    BY <1>1, <2>1
<1> QED
  BY <1>1, <1>3, <1>4, <1>5 DEF OwnHandler, Answered, Serving

LEMMA OwnOne ==
    ASSUME OwnInv, NEW c \in Clients,
           SelectRow(c) \/ SetOwner(c) \/ SetRecord(c) \/ SetIcon(c) \/ StartFill(c)
              \/ Prepend(c)
    PROVE  OwnHandler(c)'
<1>0. /\ req[c] \in Handlers /\ Place(c) /\ OwnHandler(c)
  BY DEF OwnInv, TypeInv
<1>1. UNCHANGED <<account, rows>>
  BY DEF SelectRow, SetOwner, SetRecord, SetIcon, StartFill, Prepend
<1>2. CASE SelectRow(c)
  <2>1. CASE Owns(Me(c), req[c].isu)
    <3>1. Step(c, To("owner"))
      BY <1>2, <2>1 DEF SelectRow
    <3> QED
      BY <1>1, <2>1, <3>1, OwnTo
  <2>2. CASE ~Owns(Me(c), req[c].isu)
    <3>1. Step(c, Reply(<<>>))
      BY <1>2, <2>2 DEF SelectRow
    <3>2. AllOwned(Me(c), <<>>)
      BY DEF AllOwned
    <3>3. req[c].isu \notin req[c].due
      BY <1>0, <2>2 DEF OwnHandler
    <3> QED
      BY <1>1, <3>1, <3>2, <3>3, OwnReply
  <2> QED
    BY <2>1, <2>2
<1>3. CASE SetOwner(c)
  <2>1. req[c].op # "list" => Owns(Me(c), req[c].isu)
    BY <1>0, <1>3 DEF SetOwner, OwnHandler
  <2>2. Step(c, To("icon")) \/ Step(c, To("record"))
    BY <1>3 DEF SetOwner
  <2> QED
    BY <1>1, <2>1, <2>2, OwnTo
<1>4. CASE SetRecord(c)
  <2>1. req[c].op # "list" => Owns(Me(c), req[c].isu)
    BY <1>0, <1>4 DEF SetRecord, OwnHandler
  <2>2. CASE req[c].op \in {"register", "list"}
    <3>1. \/ req[c].op = "register" /\ Step(c, To("icon"))
          \/ req[c].op = "list" /\ Step(c, To("look"))
      BY <1>4, <2>2 DEF SetRecord
    <3> QED
      BY <1>1, <2>1, <3>1, OwnTo
  <2>3. CASE req[c].op \notin {"register", "list"}
    <3>1. Step(c, Reply(<<Plain(req[c].isu, Id(req[c].isu))>>))
      BY <1>4, <2>3 DEF SetRecord, Subject
    <3>2. AllOwned(Me(c), <<Plain(req[c].isu, Id(req[c].isu))>>)
      BY <2>1, <2>3, AllOwnedOne
    <3> QED
      BY <1>1, <3>1, <3>2, OwnReply
  <2> QED
    BY <2>2, <2>3
<1>5. CASE SetIcon(c)
  <2>1. Step(c, To("prepend")) /\ Owns(Me(c), req[c].isu)
    BY <1>0, <1>5 DEF SetIcon, Serving, OwnHandler
  <2> QED
    BY <1>1, <2>1, OwnTo
<1>6. CASE StartFill(c) \/ Prepend(c)
  <2>1. /\ Owns(Me(c), req[c].isu) /\ req[c].op # "detail"
        /\ Step(c, Reply(<<Plain(req[c].isu, Id(req[c].isu))>>))
    BY <1>0, <1>6 DEF StartFill, Prepend, Serving, OwnHandler
  <2>2. AllOwned(Me(c), <<Plain(req[c].isu, Id(req[c].isu))>>)
    BY <2>1, AllOwnedOne
  <2> QED
    BY <1>1, <2>1, <2>2, OwnReply
<1> QED
  BY <1>2, <1>3, <1>4, <1>5, <1>6

LEMMA OwnList ==
    ASSUME OwnInv, NEW c \in Clients,
           ReadOrder(c) \/ ReadRecord(c) \/ SelectList(c) \/ ReadBack(c)
              \/ BuildItem(c)
    PROVE  OwnHandler(c)'
<1>0. /\ TypeInv /\ CacheTypes /\ req[c] \in Handlers /\ Place(c) /\ OwnHandler(c)
      /\ Me(c) \in Users /\ AllOwned(Me(c), <<>>)
  BY DEF OwnInv, TypeInv, CacheTypes, Me, AllOwned
<1>1. req[c].op = "list" /\ UNCHANGED <<account, rows>>
  BY <1>0 DEF ReadOrder, ReadRecord, SelectList, ReadBack, BuildItem, Serving,
     Place, Fits, Handlers, Ops
<1>2. /\ req[c].todo \in Seq(Items) /\ req[c].items \in Seq(Items)
      /\ AllOwned(Me(c), req[c].todo) /\ AllOwned(Me(c), req[c].items)
  BY <1>0 DEF Handlers, OwnHandler
\* It is enough to know whose ISUs the rows and the items are.
<1>3. ASSUME Same(c, {"op", "isu", "due"}), AllOwned(Me(c), req'[c].todo),
             AllOwned(Me(c), req'[c].items)
      PROVE  OwnHandler(c)'
  <2>1. req'[c].op = "list" /\ req'[c].due = req[c].due
    BY <1>1, <1>3 DEF Same
  <2>2. AllOwned(Me(c), req[c].todo)' /\ AllOwned(Me(c), req[c].items)'
    BY <1>1, <1>3 DEF AllOwned, Owns, Me
  <2>3. \A j \in req'[c].due : Owns(Me(c), j)'
    BY <1>0, <1>1, <2>1, SameRows DEF OwnHandler
  <2> QED
    BY <2>1, <2>2, <2>3 DEF OwnHandler, Answered, Serving
\* The row in work.
<1>4. ASSUME req[c].pc \in RowPcs
      PROVE  /\ req[c].todo # <<>> /\ Subject(c) \in Isus
             /\ Subject(c) = Head(req[c].todo).isu /\ Head(req[c].todo) \in Items
             /\ Tail(req[c].todo) \in Seq(Items)
             /\ Owns(Me(c), Subject(c)) /\ AllOwned(Me(c), Tail(req[c].todo))
  <2>1. req[c].todo # <<>>
    BY <1>0, <1>1, <1>4 DEF Place
  <2> QED
    BY <1>0, <1>1, <1>2, <1>4, <2>1, SubjectFacts, AllOwnedTail
<1>5. ASSUME req[c].pc \in RowPcs, NEW id \in Nat
      PROVE  AllOwned(Me(c), <<Plain(Subject(c), id)>> \o Tail(req[c].todo))
  <2>1. Plain(Subject(c), id) \in Items /\ Plain(Subject(c), id).isu = Subject(c)
    BY <1>4, <1>5, PlainFacts
  <2> QED
    BY <1>4, <1>5, <2>1, AllOwnedCons
<1>6. CASE ReadOrder(c)
  <2>1. CASE \E o \in order[Me(c)] :
                Step(c, [pc |-> IF o = <<>> THEN "setJSON" ELSE "known",
                         todo |-> [n \in DOMAIN o |-> Plain(o[n], Partial)]])
    <3>1. PICK o \in order[Me(c)] :
              Step(c, [pc |-> IF o = <<>> THEN "setJSON" ELSE "known",
                       todo |-> [n \in DOMAIN o |-> Plain(o[n], Partial)]])
      BY <2>1
    <3> DEFINE todo == [n \in DOMAIN o |-> Plain(o[n], Partial)]
               pc == IF o = <<>> THEN "setJSON" ELSE "known"
    <3>2. DOMAIN todo = DOMAIN o /\ \A n \in DOMAIN o : todo[n].isu = o[n]
      BY <1>0, OrderFacts DEF CacheTypes
    <3>3. AllOwned(Me(c), todo)
      BY <1>0, <3>2 DEF AllOwned, OwnInv, OwnOrder
    <3> HIDE DEF todo, pc
    <3>4. Step(c, [pc |-> pc, todo |-> todo])
      BY <3>1 DEF todo, pc
    <3>5. /\ req'[c].todo = todo /\ req'[c].items = req[c].items
          /\ Same(c, {"op", "isu", "due"})
      BY <1>0, <3>4, StepFacts DEF TypeInv, Same, Fields
    <3> QED
      BY <1>2, <1>3, <3>3, <3>5
  <2>2. CASE Step(c, To("select"))
    BY <1>1, <2>2, OwnTo
  <2> QED
    BY <1>6, <2>1, <2>2 DEF ReadOrder
<1>7. CASE ReadRecord(c)
  <2>1. req[c].pc \in RowPcs
    BY <1>7 DEF ReadRecord, Serving, RowPcs
  <2>2. CASE \E r \in RecordOf(Me(c), Subject(c)) :
                Step(c, [pc |-> "knownItem",
                         todo |-> <<Plain(Subject(c), r.id)>> \o Tail(req[c].todo)])
    <3>1. PICK r \in RecordOf(Me(c), Subject(c)) :
                Step(c, [pc |-> "knownItem",
                         todo |-> <<Plain(Subject(c), r.id)>> \o Tail(req[c].todo)])
      BY <2>2
    <3>2. r.id \in Nat
      BY <1>0, <1>4, <2>1 DEF RecordOf, CacheTypes
    <3> DEFINE todo == <<Plain(Subject(c), r.id)>> \o Tail(req[c].todo)
    <3>3. AllOwned(Me(c), todo)
      BY <1>5, <2>1, <3>2
    <3> HIDE DEF todo
    <3>4. Step(c, [pc |-> "knownItem", todo |-> todo])
      BY <3>1 DEF todo
    <3>5. /\ req'[c].todo = todo /\ req'[c].items = req[c].items
          /\ Same(c, {"op", "isu", "due"})
      BY <1>0, <3>4, StepFacts DEF TypeInv, Same, Fields
    <3> QED
      BY <1>2, <1>3, <3>3, <3>5
  <2>3. CASE Step(c, [pc |-> "select", todo |-> <<>>, items |-> <<>>, over |-> FALSE])
    <3>1. /\ req'[c].todo = <<>> /\ req'[c].items = <<>>
          /\ Same(c, {"op", "isu", "due"})
      BY <1>0, <2>3, StepFacts DEF TypeInv, Same, Fields
    <3> QED
      BY <1>0, <1>3, <3>1
  <2> QED
    BY <1>7, <2>2, <2>3 DEF ReadRecord
<1>8. CASE SelectList(c)
  <2>1. PICK saved \in Saved :
            Step(c, [pc |-> IF ListOf(Me(c), saved) = <<>> THEN "setOrder" ELSE "owner",
                     todo |-> ListOf(Me(c), saved)])
    BY <1>8 DEF SelectList
  <2> DEFINE todo == ListOf(Me(c), saved)
             pc == IF todo = <<>> THEN "setOrder" ELSE "owner"
  <2>2. AllOwned(Me(c), todo)
    BY <1>0, ListOfFacts DEF AllOwned
  <2> HIDE DEF todo, pc
  <2>3. Step(c, [pc |-> pc, todo |-> todo])
    BY <2>1 DEF todo, pc
  <2>4. /\ req'[c].todo = todo /\ req'[c].items = req[c].items
        /\ Same(c, {"op", "isu", "due"})
    BY <1>0, <2>3, StepFacts DEF TypeInv, Same, Fields
  <2> QED
    BY <1>2, <1>3, <2>2, <2>4
<1>9. CASE ReadBack(c)
  <2> DEFINE id == IF RecordOf(Me(c), Subject(c)) = {} THEN Partial
                   ELSE record[Subject(c)].id
             todo == <<Plain(Subject(c), id)>> \o Tail(req[c].todo)
  <2>1. req[c].pc \in RowPcs /\ Step(c, [pc |-> "item", todo |-> todo])
    BY <1>9 DEF ReadBack, Serving, RowPcs
  <2>2. id \in Nat
    BY <1>0, <1>4, <2>1 DEF CacheTypes, Partial
  <2> HIDE DEF id
  <2>3. AllOwned(Me(c), todo)
    BY <1>5, <2>1, <2>2
  <2> HIDE DEF todo
  <2>4. /\ req'[c].todo = todo /\ req'[c].items = req[c].items
        /\ Same(c, {"op", "isu", "due"})
    BY <1>0, <2>1, StepFacts DEF TypeInv, Same, Fields
  <2> QED
    BY <1>2, <1>3, <2>3, <2>4
<1>10. CASE BuildItem(c)
  <2> DEFINE rest == Tail(req[c].todo)
             new == [Head(req[c].todo) EXCEPT !.at = latest[Subject(c)]]
             items == Append(req[c].items, new)
             pc == CASE req[c].pc = "item" /\ rest # <<>> -> "owner"
                     [] req[c].pc = "item" /\ rest = <<>> -> "setOrder"
                     [] req[c].pc = "knownItem" /\ rest # <<>> -> "known"
                     [] OTHER -> "setJSON"
  <2>1. req[c].pc \in RowPcs /\ Step(c, [todo |-> rest, items |-> items, pc |-> pc])
    BY <1>10 DEF BuildItem, RowPcs
  <2>2. /\ Subject(c) \in Isus /\ Head(req[c].todo) \in Items
        /\ Subject(c) = Head(req[c].todo).isu
        /\ Owns(Me(c), Subject(c)) /\ AllOwned(Me(c), rest)
    BY <1>4, <2>1
  <2>3. new \in Items /\ new.isu = Subject(c)
    BY <1>0, <2>2 DEF Items, CacheTypes
  <2> HIDE DEF rest, new, pc
  <2>4. AllOwned(Me(c), items)
    BY <1>2, <2>2, <2>3, AllOwnedAppend
  <2> HIDE DEF items
  <2>5. /\ req'[c].todo = rest /\ req'[c].items = items
        /\ Same(c, {"op", "isu", "due"})
    BY <1>0, <2>1, StepFacts DEF TypeInv, Same, Fields
  <2> QED
    BY <1>3, <2>2, <2>4, <2>5
<1> QED
  BY <1>6, <1>7, <1>8, <1>9, <1>10

\* Marking a list that was overtaken changes nothing of whose ISUs it holds.
LEMMA OwnFill ==
    ASSUME OwnInv, NEW c \in Clients, FillLatest(c)
    PROVE  \A d \in Clients : OwnHandler(d)'
<1>0. /\ TypeInv /\ UNCHANGED <<account, rows>> /\ Stays /\ req[c].op = "list"
  BY StaysFrame DEF OwnInv, FillLatest, Serving
<1> DEFINE row == Head(req[c].todo)
<1>1. CASE Step(c, To("again"))
  <2>1. OwnHandler(c)' /\ \A d \in Clients \ {c} : req'[d] = req[d]
    BY <1>0, <1>1, OwnTo, ToFacts DEF TypeInv, Moved
  <2>2. \A d \in Clients \ {c} : OwnHandler(d)'
    BY <1>0, <2>1, OwnHandlerFrame DEF Same
  <2> QED
    BY <2>1, <2>2
<1>2. CASE req' = [Overtaken(row.isu, row.at) EXCEPT ![c].pc = "drop"]
  <2> DEFINE over == Overtaken(row.isu, row.at)
  <2>1. \A d \in Clients : over[d] \in Handlers /\
            \A f \in Fields \ {"over"} : over[d][f] = req[d][f]
    BY <1>0, OvertakenFacts
  <2>2. DOMAIN over = Clients
    BY DEF Overtaken
  <2> HIDE DEF over
  <2>3. /\ \A d \in Clients \ {c} : req'[d] = over[d]
        /\ req'[c] = [over[c] EXCEPT !.pc = "drop"]
    BY <1>2, <2>2 DEF over
  <2>4. \A d \in Clients \ {c} : OwnHandler(d)'
    BY <1>0, <2>1, <2>3, OwnHandlerFrame DEF Same
  <2>5. /\ req'[c].op = "list" /\ req'[c].todo = req[c].todo
        /\ req'[c].items = req[c].items /\ req'[c].due = req[c].due
    BY <1>0, <2>1, <2>3 DEF Handlers, Fields
  <2>6. OwnHandler(c)'
    <3>1. OwnHandler(c)
      BY DEF OwnInv
    <3>2. AllOwned(Me(c), req[c].todo)' /\ AllOwned(Me(c), req[c].items)'
      BY <1>0, <2>5, <3>1 DEF OwnHandler, AllOwned, Owns, Me
    <3>3. \A j \in req'[c].due : Owns(Me(c), j)'
      BY <1>0, <2>5, <3>1, SameRows DEF OwnHandler
    <3> QED
      BY <2>5, <3>2, <3>3 DEF OwnHandler, Answered, Serving
  <2> QED
    BY <2>4, <2>6
<1> QED
  BY <1>1, <1>2 DEF FillLatest

LEMMA OwnHandle ==
    ASSUME OwnInv, NEW c \in Clients, Handle(c)
    PROVE  \A d \in Clients : OwnHandler(d)'
<1>0. TypeInv
  BY DEF OwnInv
<1>1. CASE FillLatest(c)
  BY <1>1, OwnFill
<1>2. CASE ~FillLatest(c)
  <2>1. UNCHANGED <<account, rows>> /\ \A d \in Clients \ {c} : req'[d] = req[d]
    BY <1>0, <1>2 DEF Handle, SelectRow, SetOwner, SetRecord, SetIcon, StartFill,
       Prepend, ReadOrder, ReadRecord, SelectList, LookLatest, FillDrop, ReadBack,
       BuildItem, SetOrder, SetJSON, Done, Step, TypeInv
  <2>2. CASE LookLatest(c) \/ FillDrop(c) \/ SetOrder(c) \/ SetJSON(c)
    <3>1. /\ req[c].op = "list"
          /\ \E pc \in {"latest", "again", "setJSON", "done"} : Step(c, To(pc))
      BY <2>2 DEF LookLatest, FillDrop, SetOrder, SetJSON, Serving
    <3>2. OwnHandler(c)'
      BY <2>1, <3>1, OwnTo
    <3> QED
      BY <2>1, <3>2, OwnHandlerFrame, StaysFrame DEF Same
  <2>3. CASE Done(c)
    <3>1. req'[c] = Idle
      BY <1>0, <2>3 DEF Done, TypeInv
    <3>2. OwnHandler(c)'
      BY <3>1, IdleFacts DEF OwnHandler, AllOwned, Answered, Serving
    <3> QED
      BY <2>1, <3>2, OwnHandlerFrame, StaysFrame DEF Same
  <2>4. CASE ~(LookLatest(c) \/ FillDrop(c) \/ SetOrder(c) \/ SetJSON(c) \/ Done(c))
    <3>1. OwnHandler(c)'
      BY <1>2, <2>4, OwnOne, OwnList DEF Handle
    <3> QED
      BY <2>1, <3>1, OwnHandlerFrame, StaysFrame DEF Same
  <2> QED
    BY <2>2, <2>3, <2>4
<1> QED
  BY <1>1, <1>2

LEMMA ExceptFacts ==
    ASSUME NEW S, NEW T, NEW f \in [S -> T], NEW a, NEW b, NEW x \in S
    PROVE  [f EXCEPT ![a] = b][x] = IF x = a THEN b ELSE f[x]
OBVIOUS

LEMMA OwnHandleCaches ==
    ASSUME OwnInv, NEW c \in Clients, Handle(c)
    PROVE  OwnRecord' /\ OwnIcon' /\ OwnOrder' /\ OwnJSON' /\ OwnFills'
<1>0. /\ TypeInv /\ CacheTypes /\ req[c] \in Handlers /\ Place(c) /\ OwnHandler(c)
      /\ Me(c) \in Users
  BY DEF OwnInv, TypeInv, CacheTypes, Me
<1>1. UNCHANGED <<account, rows>>
  BY DEF Handle, SelectRow, SetOwner, SetRecord, SetIcon, StartFill, Prepend,
     ReadOrder, ReadRecord, SelectList, LookLatest, FillLatest, FillDrop, ReadBack,
     BuildItem, SetOrder, SetJSON, Done
<1>2. Stays /\ CacheTypes'
  BY <1>0, <1>1, StaysFrame, HandleCaches
<1>3. req[c].op # "list" => Subject(c) = req[c].isu
  BY DEF Subject
<1>4. OwnRecord'
  <2>1. CASE SetRecord(c)
    <3>1. req[c].op # "none" /\ req[c].pc = "record" /\ req[c].pc \in RowPcs
      BY <1>0, <2>1 DEF SetRecord, Place, Fits, RowPcs
    <3>2. Subject(c) \in Isus
      BY <1>0, <3>1, SubjectFacts
    <3>3. Owns(Me(c), Subject(c))
      <4>1. CASE req[c].op = "list"
        <5>1. req[c].todo \in Seq(Items) /\ req[c].todo # <<>>
          BY <1>0, <3>1, <4>1 DEF Handlers, Place
        <5> QED
          BY <1>0, <4>1, <5>1, AllOwnedTail DEF OwnHandler, Subject
      <4>2. CASE req[c].op # "list"
        BY <1>0, <1>3, <3>1, <4>2 DEF OwnHandler
      <4> QED
        BY <4>1, <4>2
    <3>4. \A i \in Isus : \/ record'[i] = record[i]
                           \/ /\ i = Subject(c) /\ record'[i].user = Me(c)
                              /\ record'[i].id \in {Partial, Id(i)}
      <4> DEFINE new == [user |-> Me(c),
                         id |-> IF req[c].op = "conditions" THEN Partial
                                ELSE Id(Subject(c))]
      <4>1. record' = [record EXCEPT ![Subject(c)] = new]
        BY <2>1 DEF SetRecord
      <4>2. new.user = Me(c) /\ new.id \in {Partial, Id(Subject(c))}
        OBVIOUS
      <4>3. record \in [Isus -> [user : Users \cup {Nobody}, id : Nat]]
        BY <1>0 DEF CacheTypes
      <4> HIDE DEF new
      <4>4. \A i \in Isus : record'[i] = IF i = Subject(c) THEN new ELSE record[i]
        BY <4>1, <4>3, ExceptFacts
      <4> QED
        BY <4>2, <4>4
    <3> QED
      BY <1>1, <3>3, <3>4, SameRows DEF OwnInv, OwnRecord
  <2>2. CASE ~SetRecord(c)
    <3>1. record' = record
      BY <2>2 DEF Handle, SelectRow, SetOwner, SetIcon, StartFill, Prepend,
         ReadOrder, ReadRecord, SelectList, LookLatest, FillLatest, FillDrop, ReadBack,
         BuildItem, SetOrder, SetJSON, Done, caches
    <3> QED
      BY <1>0, <1>2, <3>1, OwnCachesFrame DEF OwnInv
  <2> QED
    BY <2>1, <2>2
<1>5. OwnIcon'
  <2>1. CASE SetIcon(c)
    <3>1. Owns(Me(c), req[c].isu) /\ icon' = [icon EXCEPT ![req[c].isu] = Me(c)]
      BY <1>0, <2>1 DEF SetIcon, Serving, OwnHandler
    <3>2. \A i \in Isus : icon'[i] = icon[i] \/ (i = req[c].isu /\ icon'[i] = Me(c))
      <4>1. icon \in [Isus -> Users \cup {Nobody}]
        BY <1>0 DEF CacheTypes
      <4>2. \A i \in Isus : icon'[i] = IF i = req[c].isu THEN Me(c) ELSE icon[i]
        BY <3>1, <4>1, ExceptFacts
      <4> QED
        BY <4>2
    <3> QED
      BY <1>1, <3>1, <3>2, SameRows DEF OwnInv, OwnIcon
  <2>2. CASE ~SetIcon(c)
    <3>1. icon' = icon
      BY <2>2 DEF Handle, SelectRow, SetOwner, SetRecord, StartFill, Prepend,
         ReadOrder, ReadRecord, SelectList, LookLatest, FillLatest, FillDrop, ReadBack,
         BuildItem, SetOrder, SetJSON, Done, caches
    <3> QED
      BY <1>0, <1>2, <3>1, OwnCachesFrame DEF OwnInv
  <2> QED
    BY <2>1, <2>2
<1>6. OwnOrder'
  <2>1. ASSUME NEW o, \A n \in DOMAIN o : Owns(Me(c), o[n]),
               order' = [order EXCEPT ![Me(c)] = {o}]
        PROVE  OwnOrder'
    <3>1. \A u \in Users : order'[u] = order[u] \/ (u = Me(c) /\ order'[u] = {o})
      <4>1. order \in [Users -> SUBSET Seq(Isus)]
        BY <1>0 DEF CacheTypes
      <4>2. \A u \in Users : order'[u] = IF u = Me(c) THEN {o} ELSE order[u]
        BY <2>1, <4>1, ExceptFacts
      <4> QED
        BY <4>2
    <3> QED
      BY <1>1, <2>1, <3>1, SameRows DEF OwnInv, OwnOrder
  <2>2. CASE Prepend(c)
    <3> DEFINE old == IF order[Me(c)] = {} THEN <<>> ELSE CHOOSE o \in order[Me(c)] : TRUE
    <3>1. /\ order' = [order EXCEPT ![Me(c)] = {<<req[c].isu>> \o old}]
          /\ req[c].isu \in Isus /\ Owns(Me(c), req[c].isu)
      BY <1>0, <2>2 DEF Prepend, Serving, Place, OwnHandler
    <3>2. old \in Seq(Isus) /\ \A n \in DOMAIN old : Owns(Me(c), old[n])
      <4>1. CASE order[Me(c)] = {}
        BY <4>1
      <4>2. CASE order[Me(c)] # {}
        <5>1. old \in order[Me(c)]
          BY <4>2
        <5> QED
          BY <1>0, <5>1 DEF CacheTypes, OwnInv, OwnOrder
      <4> QED
        BY <4>1, <4>2
    <3> HIDE DEF old
    <3> DEFINE o == <<req[c].isu>> \o old
    <3>3. \A n \in DOMAIN o : Owns(Me(c), o[n])
      <4>1. /\ <<req[c].isu>> \in Seq(Isus) /\ Len(<<req[c].isu>>) = 1
            /\ <<req[c].isu>>[1] = req[c].isu
        BY <3>1
      <4>2. Len(old) \in Nat /\ DOMAIN old = 1..Len(old)
        BY <3>2, LenProperties
      <4>3. /\ o \in Seq(Isus) /\ Len(o) = 1 + Len(old)
            /\ \A n \in 1..(1 + Len(old)) :
                  o[n] = IF n <= 1 THEN <<req[c].isu>>[n] ELSE old[n - 1]
        BY <3>2, <4>1, ConcatProperties
      <4> HIDE DEF o
      <4>4. DOMAIN o = 1..(1 + Len(old))
        BY <4>3, LenProperties
      <4>5. ASSUME NEW n \in 1..(1 + Len(old)) PROVE Owns(Me(c), o[n])
        <5>1. CASE n = 1
          BY <3>1, <4>1, <4>3, <5>1
        <5>2. CASE n # 1
          <6>1. n - 1 \in DOMAIN old /\ ~(n <= 1)
            BY <4>2, <5>2
          <6> QED
            BY <3>2, <4>3, <6>1
        <5> QED
          BY <5>1, <5>2
      <4> QED
        BY <4>4, <4>5
    <3>4. order' = [order EXCEPT ![Me(c)] = {o}]
      BY <3>1
    <3> HIDE DEF o
    <3> QED
      BY <2>1, <3>3, <3>4
  <2>3. CASE SetOrder(c)
    <3> DEFINE o == IsusOf(req[c].items)
    <3>1. order' = [order EXCEPT ![Me(c)] = {o}]
      BY <2>3 DEF SetOrder
    <3>2. \A n \in DOMAIN o : Owns(Me(c), o[n])
      BY <1>0 DEF OwnHandler, AllOwned, IsusOf
    <3> HIDE DEF o
    <3> QED
      BY <2>1, <3>1, <3>2
  <2>4. CASE ~Prepend(c) /\ ~SetOrder(c)
    <3>1. order' = order
      BY <2>4 DEF Handle, SelectRow, SetOwner, SetRecord, SetIcon, StartFill,
         ReadOrder, ReadRecord, SelectList, LookLatest, FillLatest, FillDrop, ReadBack,
         BuildItem, SetJSON, Done, caches
    <3> QED
      BY <1>0, <1>2, <3>1, OwnCachesFrame DEF OwnInv
  <2> QED
    BY <2>2, <2>3, <2>4
<1>7. OwnJSON'
  <2> DEFINE body == [items |-> req[c].items, over |-> req[c].over]
  <2>1. \/ listJSON' = listJSON
        \/ listJSON' = [listJSON EXCEPT ![Me(c)] = {}]
        \/ listJSON' = [listJSON EXCEPT ![Me(c)] = {body}]
    BY DEF Handle, SelectRow, SetOwner, SetRecord, SetIcon, StartFill, Prepend,
       ReadOrder, ReadRecord, SelectList, LookLatest, FillLatest, FillDrop, ReadBack,
       BuildItem, SetOrder, SetJSON, Done, caches
  <2>2. body.items = req[c].items
    OBVIOUS
  <2> HIDE DEF body
  <2>3. ASSUME NEW u \in Users, NEW b \in listJSON'[u]
        PROVE  b \in listJSON[u] \/ (u = Me(c) /\ b = body)
    <3>1. listJSON \in [Users -> SUBSET [items : Seq(Items), over : BOOLEAN]]
      BY <1>0 DEF CacheTypes
    <3>2. listJSON'[u] = listJSON[u] \/ (u = Me(c) /\ listJSON'[u] \subseteq {body})
      <4>1. CASE listJSON' = [listJSON EXCEPT ![Me(c)] = {}]
        BY <3>1, <4>1, ExceptFacts
      <4>2. CASE listJSON' = [listJSON EXCEPT ![Me(c)] = {body}]
        BY <3>1, <4>2, ExceptFacts
      <4> QED
        BY <2>1, <4>1, <4>2
    <3> QED
      BY <2>3, <3>2
  <2>4. AllOwned(Me(c), body.items)
    BY <1>0, <2>2 DEF OwnHandler
  <2>5. ASSUME NEW u \in Users, NEW b \in listJSON'[u] PROVE AllOwned(u, b.items)
    BY <2>3, <2>4 DEF OwnInv, OwnJSON
  <2> QED
    BY <1>1, <2>5, SameRows DEF OwnJSON
<1>8. OwnFills'
  <2>1. CASE StartFill(c)
    <3>1. /\ Owns(Me(c), req[c].isu)
          /\ fills' = fills \cup {[isu |-> req[c].isu, user |-> Me(c)]}
      BY <1>0, <2>1 DEF StartFill, Serving, OwnHandler
    <3> QED
      BY <1>1, <3>1, SameRows DEF OwnInv, OwnFills
  <2>2. CASE ~StartFill(c)
    <3>1. fills' = fills
      BY <2>2 DEF Handle, SelectRow, SetOwner, SetRecord, SetIcon, Prepend,
         ReadOrder, ReadRecord, SelectList, LookLatest, FillLatest, FillDrop, ReadBack,
         BuildItem, SetOrder, SetJSON, Done
    <3> QED
      BY <1>0, <1>2, <3>1, OwnCachesFrame DEF OwnInv
  <2> QED
    BY <2>1, <2>2
<1> QED
  BY <1>4, <1>5, <1>6, <1>7, <1>8

\* A request that arrives.
LEMMA OwnBegins ==
    ASSUME OwnInv, NEW c \in Clients, NEW op \in Ops, NEW i, NEW pc,
           NEW items \in Seq(Items), Begins(c, op, i, pc, items), Stays,
           AllOwned(Me(c), items),
           op # "list" /\ pc \in {"owner", "record", "icon", "prepend"} =>
               Owns(Me(c), i)',
           op = "detail" /\ pc = "done" =>
               i \in Isus /\ items = <<Plain(i, Id(i))>>
    PROVE  \A d \in Clients : OwnHandler(d)'
<1>0. TypeInv /\ CacheTypes /\ Me(c) \in Users
  BY DEF OwnInv, TypeInv, CacheTypes, Me
<1>1. /\ req'[c].pc = pc /\ req'[c].op = op /\ req'[c].isu = i
      /\ req'[c].todo = <<>> /\ req'[c].items = items
      /\ req'[c].due = {j \in acked : Owns(Me(c), j)} /\ Moved(c)
      /\ account' = account
  BY <1>0, BeginsFacts DEF TypeInv
<1>2. \A d \in Clients \ {c} : OwnHandler(d)'
  BY <1>1, OwnHandlerFrame DEF Moved, Same
<1>3. Me(c)' = Me(c)
  BY <1>1 DEF Me
<1>4. AllOwned(Me(c), req[c].items)'
  <2>1. ASSUME NEW n \in DOMAIN items PROVE Owns(Me(c), items[n].isu)'
    <3>1. items[n].isu \in Isus /\ Owns(Me(c), items[n].isu)
      BY ItemFacts DEF AllOwned
    <3>2. \A i1 \in Isus : Owns(Me(c), i1) => Owns(Me(c), i1)'
      <4>1. \A u \in Users : u = Me(c) => \A i1 \in Isus : Owns(u, i1) => Owns(u, i1)'
        BY DEF Stays
      <4> QED
        BY <1>0, <1>3, <4>1
    <3> QED
      BY <3>1, <3>2
  <2> QED
    BY <1>1, <1>3, <2>1 DEF AllOwned
<1>5. AllOwned(Me(c), req[c].todo)'
  BY <1>1 DEF AllOwned
<1>6. ASSUME NEW j \in req'[c].due
      PROVE  Owns(Me(c), j)' /\ (j \in Isus => Id(j)' = Id(j))
  <2>1. Owns(Me(c), j)
    BY <1>1
  <2>2. j \in Isus
    <3>1. rows \in Seq([isu : Isus, user : Users])
      BY <1>0 DEF CacheTypes
    <3>2. [isu |-> j, user |-> Me(c)] \in [isu : Isus, user : Users]
      BY <2>1, <3>1, RangeOfSeq DEF Owns
    <3>3. [isu |-> j, user |-> Me(c)].isu \in Isus
      BY <3>2
    <3> QED
      BY <3>3
  <2>3. \A u \in Users : u = Me(c) => Owns(u, j)' /\ Id(j)' = Id(j)
    BY <2>1, <2>2 DEF Stays
  <2> QED
    BY <1>0, <1>3, <2>3
<1>7. OwnHandler(c)'
  <2>1. /\ req'[c].op # "list" /\ req'[c].pc \in {"owner", "record", "icon", "prepend"}
        => Owns(Me(c), req[c].isu)'
    BY <1>1 DEF Owns
  <2>2. \A j \in req'[c].due : Owns(Me(c), j)'
    BY <1>6
  <2>3. ASSUME Answered(c, "detail")', req'[c].isu \in req'[c].due
        PROVE  (req[c].items = <<Plain(req[c].isu, Id(req[c].isu))>>)'
    <3>1. op = "detail" /\ pc = "done"
      BY <1>1, <2>3 DEF Answered, Serving
    <3>2. Id(i)' = Id(i) /\ items = <<Plain(i, Id(i))>>
      BY <1>1, <1>6, <2>3, <3>1
    <3> QED
      BY <1>1, <3>2 DEF Plain, Id
  <2> QED
    BY <1>4, <1>5, <2>1, <2>2, <2>3 DEF OwnHandler
<1> QED
  BY <1>2, <1>7

LEMMA OwnRequest ==
    ASSUME OwnInv, NEW c \in Clients,
           \/ GetList(c)
           \/ \E i \in Isus : Insert(c, i) \/ \E op \in Ops : GetIsu(c, op, i)
    PROVE  OwnInv'
<1>0. /\ TypeInv /\ CacheTypes /\ Me(c) \in Users
      /\ <<>> \in Seq(Items) /\ AllOwned(Me(c), <<>>) /\ TypeInv'
  <2>1. TypeInv /\ TypeInv'
    BY TypeInvRequest DEF OwnInv
  <2>2. CacheTypes /\ <<>> \in Seq(Items) /\ AllOwned(Me(c), <<>>)
    BY DEF OwnInv, TypeInv, AllOwned
  <2>3. Me(c) \in Users
    BY <2>2 DEF CacheTypes, Me
  <2> QED
    BY <2>1, <2>2, <2>3
<1>1. ASSUME Stays, UNCHANGED <<caches, fills>>, \A d \in Clients : OwnHandler(d)'
      PROVE  OwnInv'
  <2>1. OwnRecord' /\ OwnIcon' /\ OwnOrder' /\ OwnJSON' /\ OwnFills'
    BY <1>0, <1>1, OwnCachesFrame DEF OwnInv, caches
  <2> QED
    BY <1>0, <1>1, <2>1 DEF OwnInv
<1>2. CASE GetList(c)
  <2>1. UNCHANGED <<rows, caches, fills>> /\ Stays /\ "list" \in Ops
    BY <1>2, StaysFrame DEF GetList, Arrive, Ops
  <2>2. CASE \E body \in listJSON[Me(c)] : Arrive(c, "list", NoIsu, Reply(body.items))
    <3>1. PICK body \in listJSON[Me(c)] : Arrive(c, "list", NoIsu, Reply(body.items))
      BY <2>2
    <3>2. body.items \in Seq(Items) /\ AllOwned(Me(c), body.items)
      BY <1>0 DEF CacheTypes, OwnInv, OwnJSON
    <3>3. Begins(c, "list", NoIsu, "done", body.items)
      BY <3>1 DEF Begins
    <3>4. \A d \in Clients : OwnHandler(d)'
      BY <2>1, <3>2, <3>3, OwnBegins
    <3> QED
      BY <1>1, <2>1, <3>4
  <2>3. CASE Arrive(c, "list", NoIsu, To("order"))
    <3>1. Begins(c, "list", NoIsu, "order", <<>>)
      BY <2>3 DEF Begins
    <3>2. \A d \in Clients : OwnHandler(d)'
      BY <1>0, <2>1, <3>1, OwnBegins
    <3> QED
      BY <1>1, <2>1, <3>2
  <2> QED
    BY <1>2, <2>2, <2>3 DEF GetList
<1>3. ASSUME NEW i \in Isus, Insert(c, i) PROVE OwnInv'
  <2>1. /\ i \notin Registered /\ rows' = Append(rows, [isu |-> i, user |-> Me(c)])
        /\ Arrive(c, "register", i, To("owner")) /\ UNCHANGED <<caches, fills>>
        /\ "register" \in Ops
    BY <1>3 DEF Insert, Arrive, Ops
  <2>2. /\ Range(rows)' = Range(rows) \cup {[isu |-> i, user |-> Me(c)]}
        /\ \A j \in Registered : Id(j)' = Id(j)
    BY <1>0, <2>1, InsertFacts
  <2>3. Stays
    BY <1>0, <2>2, RowsFacts DEF Stays, Owns
  <2>4. Owns(Me(c), i)'
    <3>1. Me(c)' = Me(c)
      BY <2>1 DEF Arrive, Me
    <3> QED
      BY <2>2, <3>1 DEF Owns
  <2>5. Begins(c, "register", i, "owner", <<>>)
    BY <2>1 DEF Begins
  <2>6. \A d \in Clients : OwnHandler(d)'
    BY <1>0, <2>1, <2>3, <2>4, <2>5, OwnBegins
  <2> QED
    BY <1>1, <2>1, <2>3, <2>6
<1>4. ASSUME NEW i \in Isus, NEW op \in Ops, GetIsu(c, op, i) PROVE OwnInv'
  <2>1. /\ op \in {"detail", "icon", "conditions"} /\ UNCHANGED <<rows, caches, fills>>
        /\ Stays
    BY <1>4, StaysFrame DEF GetIsu, Arrive
  <2>2. CASE Cached(Me(c), op, i)
    <3>1. Arrive(c, op, i, Reply(<<Plain(i, record[i].id)>>))
      BY <1>4, <2>2 DEF GetIsu
    <3>2. Begins(c, op, i, "done", <<Plain(i, record[i].id)>>)
      BY <3>1 DEF Begins
    <3>3. <<Plain(i, record[i].id)>> \in Seq(Items)
      BY <1>0, PlainFacts DEF CacheTypes
    <3>4. CASE op = "icon"
      <4>1. Owns(Me(c), i)
        BY <1>0, <2>2, <3>4 DEF Cached, OwnInv, OwnIcon
      <4>2. AllOwned(Me(c), <<Plain(i, record[i].id)>>)
        BY <4>1, AllOwnedOne
      <4>3. \A d \in Clients : OwnHandler(d)'
        BY <2>1, <3>2, <3>3, <3>4, <4>2, OwnBegins
      <4> QED
        BY <1>1, <2>1, <4>3
    <3>5. CASE op \in {"detail", "conditions"}
      <4>1. record[i].user = Me(c) /\ (op = "detail" => record[i].id # Partial)
        BY <2>2, <3>5 DEF Cached, RecordOf
      <4>2. Owns(Me(c), i) /\ (op = "detail" => record[i].id = Id(i))
        BY <1>0, <4>1 DEF OwnInv, OwnRecord
      <4>3. AllOwned(Me(c), <<Plain(i, record[i].id)>>)
        BY <4>2, AllOwnedOne
      <4>4. \A d \in Clients : OwnHandler(d)'
        BY <2>1, <3>2, <3>3, <4>2, <4>3, OwnBegins
      <4> QED
        BY <1>1, <2>1, <4>4
    <3> QED
      BY <2>1, <3>4, <3>5
  <2>3. CASE ~Cached(Me(c), op, i)
    <3>1. Begins(c, op, i, "select", <<>>)
      BY <1>4, <2>3 DEF GetIsu, Begins
    <3>2. \A d \in Clients : OwnHandler(d)'
      BY <1>0, <2>1, <3>1, OwnBegins
    <3> QED
      BY <1>1, <2>1, <3>2
  <2> QED
    BY <2>2, <2>3
<1> QED
  BY <1>2, <1>3, <1>4

LEMMA OwnWriter ==
    ASSUME OwnInv,
           \/ \E f \in fills : FillIcon(f)
           \/ \E x \in Conditions : WriteLatest(x.isu, x.at)
           \/ LookUpOwner \/ DropJSON
    PROVE  OwnInv'
<1>0. TypeInv /\ CacheTypes /\ TypeInv'
  BY TypeInvWriter DEF OwnInv, TypeInv
<1>1. UNCHANGED <<account, rows>>
  BY DEF FillIcon, WriteLatest, LookUpOwner, DropJSON
<1>2. Stays
  BY <1>1, StaysFrame
<1>3. ASSUME NEW f \in fills, FillIcon(f) PROVE OwnInv'
  <2>1. /\ f.isu \in Isus /\ Owns(f.user, f.isu)
        /\ icon' = [icon EXCEPT ![f.isu] = f.user] /\ fills' = fills \ {f}
        /\ UNCHANGED <<record, order, listJSON, req>>
    BY <1>0, <1>3 DEF CacheTypes, OwnInv, OwnFills, FillIcon
  <2>2. OwnIcon'
    <3>1. icon \in [Isus -> Users \cup {Nobody}]
      BY <1>0 DEF CacheTypes
    <3>2. \A i \in Isus : icon'[i] = IF i = f.isu THEN f.user ELSE icon[i]
      BY <2>1, <3>1, ExceptFacts
    <3> QED
      BY <1>1, <2>1, <3>2, SameRows DEF OwnInv, OwnIcon
  <2>3. OwnFills'
    BY <1>1, <2>1, SameRows DEF OwnInv, OwnFills
  <2>4. OwnRecord' /\ OwnOrder' /\ OwnJSON'
    BY <1>0, <1>2, <2>1, OwnCachesFrame DEF OwnInv
  <2>5. \A d \in Clients : OwnHandler(d)'
    BY <1>1, <1>2, <2>1, OwnHandlerFrame DEF Same
  <2> QED
    BY <1>0, <2>2, <2>3, <2>4, <2>5 DEF OwnInv
<1>4. ASSUME NEW x \in Conditions, WriteLatest(x.isu, x.at) PROVE OwnInv'
  <2>1. req' = Overtaken(x.isu, x.at) /\ UNCHANGED <<record, icon, order, listJSON, fills>>
    BY <1>4 DEF WriteLatest
  <2>2. \A d \in Clients : \A f \in Fields \ {"over"} :
            Overtaken(x.isu, x.at)[d][f] = req[d][f]
    BY <1>0, OvertakenFacts
  <2>3. \A d \in Clients : OwnHandler(d)'
    BY <1>1, <1>2, <2>1, <2>2, OwnHandlerFrame DEF Same
  <2>4. OwnRecord' /\ OwnIcon' /\ OwnOrder' /\ OwnJSON' /\ OwnFills'
    BY <1>0, <1>2, <2>1, OwnCachesFrame DEF OwnInv
  <2> QED
    BY <1>0, <2>3, <2>4 DEF OwnInv
<1>5. CASE LookUpOwner \/ DropJSON
  <2>1. UNCHANGED <<record, icon, order, fills, req>>
    BY <1>5 DEF LookUpOwner, DropJSON, caches
  <2>2. \A u \in Users : listJSON'[u] \subseteq listJSON[u]
    BY <1>0, <1>5 DEF LookUpOwner, DropJSON, caches, CacheTypes
  <2>3. OwnJSON'
    BY <1>1, <2>2, SameRows DEF OwnInv, OwnJSON
  <2>4. OwnRecord' /\ OwnIcon' /\ OwnOrder' /\ OwnFills'
    BY <1>0, <1>2, <2>1, OwnCachesFrame DEF OwnInv
  <2>5. \A d \in Clients : OwnHandler(d)'
    BY <1>1, <1>2, <2>1, OwnHandlerFrame DEF Same
  <2> QED
    BY <1>0, <2>3, <2>4, <2>5 DEF OwnInv
<1> QED
  BY <1>3, <1>4, <1>5

\* The seed of the caches is about the rows of the seed.
LEMMA OwnSeed ==
    ASSUME rows = Seed, record = SeedRecord, order = SeedOrder,
           icon = [i \in Isus |-> Nobody], listJSON = [u \in Users |-> {}], fills = {}
    PROVE  OwnRecord /\ OwnIcon /\ OwnOrder /\ OwnJSON /\ OwnFills
<1>1. OwnRecord
  BY SeedFacts DEF OwnRecord, SeedRecord, Owns, Id
<1>2. OwnIcon
  BY CatalogAssumption DEF OwnIcon, Nobody
<1>3. OwnOrder
  BY SeedFacts DEF OwnOrder, Owns
<1> QED
  BY <1>1, <1>2, <1>3 DEF OwnJSON, OwnFills

LEMMA OwnInit == ASSUME Init PROVE OwnInv
<1>1. OwnRecord /\ OwnIcon /\ OwnOrder /\ OwnJSON /\ OwnFills
  BY OwnSeed DEF Init
<1>2. \A c \in Clients : OwnHandler(c)
  BY IdleFacts DEF Init, OwnHandler, AllOwned, Answered, Serving
<1> QED
  BY <1>1, <1>2, TypeInvInit DEF OwnInv

LEMMA OwnRestart == ASSUME OwnInv, Restart PROVE OwnInv'
<1>1. /\ NoCaches /\ fills' = {} /\ req' = [c \in Clients |-> Idle] /\ TypeInv'
  BY TypeInvRestart DEF OwnInv, Restart
<1>2. OwnRecord' /\ OwnIcon' /\ OwnOrder' /\ OwnJSON' /\ OwnFills'
  BY <1>1, CatalogAssumption DEF NoCaches, NoRecord, Nobody, OwnRecord, OwnIcon,
     OwnOrder, OwnJSON, OwnFills
<1>3. \A c \in Clients : OwnHandler(c)'
  BY <1>1, IdleFacts DEF OwnHandler, AllOwned, Answered, Serving
<1> QED
  BY <1>1, <1>2, <1>3 DEF OwnInv

LEMMA OwnInitialize == ASSUME OwnInv, Initialize PROVE OwnInv'
<1>1. /\ rows' = Seed /\ record' = SeedRecord /\ order' = SeedOrder
      /\ icon' = [i \in Isus |-> Nobody] /\ listJSON' = [u \in Users |-> {}]
      /\ fills' = {} /\ req' = req /\ \A c \in Clients : req[c].pc = "idle"
      /\ TypeInv'
  BY TypeInvInitialize DEF OwnInv, Initialize
<1>2. OwnRecord'
  BY <1>1, SeedFacts DEF OwnRecord, SeedRecord, Owns, Id
<1>3. OwnIcon'
  BY <1>1, CatalogAssumption DEF OwnIcon, Nobody
<1>4. OwnOrder'
  BY <1>1, SeedFacts DEF OwnOrder, Owns
<1>5. OwnJSON' /\ OwnFills'
  BY <1>1 DEF OwnJSON, OwnFills
<1>6. ASSUME NEW c \in Clients PROVE OwnHandler(c)'
  <2>1. /\ req'[c].pc = "idle" /\ req'[c].due = {}
        /\ req'[c].todo = <<>> /\ req'[c].items = <<>>
    BY <1>1 DEF OwnInv, TypeInv, Place
  <2> QED
    BY <2>1 DEF OwnHandler, AllOwned, Answered, Serving
<1> QED
  BY <1>1, <1>2, <1>3, <1>4, <1>5, <1>6 DEF OwnInv

LEMMA OwnNext == OwnInv /\ [Next]_vars => OwnInv'
<1> SUFFICES ASSUME OwnInv, [Next]_vars PROVE OwnInv'
  OBVIOUS
<1>1. ASSUME NEW c \in Clients, Handle(c) PROVE OwnInv'
  <2>1. TypeInv'
    BY <1>1, HandleTyped, HandleCaches DEF OwnInv, TypeInv
  <2> QED
    BY <1>1, <2>1, OwnHandle, OwnHandleCaches DEF OwnInv
<1>2. CASE UNCHANGED vars
  <2>1. Stays /\ TypeInv'
    BY <1>2, StaysFrame, TypeInvNext DEF vars, OwnInv
  <2>2. \A d \in Clients : OwnHandler(d)'
    BY <1>2, <2>1, OwnHandlerFrame DEF vars, Same
  <2>3. OwnRecord' /\ OwnIcon' /\ OwnOrder' /\ OwnJSON' /\ OwnFills'
    BY <1>2, <2>1, OwnCachesFrame DEF vars, caches, OwnInv, TypeInv
  <2> QED
    BY <2>1, <2>2, <2>3 DEF OwnInv
<1> QED
  BY <1>1, <1>2, OwnRequest, OwnWriter, OwnRestart, OwnInitialize DEF Next

LEMMA OwnInvariant == Spec => []OwnInv
<1> QED
  BY OwnInit, OwnNext, PTL DEF Spec

\* Every answer of GET /api/isu, /api/isu/:id, its icon and its conditions is
\* about rows of the user who asked, whichever cache it was taken from, with
\* any number of users, clients, requests, restarts and initializes.
THEOREM CatalogOnlyOwnIsus == Spec => []OnlyOwnIsus
<1>1. OwnInv => OnlyOwnIsus
  <2> SUFFICES ASSUME OwnInv, NEW c \in Clients, NEW i \in Shown(c)
               PROVE  Owns(Me(c), i)
    BY DEF OnlyOwnIsus
  <2>1. PICK n \in DOMAIN req[c].items : req[c].items[n].isu = i
    BY DEF Shown, Range
  <2> QED
    BY <2>1 DEF OwnInv, OwnHandler, AllOwned
<1> QED
  BY <1>1, OwnInvariant, PTL

\* GET /api/isu/:id answers with the whole row of an ISU the user had when the
\* request came, although condition handlers put metadata without an id into
\* the cache the answer is taken from.
THEOREM CatalogDetailIsWhole == Spec => []DetailIsWhole
<1>1. OwnInv => DetailIsWhole
  BY DEF OwnInv, OwnHandler, DetailIsWhole
<1> QED
  BY <1>1, OwnInvariant, PTL

----------------------------------------------------------------------------
(* The owners and the latest conditions behind a JSON.                     *)

Known(u, s) == \A n \in DOMAIN s : owner[s[n].isu] = u
Fresh(s) == \A n \in DOMAIN s : s[n].at = latest[s[n].isu]

\* Who is about to drop the JSON that shows an older condition of i.
BeingDropped(i) ==
    \/ writer.pc # "idle" /\ writer.isu = i
    \/ \E c \in Clients : Serving(c, "list", "drop") /\ Subject(c) = i

\* A cached owner is the owner, and it is cached before the record is.
OwnerOwns == \A i \in Isus : owner[i] \in Users => Owns(owner[i], i)
WriterOwns == writer.pc = "drop" => Owns(writer.user, writer.isu)
RecordKnown == \A i \in Isus : record[i].user \in Users => owner[i] = record[i].user

\* A handler has cached the owner of the ISU it works on and, in a list, of
\* those it has done; these carry the latest conditions unless it was overtaken.
KnownPcs == {"record", "look", "latest", "drop", "again", "item", "knownItem"}
FreshHandler(c) ==
    /\ req[c].pc \in KnownPcs => owner[Subject(c)] = Me(c)
    /\ req[c].op = "list" /\ req[c].pc # "done" =>
           /\ Known(Me(c), req[c].items)
           /\ ~req[c].over => Fresh(req[c].items)

FreshJSON ==
    \A u \in Users : \A body \in listJSON[u] :
        /\ Known(u, body.items)
        /\ ~body.over => \A n \in DOMAIN body.items :
               \/ body.items[n].at = latest[body.items[n].isu]
               \/ BeingDropped(body.items[n].isu)

FreshInv == /\ OwnerOwns /\ WriterOwns /\ RecordKnown /\ FreshJSON
            /\ \A c \in Clients : FreshHandler(c)

LEMMA OneOwner ==
    ASSUME CacheTypes, NEW u \in Users, NEW v \in Users, NEW i \in Isus,
           Owns(u, i), Owns(v, i)
    PROVE  u = v
<1>1. PICK m \in DOMAIN rows : rows[m].isu = i /\ rows[m].user = u
  BY RowsFacts
<1>2. PICK n \in DOMAIN rows : rows[n].isu = i /\ rows[n].user = v
  BY RowsFacts
<1> QED
  BY <1>1, <1>2 DEF CacheTypes, Unique

\* A handler works on an ISU of its user.
LEMMA SubjectOwned ==
    ASSUME OwnInv, NEW c \in Clients,
           IF req[c].op = "list" THEN req[c].pc \in RowPcs
           ELSE req[c].pc \in {"owner", "record", "icon", "prepend"}
    PROVE  Subject(c) \in Isus /\ Owns(Me(c), Subject(c))
<1>1. OwnHandler(c) /\ Place(c) /\ TypeInv /\ req[c] \in Handlers
  BY DEF OwnInv, TypeInv
<1>2. CASE req[c].op = "list"
  <2>1. req[c].todo \in Seq(Items) /\ req[c].todo # <<>>
    BY <1>1, <1>2 DEF Handlers, Place
  <2>2. Owns(Me(c), Head(req[c].todo).isu)
    BY <1>1, <2>1, AllOwnedTail DEF OwnHandler
  <2>3. Subject(c) \in Isus
    BY <1>1, <1>2, SubjectFacts
  <2> QED
    BY <1>2, <2>2, <2>3 DEF Subject
<1>3. CASE req[c].op # "list"
  <2>1. req[c].op # "none"
    BY <1>1, <1>3 DEF Place, Fits
  <2>2. Subject(c) \in Isus
    BY <1>1, <1>3, <2>1, SubjectFacts
  <2> QED
    BY <1>1, <1>3, <2>2 DEF Subject, OwnHandler
<1> QED
  BY <1>2, <1>3

\* Whoever is cached as the owner of an ISU stays so.
OwnersStay == \A u \in Users : \A i \in Isus : owner[i] = u => owner'[i] = u

LEMMA OwnersStayFrame == ASSUME owner' = owner PROVE OwnersStay
BY DEF OwnersStay

LEMMA KnownKept ==
    ASSUME OwnersStay, NEW u \in Users, NEW s \in Seq(Items), Known(u, s)
    PROVE  Known(u, s)'
BY ItemFacts DEF Known, OwnersStay

LEMMA FreshOwnersFrame ==
    ASSUME OwnInv, FreshInv, Stays, owner' = owner
    PROVE  OwnerOwns' /\ (record' = record => RecordKnown')
                      /\ (writer' = writer => WriterOwns')
<1>1. \A i \in Isus : owner[i] \in Users => Owns(owner[i], i)'
  BY DEF FreshInv, OwnerOwns, Stays
<1>2. OwnerOwns'
  <2>1. \A i \in Isus : Owns(owner[i], i)' <=> [isu |-> i, user |-> owner[i]] \in Range(rows)'
    BY <1>1 DEF Owns
  <2> QED
    BY <1>1 DEF OwnerOwns
<1>3. ASSUME record' = record PROVE RecordKnown'
  BY <1>3 DEF FreshInv, RecordKnown
<1>4. ASSUME writer' = writer PROVE WriterOwns'
  <2>1. writer.pc = "drop" => writer.user \in Users /\ writer.isu \in Isus
    BY DEF OwnInv, TypeInv, CacheTypes
  <2>2. ASSUME NEW u, NEW i, writer.pc = "drop", u = writer.user, i = writer.isu
        PROVE  Owns(u, i)'
    BY <2>1, <2>2 DEF FreshInv, WriterOwns, Stays
  <2>3. writer.pc = "drop" => [isu |-> writer.isu, user |-> writer.user] \in Range(rows')
    BY <2>2 DEF Owns
  <2> QED
    BY <1>4, <2>3 DEF WriterOwns, Owns
<1> QED
  BY <1>2, <1>3, <1>4

\* No JSON is added and no latest condition changes.
LEMMA FreshJSONFrame ==
    ASSUME OwnInv, FreshInv, OwnersStay, latest' = latest,
           \A u \in Users : /\ listJSON'[u] \subseteq listJSON[u]
                            /\ \A body \in listJSON'[u] : \A n \in DOMAIN body.items :
                                  BeingDropped(body.items[n].isu) =>
                                      BeingDropped(body.items[n].isu)'
    PROVE  FreshJSON'
<1> SUFFICES ASSUME NEW u \in Users, NEW body \in listJSON'[u]
             PROVE  /\ Known(u, body.items)'
                    /\ ~body.over => \A n \in DOMAIN body.items :
                          \/ body.items[n].at = latest'[body.items[n].isu]
                          \/ BeingDropped(body.items[n].isu)'
  BY DEF FreshJSON, Known
<1>1. body \in listJSON[u] /\ body.items \in Seq(Items)
  BY DEF OwnInv, TypeInv, CacheTypes
<1>2. Known(u, body.items)'
  BY <1>1, KnownKept DEF FreshInv, FreshJSON
<1>3. ASSUME ~body.over, NEW n \in DOMAIN body.items
      PROVE  \/ body.items[n].at = latest'[body.items[n].isu]
             \/ BeingDropped(body.items[n].isu)'
  <2>1. \/ body.items[n].at = latest[body.items[n].isu]
        \/ BeingDropped(body.items[n].isu)
    BY <1>1, <1>3 DEF FreshInv, FreshJSON
  <2> QED
    BY <2>1
<1> QED
  BY <1>2, <1>3

\* The latest condition of i becomes t, and the JSON is about to be dropped.
LEMMA FreshJSONLatest ==
    ASSUME OwnInv, FreshInv, NEW i \in Isus, NEW t \in Nat, SetLatest(i, t),
           UNCHANGED <<owner, listJSON>>, BeingDropped(i)',
           \A j \in Isus : BeingDropped(j) => BeingDropped(j)'
    PROVE  FreshJSON'
<1> SUFFICES ASSUME NEW u \in Users, NEW body \in listJSON[u]
             PROVE  /\ Known(u, body.items)'
                    /\ ~body.over => \A n \in DOMAIN body.items :
                          \/ body.items[n].at = latest'[body.items[n].isu]
                          \/ BeingDropped(body.items[n].isu)'
  BY DEF FreshJSON, Known
<1>1. body.items \in Seq(Items)
  BY DEF OwnInv, TypeInv, CacheTypes
<1>2. Known(u, body.items)'
  BY <1>1, KnownKept, OwnersStayFrame DEF FreshInv, FreshJSON
<1>3. ASSUME ~body.over, NEW n \in DOMAIN body.items
      PROVE  \/ body.items[n].at = latest'[body.items[n].isu]
             \/ BeingDropped(body.items[n].isu)'
  <2>1. \/ body.items[n].at = latest[body.items[n].isu]
        \/ BeingDropped(body.items[n].isu)
    BY <1>3 DEF FreshInv, FreshJSON
  <2>2. body.items[n].isu \in Isus /\ latest \in [Isus -> Nat]
    BY <1>1, ItemFacts DEF OwnInv, TypeInv, CacheTypes
  <2>3. CASE body.items[n].isu = i
    BY <2>3
  <2>4. CASE body.items[n].isu # i
    BY <2>1, <2>2, <2>4 DEF SetLatest
  <2> QED
    BY <2>3, <2>4
<1> QED
  BY <1>2, <1>3

LEMMA FreshHandlerFrame ==
    ASSUME OwnInv, FreshInv, NEW d \in Clients, req'[d] = req[d],
           OwnersStay, UNCHANGED <<account, latest>>
    PROVE  FreshHandler(d)'
<1>1. FreshHandler(d) /\ req[d] \in Handlers /\ Me(d) \in Users /\ Me(d)' = Me(d)
  BY DEF OwnInv, TypeInv, CacheTypes, FreshInv, Me
<1>2. Subject(d)' = Subject(d)
  BY DEF Subject
<1>3. req[d].pc \in KnownPcs => Subject(d) \in Isus
  <2>1. ASSUME req[d].pc \in KnownPcs PROVE Subject(d) \in Isus
    <3>1. Place(d) /\ TypeInv
      BY DEF OwnInv, TypeInv
    <3>2. req[d].op # "none" /\ (req[d].op = "list" => req[d].pc \in RowPcs)
      BY <2>1, <3>1 DEF KnownPcs, RowPcs, Place, Fits
    <3> QED
      BY <3>1, <3>2, SubjectFacts
  <2> QED
    BY <2>1
<1>4. req'[d].pc \in KnownPcs => owner'[Subject(d)]= Me(d)
  BY <1>1, <1>3 DEF FreshHandler, OwnersStay
<1>5. ASSUME req[d].op = "list" /\ req[d].pc # "done"
      PROVE  Known(Me(d), req[d].items)' /\ (~req[d].over => Fresh(req[d].items)')
  <2>1. req[d].items \in Seq(Items)
    BY <1>1 DEF Handlers
  <2>2. Known(Me(d), req[d].items) /\ (~req[d].over => Fresh(req[d].items))
    BY <1>1, <1>5 DEF FreshHandler
  <2>3. \A n \in DOMAIN req[d].items : owner'[req[d].items[n].isu] = Me(d)
    BY <1>1, <2>1, <2>2, ItemFacts DEF Known, OwnersStay
  <2>4. Known(Me(d), req[d].items)'
    BY <1>1, <2>3 DEF Known
  <2>5. Fresh(req[d].items)' <=> Fresh(req[d].items)
    BY DEF Fresh
  <2> QED
    BY <2>2, <2>4, <2>5
<1> QED
  BY <1>1, <1>2, <1>4, <1>5 DEF FreshHandler

\* Steps of a handler that leave the owners and the latest conditions alone.
LEMMA FreshStep ==
    ASSUME OwnInv, FreshInv, NEW c \in Clients, Moved(c),
           UNCHANGED <<account, owner, latest>>,
           req'[c].pc \in KnownPcs => owner[Subject(c)'] = Me(c),
           req'[c].op = "list" /\ req'[c].pc # "done" =>
               \/ req'[c].items = <<>>
               \/ /\ req[c].op = "list" /\ req[c].pc # "done"
                  /\ req'[c].items = req[c].items /\ req'[c].over = req[c].over
    PROVE  \A d \in Clients : FreshHandler(d)'
<1>1. \A d \in Clients \ {c} : FreshHandler(d)'
  BY FreshHandlerFrame, OwnersStayFrame DEF Moved
<1>2. Me(c)' = Me(c) /\ FreshHandler(c)
  BY DEF Me, FreshInv
<1>3. req'[c].pc \in KnownPcs => owner'[Subject(c)'] = Me(c)'
  BY <1>2
<1>4. ASSUME req'[c].op = "list" /\ req'[c].pc # "done"
      PROVE  Known(Me(c), req[c].items)' /\ (~req'[c].over => Fresh(req[c].items)')
  <2>1. CASE req'[c].items = <<>>
    BY <2>1 DEF Known, Fresh
  <2>2. CASE /\ req[c].op = "list" /\ req[c].pc # "done"
             /\ req'[c].items = req[c].items /\ req'[c].over = req[c].over
    BY <1>2, <2>2 DEF Known, Fresh, FreshHandler
  <2> QED
    BY <1>4, <2>1, <2>2
<1>5. FreshHandler(c)'
  BY <1>3, <1>4 DEF FreshHandler
<1> QED
  BY <1>1, <1>5

LEMMA FreshSetOwner ==
    ASSUME OwnInv, FreshInv, NEW c \in Clients, SetOwner(c)
    PROVE  OwnersStay /\ OwnerOwns' /\ RecordKnown' /\ \A d \in Clients : FreshHandler(d)'
<1>0. /\ CacheTypes /\ Place(c) /\ req[c] \in Handlers /\ Me(c) \in Users
      /\ FreshHandler(c) /\ req \in [Clients -> Handlers] /\ Me(c)' = Me(c)
  BY DEF OwnInv, TypeInv, CacheTypes, FreshInv, Me, SetOwner
<1>1. Subject(c) \in Isus /\ Owns(Me(c), Subject(c))
  BY SubjectOwned DEF SetOwner, RowPcs
<1>2. /\ UNCHANGED <<account, rows, record, latest>>
      /\ owner \in [Isus -> Users \cup {Nobody}]
      /\ owner' = [owner EXCEPT ![Subject(c)] = Me(c)]
  BY <1>0 DEF SetOwner, CacheTypes
<1>3. \A i \in Isus : owner'[i] = IF i = Subject(c) THEN Me(c) ELSE owner[i]
  BY <1>2, ExceptFacts
<1>4. OwnersStay
  <2> SUFFICES ASSUME NEW u \in Users, NEW i \in Isus, owner[i] = u PROVE owner'[i] = u
    BY DEF OwnersStay
  <2>1. Owns(u, i)
    BY DEF FreshInv, OwnerOwns
  <2> QED
    BY <1>0, <1>1, <1>3, <2>1, OneOwner
<1>5. OwnerOwns'
  <2> SUFFICES ASSUME NEW i \in Isus, owner'[i] \in Users PROVE Owns(owner[i], i)'
    BY DEF OwnerOwns
  <2>1. [isu |-> i, user |-> owner'[i]] \in Range(rows)
    BY <1>1, <1>3 DEF FreshInv, OwnerOwns, Owns
  <2> QED
    BY <1>2, <2>1 DEF Owns
<1>6. RecordKnown'
  BY <1>2, <1>4 DEF FreshInv, RecordKnown, OwnersStay
<1>7. \A d \in Clients \ {c} : FreshHandler(d)'
  BY <1>0, <1>2, <1>4, StepFacts, FreshHandlerFrame DEF Moved, SetOwner
<1>8. PICK pc \in {"icon", "record"} : Step(c, To(pc))
  BY DEF SetOwner
<1>9. /\ req'[c].pc = pc /\ req'[c].op = req[c].op /\ req'[c].todo = req[c].todo
      /\ req'[c].items = req[c].items /\ req'[c].isu = req[c].isu
      /\ req'[c].over = req[c].over
  BY <1>0, <1>8, ToFacts DEF Same, Fields
<1>10. Subject(c)' = Subject(c)
  BY <1>9 DEF Subject
<1>11. owner'[Subject(c)'] = Me(c)'
  BY <1>0, <1>1, <1>3, <1>10
<1>12. ASSUME req[c].op = "list"
       PROVE  Known(Me(c), req[c].items)' /\ (~req[c].over => Fresh(req[c].items)')
  <2>1. req[c].items \in Seq(Items) /\ req[c].pc # "done"
    BY <1>0 DEF Handlers, SetOwner
  <2>2. Known(Me(c), req[c].items) /\ (~req[c].over => Fresh(req[c].items))
    BY <1>0, <1>12, <2>1 DEF FreshHandler
  <2>3. \A n \in DOMAIN req[c].items : owner'[req[c].items[n].isu] = Me(c)
    BY <1>0, <1>4, <2>1, <2>2, ItemFacts DEF Known, OwnersStay
  <2>4. Known(Me(c), req[c].items)'
    BY <1>0, <1>9, <2>3 DEF Known
  <2>5. Fresh(req[c].items)' <=> Fresh(req[c].items)
    BY <1>2, <1>9 DEF Fresh
  <2> QED
    BY <2>2, <2>4, <2>5
<1>13. FreshHandler(c)'
  BY <1>9, <1>11, <1>12 DEF FreshHandler
<1> QED
  BY <1>4, <1>5, <1>6, <1>7, <1>13

\* A handler that goes on, or answers, with the same ISU.
LEMMA FreshGoesOn ==
    ASSUME OwnInv, FreshInv, NEW c \in Clients, Moved(c),
           UNCHANGED <<account, owner, latest>>,
           Same(c, {"op", "isu", "todo", "over"}),
           req'[c].pc = "done" \/ (Same(c, {"items"}) /\ req[c].pc # "done"),
           req'[c].pc \in KnownPcs => req[c].pc \in KnownPcs
    PROVE  \A d \in Clients : FreshHandler(d)'
<1>1. Subject(c)' = Subject(c)
  BY DEF Subject, Same
<1>2. req'[c].pc \in KnownPcs => owner[Subject(c)'] = Me(c)
  BY <1>1 DEF FreshInv, FreshHandler
<1> QED
  BY <1>2, FreshStep DEF Same

LEMMA FreshOne ==
    ASSUME OwnInv, FreshInv, NEW c \in Clients,
           SelectRow(c) \/ SetRecord(c) \/ SetIcon(c) \/ StartFill(c) \/ Prepend(c)
              \/ LookLatest(c) \/ FillDrop(c) \/ SetOrder(c) \/ SetJSON(c)
    PROVE  \A d \in Clients : FreshHandler(d)'
<1>0. req \in [Clients -> Handlers] /\ Place(c) /\ UNCHANGED <<account, owner, latest>>
  BY DEF OwnInv, TypeInv, SelectRow, SetRecord, SetIcon, StartFill, Prepend, LookLatest,
     FillDrop, SetOrder, SetJSON, caches
<1>1. ASSUME NEW pc, Step(c, To(pc)), req[c].pc # "done",
             pc \in KnownPcs => req[c].pc \in KnownPcs
      PROVE  \A d \in Clients : FreshHandler(d)'
  BY <1>0, <1>1, ToFacts, FreshGoesOn DEF Same, Fields
<1>2. ASSUME NEW items, Step(c, Reply(items))
      PROVE  \A d \in Clients : FreshHandler(d)'
  <2>1. "done" \notin KnownPcs
    BY DEF KnownPcs
  <2>2. /\ Moved(c) /\ req'[c].pc = "done" /\ req'[c].op = req[c].op
        /\ req'[c].isu = req[c].isu /\ req'[c].todo = req[c].todo
        /\ req'[c].over = req[c].over
    BY <1>0, <1>2, ReplyFacts DEF Same, Fields
  <2>3. req'[c].pc \in KnownPcs => req[c].pc \in KnownPcs
    BY <2>1, <2>2
  <2>4. Same(c, {"op", "isu", "todo", "over"})
    BY <2>2 DEF Same
  <2> QED
    BY <1>0, <2>2, <2>3, <2>4, FreshGoesOn
<1>3. CASE SelectRow(c)
  <2>1. Step(c, To("owner")) \/ Step(c, Reply(<<>>))
    BY <1>3 DEF SelectRow
  <2> QED
    BY <1>1, <1>2, <1>3, <2>1 DEF SelectRow, KnownPcs
<1>4. CASE SetRecord(c)
  <2>1. \/ Step(c, To("icon")) \/ Step(c, To("look"))
        \/ Step(c, Reply(<<Plain(Subject(c), Id(Subject(c)))>>))
    BY <1>4 DEF SetRecord
  <2> QED
    BY <1>1, <1>2, <1>4, <2>1 DEF SetRecord, KnownPcs
<1>5. CASE SetIcon(c)
  BY <1>1, <1>5 DEF SetIcon, Serving, KnownPcs
<1>6. CASE StartFill(c) \/ Prepend(c)
  BY <1>2, <1>6 DEF StartFill, Prepend
<1>7. CASE LookLatest(c)
  <2>1. Step(c, To("latest")) \/ Step(c, To("again"))
    BY <1>7 DEF LookLatest
  <2> QED
    BY <1>1, <1>7, <2>1 DEF LookLatest, Serving, KnownPcs
<1>8. CASE FillDrop(c)
  BY <1>1, <1>8 DEF FillDrop, Serving, KnownPcs
<1>9. CASE SetOrder(c) \/ SetJSON(c)
  <2>1. Step(c, To("setJSON")) \/ Step(c, To("done"))
    BY <1>9 DEF SetOrder, SetJSON
  <2> QED
    BY <1>1, <1>9, <2>1 DEF SetOrder, SetJSON, Serving, KnownPcs
<1> QED
  BY <1>3, <1>4, <1>5, <1>6, <1>7, <1>8, <1>9

LEMMA HeadOfCons ==
    ASSUME NEW x \in Items, NEW s \in Seq(Items) PROVE Head(<<x>> \o s) = x
<1>1. /\ <<x>> \in Seq(Items) /\ Len(<<x>>) = 1 /\ <<x>>[1] = x /\ Len(s) \in Nat
  BY LenProperties
<1>2. /\ <<x>> \o s \in Seq(Items) /\ Len(<<x>> \o s) = 1 + Len(s)
      /\ (<<x>> \o s)[1] = x
  BY <1>1, ConcatProperties
<1>3. <<x>> \o s # <<>>
  BY <1>1, <1>2, EmptySeq
<1> QED
  BY <1>2, <1>3, HeadTailProperties

LEMMA FreshList ==
    ASSUME OwnInv, FreshInv, NEW c \in Clients,
           ReadOrder(c) \/ ReadRecord(c) \/ SelectList(c) \/ ReadBack(c)
    PROVE  \A d \in Clients : FreshHandler(d)'
<1>0. /\ req \in [Clients -> Handlers] /\ Place(c) /\ UNCHANGED <<account, owner, latest>>
      /\ req[c].op = "list" /\ req[c].pc # "done" /\ Me(c) \in Users /\ CacheTypes
      /\ FreshHandler(c) /\ TypeInv
  BY DEF OwnInv, TypeInv, CacheTypes, ReadOrder, ReadRecord, SelectList, ReadBack,
     caches, Serving, Me, FreshInv
<1>1. ASSUME NEW pc, NEW todo, Step(c, [pc |-> pc, todo |-> todo]),
             pc \in KnownPcs => owner[Head(todo).isu] = Me(c)
      PROVE  \A d \in Clients : FreshHandler(d)'
  <2>1. /\ Moved(c) /\ req'[c].pc = pc /\ req'[c].todo = todo
        /\ req'[c].items = req[c].items /\ req'[c].over = req[c].over
        /\ req'[c].op = "list"
    BY <1>0, <1>1, StepFacts DEF Fields
  <2>2. Subject(c)' = Head(todo).isu
    BY <2>1 DEF Subject
  <2> QED
    BY <1>0, <1>1, <2>1, <2>2, FreshStep
\* The ISU in work gets an id.
<1>2. ASSUME NEW pc, NEW id \in Nat, req[c].pc \in RowPcs, owner[Subject(c)] = Me(c),
             Step(c, [pc |-> pc, todo |-> <<Plain(Subject(c), id)>> \o Tail(req[c].todo)])
      PROVE  \A d \in Clients : FreshHandler(d)'
  <2>1. Subject(c) \in Isus /\ Tail(req[c].todo) \in Seq(Items)
    BY <1>0, <1>2, SubjectFacts
  <2>2. Plain(Subject(c), id) \in Items /\ Plain(Subject(c), id).isu = Subject(c)
    BY <2>1, PlainFacts
  <2>3. Head(<<Plain(Subject(c), id)>> \o Tail(req[c].todo)) = Plain(Subject(c), id)
    BY <2>1, <2>2, HeadOfCons
  <2> QED
    BY <1>1, <1>2, <2>2, <2>3
<1>3. CASE ReadOrder(c)
  <2>1. CASE \E o \in order[Me(c)] :
                Step(c, [pc |-> IF o = <<>> THEN "setJSON" ELSE "known",
                         todo |-> [n \in DOMAIN o |-> Plain(o[n], Partial)]])
    <3>1. PICK o \in order[Me(c)] :
              Step(c, [pc |-> IF o = <<>> THEN "setJSON" ELSE "known",
                       todo |-> [n \in DOMAIN o |-> Plain(o[n], Partial)]])
      BY <2>1
    <3> QED
      BY <1>1, <3>1 DEF KnownPcs
  <2>2. CASE Step(c, To("select"))
    <3>1. /\ Moved(c) /\ req'[c].pc = "select" /\ req'[c].items = req[c].items
          /\ req'[c].over = req[c].over
      BY <1>0, <2>2, ToFacts DEF Same, Fields
    <3> QED
      BY <1>0, <3>1, FreshStep DEF KnownPcs
  <2> QED
    BY <1>3, <2>1, <2>2 DEF ReadOrder
<1>4. CASE ReadRecord(c)
  <2>0. req[c].pc \in RowPcs
    BY <1>4 DEF ReadRecord, Serving, RowPcs
  <2>1. Subject(c) \in Isus
    BY <1>0, <2>0, SubjectFacts
  <2>2. ASSUME NEW r \in RecordOf(Me(c), Subject(c)),
               Step(c, [pc |-> "knownItem",
                        todo |-> <<Plain(Subject(c), r.id)>> \o Tail(req[c].todo)])
        PROVE  \A d \in Clients : FreshHandler(d)'
    <3>1. r = record[Subject(c)] /\ r.user = Me(c) /\ r.id \in Nat
      BY <1>0, <2>1 DEF RecordOf, CacheTypes
    <3>2. owner[Subject(c)] = Me(c)
      BY <1>0, <2>1, <3>1 DEF FreshInv, RecordKnown
    <3> QED
      BY <1>2, <2>0, <2>2, <3>1, <3>2
  <2>3. CASE Step(c, [pc |-> "select", todo |-> <<>>, items |-> <<>>, over |-> FALSE])
    <3>1. Moved(c) /\ req'[c].pc = "select" /\ req'[c].items = <<>>
      BY <1>0, <2>3, StepFacts DEF Fields
    <3> QED
      BY <1>0, <3>1, FreshStep DEF KnownPcs
  <2> QED
    BY <1>4, <2>2, <2>3 DEF ReadRecord
<1>5. CASE SelectList(c)
  <2>1. PICK saved \in Saved :
            Step(c, [pc |-> IF ListOf(Me(c), saved) = <<>> THEN "setOrder" ELSE "owner",
                     todo |-> ListOf(Me(c), saved)])
    BY <1>5 DEF SelectList
  <2> QED
    BY <1>1, <2>1 DEF KnownPcs
<1>6. CASE ReadBack(c)
  <2> DEFINE id == IF RecordOf(Me(c), Subject(c)) = {} THEN Partial
                   ELSE record[Subject(c)].id
  <2>1. /\ req[c].pc \in RowPcs /\ req[c].pc \in KnownPcs
        /\ Step(c, [pc |-> "item", todo |-> <<Plain(Subject(c), id)>> \o Tail(req[c].todo)])
    BY <1>6 DEF ReadBack, Serving, RowPcs, KnownPcs
  <2>2. Subject(c) \in Isus
    BY <1>0, <2>1, SubjectFacts
  <2>3. id \in Nat
    BY <1>0, <2>2 DEF CacheTypes, Partial
  <2> HIDE DEF id
  <2> QED
    BY <1>0, <1>2, <2>1, <2>3 DEF FreshHandler
<1> QED
  BY <1>3, <1>4, <1>5, <1>6

LEMMA AppendFacts ==
    ASSUME NEW s \in Seq(Items), NEW x \in Items
    PROVE  /\ Append(s, x) \in Seq(Items)
           /\ \A n \in DOMAIN Append(s, x) :
                 \/ n \in DOMAIN s /\ Append(s, x)[n] = s[n]
                 \/ n = Len(s) + 1 /\ Append(s, x)[n] = x
           /\ DOMAIN s \subseteq DOMAIN Append(s, x)
           /\ Len(s) + 1 \in DOMAIN Append(s, x) /\ Append(s, x)[Len(s) + 1] = x
           /\ \A n \in DOMAIN s : n \in Nat /\ n < Len(s) + 1
<1>1. /\ Append(s, x) \in Seq(Items) /\ Len(Append(s, x)) = Len(s) + 1
      /\ \A n \in 1..Len(s) : Append(s, x)[n] = s[n]
      /\ Append(s, x)[Len(s) + 1] = x
  BY AppendProperties
<1>2. /\ DOMAIN s = 1..Len(s) /\ DOMAIN Append(s, x) = 1..(Len(s) + 1) /\ Len(s) \in Nat
  BY <1>1, LenProperties
<1>3. \A n \in 1..(Len(s) + 1) : n \in 1..Len(s) \/ n = Len(s) + 1
  BY <1>2
<1>4. Len(s) + 1 \in 1..(Len(s) + 1) /\ 1..Len(s) \subseteq 1..(Len(s) + 1)
  BY <1>2
<1>5. \A n \in 1..Len(s) : n \in Nat /\ n < Len(s) + 1
  BY <1>2
<1> QED
  BY <1>1, <1>2, <1>3, <1>4, <1>5

LEMMA FreshBuild ==
    ASSUME OwnInv, FreshInv, NEW c \in Clients, BuildItem(c)
    PROVE  \A d \in Clients : FreshHandler(d)'
<1> DEFINE x == [Head(req[c].todo) EXCEPT !.at = latest[Subject(c)]]
           pc == CASE req[c].pc = "item" /\ Tail(req[c].todo) # <<>> -> "owner"
                   [] req[c].pc = "item" /\ Tail(req[c].todo) = <<>> -> "setOrder"
                   [] req[c].pc = "knownItem" /\ Tail(req[c].todo) # <<>> -> "known"
                   [] OTHER -> "setJSON"
<1>0. /\ req \in [Clients -> Handlers] /\ Place(c) /\ UNCHANGED <<account, owner, latest>>
      /\ req[c].pc \in {"item", "knownItem"} /\ Me(c) \in Users /\ CacheTypes
      /\ FreshHandler(c) /\ TypeInv /\ Me(c)' = Me(c)
  BY DEF OwnInv, TypeInv, CacheTypes, BuildItem, caches, Me, FreshInv
<1>1. /\ req[c].op = "list" /\ req[c].pc \in RowPcs /\ req[c].pc \in KnownPcs
      /\ req[c].pc # "done"
  BY <1>0 DEF Place, Fits, RowPcs, KnownPcs, Handlers, Ops
<1>2. /\ Subject(c) \in Isus /\ Head(req[c].todo) \in Items
      /\ Subject(c) = Head(req[c].todo).isu
  BY <1>0, <1>1, SubjectFacts
<1>3. x \in Items /\ x.isu = Subject(c) /\ x.at = latest[Subject(c)]
  BY <1>0, <1>2 DEF Items, CacheTypes
<1>4. req[c].items \in Seq(Items)
  BY <1>0 DEF Handlers
<1>5. pc \notin KnownPcs
  BY <1>0 DEF KnownPcs
<1>6. Step(c, [todo |-> Tail(req[c].todo), items |-> Append(req[c].items, x), pc |-> pc])
  BY DEF BuildItem
<1> HIDE DEF x, pc
<1>7. /\ Moved(c) /\ req'[c].pc = pc /\ req'[c].items = Append(req[c].items, x)
      /\ req'[c].over = req[c].over
  BY <1>0, <1>6, StepFacts DEF Fields
<1>8. /\ owner[Subject(c)] = Me(c) /\ Known(Me(c), req[c].items)
      /\ ~req[c].over => Fresh(req[c].items)
  BY <1>0, <1>1 DEF FreshHandler
<1>9. Known(Me(c), req'[c].items)
  BY <1>3, <1>4, <1>7, <1>8, AppendFacts DEF Known
<1>10. ~req[c].over => Fresh(req'[c].items)
  BY <1>3, <1>4, <1>7, <1>8, AppendFacts DEF Fresh
<1>11. Known(Me(c), req[c].items)' /\ (~req'[c].over => Fresh(req[c].items)')
  BY <1>0, <1>7, <1>9, <1>10 DEF Known, Fresh
<1>12. FreshHandler(c)'
  BY <1>5, <1>7, <1>11 DEF FreshHandler
<1> QED
  BY <1>0, <1>7, <1>12, FreshHandlerFrame, OwnersStayFrame DEF Moved

\* A new latest condition of i: the lists that show another one are overtaken.
LEMMA FreshOvertaken ==
    ASSUME OwnInv, FreshInv, NEW i \in Isus, NEW t \in Nat, SetLatest(i, t),
           NEW d \in Clients, UNCHANGED <<account, owner>>,
           Same(d, {"op", "isu", "todo", "items"}),
           req'[d].over = Overtaken(i, t)[d].over,
           \/ req'[d].pc = req[d].pc
           \/ req[d].pc = "latest" /\ req'[d].pc = "drop"
    PROVE  FreshHandler(d)'
<1>1. /\ FreshHandler(d) /\ req[d] \in Handlers /\ Me(d)' = Me(d)
      /\ latest \in [Isus -> Nat] /\ latest' = [latest EXCEPT ![i] = t]
  BY DEF OwnInv, TypeInv, CacheTypes, FreshInv, Me, SetLatest
<1>2. Subject(d)' = Subject(d)
  BY DEF Subject, Same
<1>3. req'[d].pc \in KnownPcs => owner'[Subject(d)'] = Me(d)'
  BY <1>1, <1>2 DEF FreshHandler, KnownPcs
<1>4. ASSUME req[d].op = "list", req[d].pc # "done"
      PROVE  Known(Me(d), req[d].items)' /\ (~req'[d].over => Fresh(req[d].items)')
  <2>1. Known(Me(d), req[d].items) /\ (~req[d].over => Fresh(req[d].items))
    BY <1>1, <1>4 DEF FreshHandler
  <2>2. Known(Me(d), req[d].items)'
    BY <1>1, <2>1 DEF Known, Same
  <2>3. req[d].items \in Seq(Items) /\ req[d].over \in BOOLEAN
    BY <1>1 DEF Handlers
  <2>4. ASSUME ~req'[d].over, NEW n \in DOMAIN req[d].items
        PROVE  req[d].items[n].at = latest'[req[d].items[n].isu]
    <3>1. /\ ~req[d].over
          /\ ~\E x \in Range(req[d].items) : x.isu = i /\ x.at # t
      BY <1>1, <1>4, <2>3, <2>4 DEF Overtaken, Handlers
    <3>2. req[d].items[n].isu \in Isus /\ req[d].items[n] \in Range(req[d].items)
      BY <2>3, ItemFacts DEF Range
    <3>3. latest'[req[d].items[n].isu] =
              IF req[d].items[n].isu = i THEN t ELSE latest[req[d].items[n].isu]
      BY <1>1, <3>2, ExceptFacts
    <3> QED
      BY <2>1, <3>1, <3>2, <3>3 DEF Fresh
  <2>5. ~req'[d].over => Fresh(req[d].items)'
    BY <2>4 DEF Fresh, Same
  <2> QED
    BY <2>2, <2>5
<1> QED
  BY <1>3, <1>4 DEF FreshHandler, Same

LEMMA BeingDroppedFrame ==
    ASSUME NEW c \in Clients, Moved(c), writer' = writer, ~Serving(c, "list", "drop")
    PROVE  \A i \in Isus : BeingDropped(i) => BeingDropped(i)'
<1> SUFFICES ASSUME NEW i \in Isus, BeingDropped(i) PROVE BeingDropped(i)'
  OBVIOUS
<1>1. CASE writer.pc # "idle" /\ writer.isu = i
  BY <1>1 DEF BeingDropped
<1>2. CASE \E d \in Clients : Serving(d, "list", "drop") /\ Subject(d) = i
  <2>1. PICK d \in Clients \ {c} : Serving(d, "list", "drop") /\ Subject(d) = i
    BY <1>2
  <2>2. req'[d] = req[d]
    BY <2>1 DEF Moved
  <2>3. Serving(d, "list", "drop")' /\ Subject(d)' = i
    BY <2>1, <2>2 DEF Serving, Subject
  <2> QED
    BY <2>3 DEF BeingDropped
<1> QED
  BY <1>1, <1>2 DEF BeingDropped

LEMMA FreshFill ==
    ASSUME OwnInv, FreshInv, NEW c \in Clients, FillLatest(c)
    PROVE  FreshJSON' /\ \A d \in Clients : FreshHandler(d)'
<1> DEFINE row == Head(req[c].todo)
           over == Overtaken(row.isu, row.at)
<1>0. /\ req \in [Clients -> Handlers] /\ TypeInv /\ Serving(c, "list", "latest")
      /\ UNCHANGED <<account, rows, owner, record, listJSON, writer>>
  BY DEF OwnInv, TypeInv, FillLatest
<1>1. Head(req[c].todo) \in Items /\ Subject(c) = row.isu
  BY <1>0, SubjectFacts DEF Serving, RowPcs
<1>2. row.isu \in Isus /\ row.at \in Nat
  BY <1>1 DEF Items
<1>3. CASE Step(c, To("again")) /\ latest' = latest
  <2>1. /\ Moved(c) /\ req'[c].pc = "again" /\ Same(c, Fields \ {"pc"})
    BY <1>0, <1>3, ToFacts
  <2>2. \A d \in Clients : FreshHandler(d)'
    BY <1>0, <1>3, <2>1, FreshGoesOn DEF Same, Fields, Serving, KnownPcs
  <2>3. \A i \in Isus : BeingDropped(i) => BeingDropped(i)'
    BY <1>0, <2>1, BeingDroppedFrame DEF Serving
  <2>4. \A u \in Users : \A body \in listJSON[u] : \A n \in DOMAIN body.items :
            body.items[n].isu \in Isus
    BY <1>0, ItemFacts DEF TypeInv, CacheTypes
  <2>5. FreshJSON'
    BY <1>0, <1>3, <2>3, <2>4, FreshJSONFrame, OwnersStayFrame
  <2> QED
    BY <2>2, <2>5
<1>4. CASE SetLatest(row.isu, row.at) /\ req' = [over EXCEPT ![c].pc = "drop"]
  <2>1. \A d \in Clients : over[d] \in Handlers /\
            \A f \in Fields \ {"over"} : over[d][f] = req[d][f]
    BY <1>0, OvertakenFacts
  <2>2. DOMAIN over = Clients
    BY DEF Overtaken
  <2> HIDE DEF over
  <2>3. /\ \A d \in Clients \ {c} : req'[d] = over[d]
        /\ req'[c] = [over[c] EXCEPT !.pc = "drop"]
    BY <1>4, <2>2
  <2>4. /\ req'[c].pc = "drop" /\ Same(c, {"op", "isu", "todo", "items"})
        /\ req'[c].over = over[c].over
    BY <2>1, <2>3 DEF Handlers, Fields, Same
  <2>5. \A d \in Clients \ {c} : /\ Same(d, {"op", "isu", "todo", "items", "pc"})
                                 /\ req'[d].over = over[d].over
    BY SMTT(30), <2>1, <2>3 DEF Handlers, Fields, Same
  <2>6. ASSUME NEW d \in Clients PROVE FreshHandler(d)'
    <3>1. Same(d, {"op", "isu", "todo", "items"}) /\ req'[d].over = over[d].over
      BY <2>4, <2>5 DEF Same
    <3>2. \/ req'[d].pc = req[d].pc
          \/ req[d].pc = "latest" /\ req'[d].pc = "drop"
      BY <1>0, <2>4, <2>5 DEF Same, Serving
    <3> QED
      BY <1>0, <1>2, <1>4, <3>1, <3>2, FreshOvertaken DEF over
  <2>7. Serving(c, "list", "drop")' /\ Subject(c)' = row.isu
    <3>1. Subject(c)' = Subject(c)
      BY <2>4 DEF Subject, Same
    <3> QED
      BY <1>0, <1>1, <2>4, <3>1 DEF Serving, Same
  <2>8. PICK i \in Isus : i = row.isu
    BY <1>2
  <2>11. BeingDropped(i)'
    BY <2>7, <2>8 DEF BeingDropped
  <2>9. ASSUME NEW j \in Isus, BeingDropped(j) PROVE BeingDropped(j)'
    <3>1. CASE writer.pc # "idle" /\ writer.isu = j
      BY <1>0, <3>1 DEF BeingDropped
    <3>2. CASE \E d \in Clients : Serving(d, "list", "drop") /\ Subject(d) = j
      <4>1. PICK d \in Clients \ {c} : Serving(d, "list", "drop") /\ Subject(d) = j
        BY <1>0, <3>2 DEF Serving
      <4>2. Serving(d, "list", "drop")' /\ Subject(d)' = j
        BY <2>5, <4>1 DEF Same, Serving, Subject
      <4> QED
        BY <4>2 DEF BeingDropped
    <3> QED
      BY <2>9, <3>1, <3>2 DEF BeingDropped
  <2>10. FreshJSON'
    <3>1. SetLatest(i, row.at) /\ UNCHANGED <<owner, listJSON>>
      BY <1>0, <1>4, <2>8
    <3> HIDE DEF row
    <3> QED
      BY <1>2, <2>9, <2>11, <3>1, FreshJSONLatest
  <2> QED
    BY <2>6, <2>10
<1> QED
  BY <1>3, <1>4 DEF FillLatest

LEMMA FreshHandle ==
    ASSUME OwnInv, FreshInv, NEW c \in Clients, Handle(c)
    PROVE  FreshInv'
<1>0. /\ TypeInv /\ CacheTypes /\ req \in [Clients -> Handlers] /\ Place(c)
      /\ Me(c) \in Users /\ OwnHandler(c) /\ FreshHandler(c)
      /\ listJSON \in [Users -> SUBSET [items : Seq(Items), over : BOOLEAN]]
  BY DEF OwnInv, TypeInv, CacheTypes, Me, FreshInv
<1>1. UNCHANGED <<account, rows, writer>> /\ Stays
  BY StaysFrame DEF Handle, SelectRow, SetOwner, SetRecord, SetIcon, StartFill, Prepend,
     ReadOrder, ReadRecord, SelectList, LookLatest, FillLatest, FillDrop, ReadBack,
     BuildItem, SetOrder, SetJSON, Done
<1>2. \A u \in Users : \A body \in listJSON[u] : \A n \in DOMAIN body.items :
          body.items[n].isu \in Isus /\ Owns(u, body.items[n].isu)
  <2> SUFFICES ASSUME NEW u \in Users, NEW body \in listJSON[u], NEW n \in DOMAIN body.items
               PROVE  body.items[n].isu \in Isus /\ Owns(u, body.items[n].isu)
    OBVIOUS
  <2>1. body.items \in Seq(Items) /\ AllOwned(u, body.items)
    BY <1>0 DEF OwnInv, OwnJSON
  <2> QED
    BY <2>1, ItemFacts DEF AllOwned
<1>3. ASSUME ~SetOwner(c) PROVE owner' = owner
  BY <1>3 DEF Handle, SelectRow, SetRecord, SetIcon, StartFill, Prepend,
     ReadOrder, ReadRecord, SelectList, LookLatest, FillLatest, FillDrop, ReadBack,
     BuildItem, SetOrder, SetJSON, Done, caches
<1>4. ASSUME ~SetRecord(c) PROVE record' = record
  BY <1>4 DEF Handle, SelectRow, SetOwner, SetIcon, StartFill, Prepend,
     ReadOrder, ReadRecord, SelectList, LookLatest, FillLatest, FillDrop, ReadBack,
     BuildItem, SetOrder, SetJSON, Done, caches
<1>5. ASSUME ~FillLatest(c) PROVE latest' = latest
  BY <1>5 DEF Handle, SelectRow, SetOwner, SetRecord, SetIcon, StartFill, Prepend,
     ReadOrder, ReadRecord, SelectList, LookLatest, FillDrop, ReadBack,
     BuildItem, SetOrder, SetJSON, Done, caches
<1>6. ASSUME ~FillLatest(c) PROVE Moved(c)
  <2>1. CASE Done(c)
    <3>1. req' = [req EXCEPT ![c] = Idle] /\ DOMAIN Idle = Fields
      BY <2>1 DEF Done, Idle, Fields
    <3>2. req'[c] = Idle /\ req' \in [Clients -> Handlers]
      BY <1>0, <3>1, IdleFacts
    <3>3. Idle = [f \in Fields |-> Idle[f]]
      BY DEF Idle, Fields
    <3> QED
      BY <1>0, <3>1, <3>2, <3>3 DEF Moved
  <2>2. CASE ~Done(c)
    <3>1. \E changes : Step(c, changes)
      BY <1>6, <2>2 DEF Handle, SelectRow, SetOwner, SetRecord, SetIcon, StartFill,
         Prepend, ReadOrder, ReadRecord, SelectList, LookLatest, FillDrop, ReadBack,
         BuildItem, SetOrder, SetJSON
    <3> QED
      BY <1>0, <3>1, StepFacts
  <2> QED
    BY <2>1, <2>2
<1>7. OwnerOwns' /\ WriterOwns' /\ RecordKnown' /\ OwnersStay
  <2>1. CASE SetOwner(c)
    <3>1. OwnersStay /\ OwnerOwns' /\ RecordKnown'
      BY <2>1, FreshSetOwner
    <3>2. WriterOwns'
      BY <1>1 DEF FreshInv, WriterOwns, Owns
    <3> QED
      BY <3>1, <3>2
  <2>2. CASE SetRecord(c)
    <3>1. owner' = owner /\ OwnersStay
      BY <2>2, OwnersStayFrame DEF SetRecord
    <3>2. OwnerOwns' /\ WriterOwns'
      BY <1>1, <3>1, FreshOwnersFrame
    <3>3. req[c].pc = "record" /\ "record" \in KnownPcs
      BY <2>2 DEF SetRecord, KnownPcs
    <3>4. owner[Subject(c)] = Me(c)
      BY <1>0, <3>3 DEF FreshHandler
    <3>5. \A i \in Isus : record'[i].user = IF i = Subject(c) THEN Me(c) ELSE record[i].user
      BY <1>0, <2>2 DEF SetRecord, CacheTypes
    <3>6. RecordKnown'
      BY <3>1, <3>4, <3>5 DEF FreshInv, RecordKnown
    <3> QED
      BY <3>1, <3>2, <3>6
  <2>3. CASE ~SetOwner(c) /\ ~SetRecord(c)
    BY <1>1, <1>3, <1>4, <2>3, FreshOwnersFrame, OwnersStayFrame
  <2> QED
    BY <2>1, <2>2, <2>3
<1>8. \A d \in Clients : FreshHandler(d)'
  <2>1. CASE Done(c)
    <3>1. req'[c].pc = "idle" /\ req'[c].op = "none" /\ UNCHANGED <<account, owner, latest>>
      BY <1>0, <2>1, IdleFacts DEF Done, caches
    <3>2. "idle" \notin KnownPcs /\ ~FillLatest(c)
      BY <2>1 DEF KnownPcs, Done, FillLatest, Serving
    <3> QED
      BY <1>6, <3>1, <3>2, FreshStep
  <2>2. CASE ~Done(c)
    BY <2>2, FreshSetOwner, FreshOne, FreshList, FreshBuild, FreshFill DEF Handle
  <2> QED
    BY <2>1, <2>2
<1>9. FreshJSON'
  <2>1. CASE FillLatest(c)
    BY <2>1, FreshFill
  <2>2. CASE SetJSON(c)
    <3> DEFINE body == [items |-> req[c].items, over |-> req[c].over]
    <3>1. /\ listJSON' = [listJSON EXCEPT ![Me(c)] = {body}] /\ Serving(c, "list", "setJSON")
          /\ UNCHANGED <<owner, latest>>
      BY <2>2 DEF SetJSON
    <3>2. \A u \in Users : listJSON'[u] = IF u = Me(c) THEN {body} ELSE listJSON[u]
      BY <1>0, <3>1
    <3>3. ~FillLatest(c) /\ ~Serving(c, "list", "drop")
      BY <3>1 DEF FillLatest, Serving
    <3>4. \A i \in Isus : BeingDropped(i) => BeingDropped(i)'
      BY <1>1, <1>6, <3>3, BeingDroppedFrame
    <3>5. /\ Known(Me(c), req[c].items) /\ (~req[c].over => Fresh(req[c].items))
          /\ body.items = req[c].items /\ body.over = req[c].over
      BY <1>0, <3>1 DEF FreshHandler, Serving
    <3> HIDE DEF body
    <3> SUFFICES ASSUME NEW u \in Users, NEW b \in listJSON'[u]
                 PROVE  /\ Known(u, b.items)'
                        /\ ~b.over => \A n \in DOMAIN b.items :
                              \/ b.items[n].at = latest'[b.items[n].isu]
                              \/ BeingDropped(b.items[n].isu)'
      BY DEF FreshJSON, Known
    <3>6. CASE u = Me(c)
      <4>1. b = body
        BY <3>2, <3>6
      <4> QED
        BY <3>1, <3>5, <3>6, <4>1 DEF Known, Fresh
    <3>7. CASE u # Me(c)
      <4>1. b \in listJSON[u]
        BY <3>2, <3>7
      <4>2. /\ Known(u, b.items)
            /\ ~b.over => \A n \in DOMAIN b.items :
                  \/ b.items[n].at = latest[b.items[n].isu]
                  \/ BeingDropped(b.items[n].isu)
        BY <4>1 DEF FreshInv, FreshJSON
      <4>3. \A n \in DOMAIN b.items : BeingDropped(b.items[n].isu) =>
                                          BeingDropped(b.items[n].isu)'
        <5> SUFFICES ASSUME NEW n \in DOMAIN b.items, NEW i, i = b.items[n].isu,
                            BeingDropped(i)
                     PROVE  BeingDropped(i)'
          OBVIOUS
        <5> QED
          BY <1>2, <3>4, <4>1
      <4> QED
        BY <3>1, <4>2, <4>3 DEF Known
    <3> QED
      BY <3>6, <3>7
  <2>3. CASE FillDrop(c)
    <3>1. /\ listJSON' = [listJSON EXCEPT ![Me(c)] = {}] /\ Serving(c, "list", "drop")
          /\ UNCHANGED <<owner, latest>> /\ ~FillLatest(c)
      BY <2>3 DEF FillDrop, FillLatest, Serving
    <3>2. \A u \in Users : listJSON'[u] = IF u = Me(c) THEN {} ELSE listJSON[u]
      BY <1>0, <3>1
    <3>3. Subject(c) \in Isus /\ Owns(Me(c), Subject(c))
      BY <3>1, SubjectOwned DEF Serving, RowPcs
    <3>4. ASSUME NEW u \in Users, NEW i \in Isus, u # Me(c), Owns(u, i), BeingDropped(i)
          PROVE  BeingDropped(i)'
      <4>1. Subject(c) # i
        BY <1>0, <3>3, <3>4, OneOwner
      <4>2. CASE writer.pc # "idle" /\ writer.isu = i
        BY <1>1, <4>2 DEF BeingDropped
      <4>3. CASE \E d \in Clients : Serving(d, "list", "drop") /\ Subject(d) = i
        <5>1. PICK d \in Clients \ {c} : Serving(d, "list", "drop") /\ Subject(d) = i
          BY <4>1, <4>3
        <5>2. req'[d] = req[d]
          BY <1>6, <3>1, <5>1 DEF Moved
        <5>3. Serving(d, "list", "drop")' /\ Subject(d)' = i
          BY <5>1, <5>2 DEF Serving, Subject
        <5> QED
          BY <5>3 DEF BeingDropped
      <4> QED
        BY <3>4, <4>2, <4>3 DEF BeingDropped
    <3>5. ASSUME NEW u \in Users, NEW b \in listJSON'[u], NEW n \in DOMAIN b.items, NEW i,
                 i = b.items[n].isu, BeingDropped(i)
          PROVE  BeingDropped(i)'
      <4>1. u # Me(c) /\ b \in listJSON[u]
        BY <3>2, <3>5
      <4> QED
        BY <1>2, <3>4, <3>5, <4>1
    <3>6. \A u \in Users : listJSON'[u] \subseteq listJSON[u]
      BY <3>2
    <3>7. \A u \in Users : \A b \in listJSON'[u] : \A n \in DOMAIN b.items :
              BeingDropped(b.items[n].isu) => BeingDropped(b.items[n].isu)'
      BY <3>5
    <3> QED
      BY <3>1, <3>6, <3>7, FreshJSONFrame, OwnersStayFrame
  <2>4. CASE ~FillLatest(c) /\ ~SetJSON(c) /\ ~FillDrop(c)
    <3>1. \/ listJSON' = listJSON
          \/ listJSON' = [listJSON EXCEPT ![Me(c)] = {}]
      BY <2>4 DEF Handle, SelectRow, SetOwner, SetRecord, SetIcon, StartFill, Prepend,
         ReadOrder, ReadRecord, SelectList, LookLatest, ReadBack, BuildItem, SetOrder,
         Done, caches
    <3>2. \A u \in Users : listJSON'[u] \subseteq listJSON[u]
      BY <1>0, <3>1
    <3>3. ~Serving(c, "list", "drop")
      BY <2>4 DEF Handle, SelectRow, SetOwner, SetRecord, SetIcon, StartFill, Prepend,
         ReadOrder, ReadRecord, SelectList, LookLatest, ReadBack, BuildItem, SetOrder,
         Done, Serving
    <3>4. \A i \in Isus : BeingDropped(i) => BeingDropped(i)'
      BY <1>1, <1>6, <2>4, <3>3, BeingDroppedFrame
    <3>5. ASSUME NEW u \in Users, NEW b \in listJSON'[u], NEW n \in DOMAIN b.items, NEW i,
                 i = b.items[n].isu, BeingDropped(i)
          PROVE  BeingDropped(i)'
      BY <1>2, <3>2, <3>4, <3>5
    <3>6. \A u \in Users : \A b \in listJSON'[u] : \A n \in DOMAIN b.items :
              BeingDropped(b.items[n].isu) => BeingDropped(b.items[n].isu)'
      BY <3>5
    <3> QED
      BY <1>5, <1>7, <2>4, <3>2, <3>6, FreshJSONFrame
  <2> QED
    BY <2>1, <2>2, <2>3, <2>4
<1> QED
  BY <1>7, <1>8, <1>9 DEF FreshInv

LEMMA FreshRequest ==
    ASSUME OwnInv, FreshInv, NEW c \in Clients,
           \/ GetList(c)
           \/ \E i \in Isus : Insert(c, i) \/ \E op \in Ops : GetIsu(c, op, i)
    PROVE  FreshInv'
<1>0. TypeInv /\ CacheTypes /\ req \in [Clients -> Handlers] /\ Me(c) \in Users
  BY DEF OwnInv, TypeInv, CacheTypes, Me
<1>1. /\ UNCHANGED <<account, owner, record, latest, listJSON, writer>> /\ Stays
  <2>1. UNCHANGED <<account, caches, writer>>
    BY DEF GetList, Insert, GetIsu, Arrive, caches
  <2>2. Stays
    <3>1. CASE rows' = rows
      BY <3>1, StaysFrame
    <3>2. ASSUME NEW i \in Isus, Insert(c, i) PROVE Stays
      <4>1. i \notin Registered /\ rows' = Append(rows, [isu |-> i, user |-> Me(c)])
        BY <3>2 DEF Insert
      <4>2. /\ Range(rows)' = Range(rows) \cup {[isu |-> i, user |-> Me(c)]}
            /\ \A j \in Registered : Id(j)' = Id(j)
        BY <1>0, <4>1, InsertFacts
      <4>3. \A u \in Users : \A j \in Isus : Owns(u, j) => j \in Registered
        BY <1>0, RowsFacts
      <4> QED
        BY <4>2, <4>3 DEF Stays, Owns
    <3> QED
      BY <3>1, <3>2 DEF GetList, GetIsu
  <2> QED
    BY <2>1, <2>2 DEF caches
<1>2. \E op, i, pc, items : /\ Begins(c, op, i, pc, items)
                            /\ pc \in {"order", "owner", "select", "done"}
  <2>1. CASE GetList(c)
    <3>1. \/ \E body \in listJSON[Me(c)] : Begins(c, "list", NoIsu, "done", body.items)
          \/ Begins(c, "list", NoIsu, "order", <<>>)
      BY <2>1 DEF GetList, Begins
    <3> QED
      BY <3>1
  <2>2. ASSUME NEW i \in Isus, Insert(c, i)
        PROVE  Begins(c, "register", i, "owner", <<>>)
    BY <2>2 DEF Insert, Begins
  <2>3. ASSUME NEW i \in Isus, NEW op \in Ops, GetIsu(c, op, i)
        PROVE  \/ Begins(c, op, i, "done", <<Plain(i, record[i].id)>>)
               \/ Begins(c, op, i, "select", <<>>)
    BY <2>3 DEF GetIsu, Begins
  <2> QED
    BY <2>1, <2>2, <2>3
<1>3. PICK op, i, pc, items : /\ Begins(c, op, i, pc, items)
                              /\ pc \in {"order", "owner", "select", "done"}
  BY <1>2
<1>4. /\ req[c].pc = "idle" /\ req'[c].pc = pc /\ req'[c].items = items
      /\ Moved(c) /\ (pc # "done" => items = <<>>)
  <2>1. Begins(c, op, i, pc, items)
    BY <1>3
  <2>2. pc # "done" => items = <<>>
    BY <2>1 DEF Begins
  <2>3. /\ req[c].pc = "idle" /\ req'[c].pc = pc /\ req'[c].items = items /\ Moved(c)
    BY <1>0, <2>1, BeginsFacts
  <2> QED
    BY <2>2, <2>3
<1>5. \A d \in Clients : FreshHandler(d)'
  BY <1>1, <1>3, <1>4, FreshStep DEF KnownPcs
<1>6. \A j \in Isus : BeingDropped(j) => BeingDropped(j)'
  BY <1>1, <1>4, BeingDroppedFrame DEF Serving
<1>7. FreshJSON'
  <2>1. ASSUME NEW u \in Users, NEW b \in listJSON[u], NEW n \in DOMAIN b.items, NEW j,
               j = b.items[n].isu, BeingDropped(j)
        PROVE  BeingDropped(j)'
    <3>1. b.items \in Seq(Items)
      BY <1>0 DEF CacheTypes
    <3> QED
      BY <1>6, <2>1, <3>1, ItemFacts
  <2>2. \A u \in Users : \A b \in listJSON'[u] : \A n \in DOMAIN b.items :
            BeingDropped(b.items[n].isu) => BeingDropped(b.items[n].isu)'
    BY <1>1, <2>1
  <2>3. \A u \in Users : listJSON'[u] \subseteq listJSON[u]
    BY <1>1
  <2> QED
    BY <1>1, <2>2, <2>3, FreshJSONFrame, OwnersStayFrame
<1>8. OwnerOwns' /\ RecordKnown' /\ WriterOwns'
  BY <1>1, FreshOwnersFrame
<1> QED
  BY <1>5, <1>7, <1>8 DEF FreshInv

LEMMA FreshWriter ==
    ASSUME OwnInv, FreshInv,
           \/ \E f \in fills : FillIcon(f)
           \/ \E x \in Conditions : WriteLatest(x.isu, x.at)
           \/ LookUpOwner \/ DropJSON
    PROVE  FreshInv'
<1>0. /\ TypeInv /\ CacheTypes /\ req \in [Clients -> Handlers]
      /\ listJSON \in [Users -> SUBSET [items : Seq(Items), over : BOOLEAN]]
  BY DEF OwnInv, TypeInv, CacheTypes
<1>1. UNCHANGED <<account, rows, owner, record>> /\ Stays /\ OwnersStay
  <2>1. UNCHANGED <<account, rows, owner, record>>
    BY DEF FillIcon, WriteLatest, LookUpOwner, DropJSON, caches
  <2> QED
    BY <2>1, StaysFrame, OwnersStayFrame
<1>2. OwnerOwns' /\ RecordKnown' /\ (writer' = writer => WriterOwns')
  BY <1>1, FreshOwnersFrame
<1>3. \A u \in Users : \A b \in listJSON[u] : \A n \in DOMAIN b.items :
          /\ b.items[n].isu \in Isus /\ Owns(u, b.items[n].isu)
          /\ owner[b.items[n].isu] = u
  <2> SUFFICES ASSUME NEW u \in Users, NEW b \in listJSON[u], NEW n \in DOMAIN b.items
               PROVE  /\ b.items[n].isu \in Isus /\ Owns(u, b.items[n].isu)
                      /\ owner[b.items[n].isu] = u
    OBVIOUS
  <2>1. b.items \in Seq(Items) /\ AllOwned(u, b.items) /\ Known(u, b.items)
    BY <1>0 DEF OwnInv, OwnJSON, FreshInv, FreshJSON
  <2> QED
    BY <2>1, ItemFacts DEF AllOwned, Known
<1>4. ASSUME NEW f \in fills, FillIcon(f) PROVE FreshInv'
  <2>1. UNCHANGED <<latest, listJSON, writer, req>>
    BY <1>4 DEF FillIcon
  <2>2. \A i : BeingDropped(i)' <=> BeingDropped(i)
    BY <2>1 DEF BeingDropped, Serving, Subject
  <2>3. FreshJSON'
    BY <1>1, <2>1, <2>2, FreshJSONFrame
  <2>4. \A d \in Clients : FreshHandler(d)'
    BY <1>1, <2>1, FreshHandlerFrame
  <2> QED
    BY <1>2, <2>1, <2>3, <2>4 DEF FreshInv
<1>5. ASSUME NEW x \in Conditions, WriteLatest(x.isu, x.at) PROVE FreshInv'
  <2>1. x.isu \in Isus /\ x.at \in Nat
    BY CatalogAssumption
  <2>2. /\ SetLatest(x.isu, x.at) /\ req' = Overtaken(x.isu, x.at) /\ writer.pc = "idle"
        /\ writer' = [pc |-> "owner", isu |-> x.isu, user |-> Nobody]
        /\ listJSON' = listJSON
    BY <1>5 DEF WriteLatest
  <2>3. \A d \in Clients : \A f \in Fields \ {"over"} : req'[d][f] = req[d][f]
    BY <1>0, <2>2, OvertakenFacts
  <2>4. \A d \in Clients : FreshHandler(d)'
    <3> SUFFICES ASSUME NEW d \in Clients PROVE FreshHandler(d)'
      OBVIOUS
    <3>1. Same(d, {"op", "isu", "todo", "items"}) /\ req'[d].pc = req[d].pc
      BY <2>3 DEF Same, Fields
    <3>2. req'[d].over = Overtaken(x.isu, x.at)[d].over
      BY <2>2
    <3> QED
      BY <1>1, <2>1, <2>2, <3>1, <3>2, FreshOvertaken
  <2>5. PICK i \in Isus, t \in Nat : i = x.isu /\ t = x.at
    BY <2>1
  <2>6. BeingDropped(i)'
    BY <2>2, <2>5 DEF BeingDropped
  <2>7. ASSUME NEW j \in Isus, BeingDropped(j) PROVE BeingDropped(j)'
    <3>1. PICK d \in Clients : Serving(d, "list", "drop") /\ Subject(d) = j
      BY <2>2, <2>7 DEF BeingDropped
    <3>2. req'[d].op = req[d].op /\ req'[d].pc = req[d].pc /\ req'[d].todo = req[d].todo
          /\ req'[d].isu = req[d].isu
      BY <2>3 DEF Fields
    <3>3. Serving(d, "list", "drop")' /\ Subject(d)' = j
      BY <3>1, <3>2 DEF Serving, Subject
    <3> QED
      BY <3>3 DEF BeingDropped
  <2>8. FreshJSON'
    BY <1>1, <2>2, <2>5, <2>6, <2>7, FreshJSONLatest
  <2>9. WriterOwns'
    BY <2>2 DEF WriterOwns
  <2> QED
    BY <1>2, <2>4, <2>8, <2>9 DEF FreshInv
\* The owner of an ISU in a JSON is known, and the JSON is the owner's.
<1>6. CASE LookUpOwner
  <2>1. /\ writer.pc = "owner" /\ UNCHANGED <<latest, listJSON, req>>
        /\ writer' = IF owner[writer.isu] = Nobody THEN AtRest
                     ELSE [writer EXCEPT !.pc = "drop", !.user = owner[writer.isu]]
    BY <1>6 DEF LookUpOwner, caches
  <2>2. /\ writer.isu \in Isus /\ owner[writer.isu] \in Users \cup {Nobody}
        /\ Nobody \notin Users
    BY <1>0, <2>1, CatalogAssumption DEF CacheTypes, Nobody
  <2>3. CASE owner[writer.isu] = Nobody
    <3>1. writer' = AtRest
      BY <2>1, <2>3
    <3>2. WriterOwns'
      BY <3>1 DEF WriterOwns, AtRest
    <3>3. ASSUME NEW u \in Users, NEW b \in listJSON[u], NEW n \in DOMAIN b.items, NEW i,
                 i = b.items[n].isu, BeingDropped(i)
          PROVE  BeingDropped(i)'
      <4>1. writer.isu # i
        BY <1>3, <2>2, <2>3, <3>3
      <4>2. \E d \in Clients : Serving(d, "list", "drop") /\ Subject(d) = i
        BY <3>3, <4>1 DEF BeingDropped
      <4> QED
        BY <2>1, <4>2 DEF BeingDropped, Serving, Subject
    <3>4. \A u \in Users : \A b \in listJSON'[u] : \A n \in DOMAIN b.items :
              BeingDropped(b.items[n].isu) => BeingDropped(b.items[n].isu)'
      BY <2>1, <3>3
    <3>5. FreshJSON' /\ \A d \in Clients : FreshHandler(d)'
      BY <1>1, <2>1, <3>4, FreshJSONFrame, FreshHandlerFrame
    <3> QED
      BY <1>2, <3>2, <3>5 DEF FreshInv
  <2>4. CASE owner[writer.isu] # Nobody
    <3>1. /\ writer' = [writer EXCEPT !.pc = "drop", !.user = owner[writer.isu]]
          /\ owner[writer.isu] \in Users
      BY <2>1, <2>2, <2>4
    <3>2. /\ writer'.pc = "drop" /\ writer'.user = owner[writer.isu]
          /\ writer'.isu = writer.isu
      BY <1>0, <3>1 DEF CacheTypes
    <3>3. [isu |-> writer.isu, user |-> owner[writer.isu]] \in Range(rows)
      BY <2>2, <3>1 DEF FreshInv, OwnerOwns, Owns
    <3>4. WriterOwns'
      BY <1>1, <3>2, <3>3 DEF WriterOwns, Owns
    <3>5. \A i : BeingDropped(i) => BeingDropped(i)'
      BY <2>1, <3>2 DEF BeingDropped, Serving, Subject
    <3>6. \A u \in Users : \A b \in listJSON'[u] : \A n \in DOMAIN b.items :
              BeingDropped(b.items[n].isu) => BeingDropped(b.items[n].isu)'
      <4> SUFFICES ASSUME NEW u \in Users, NEW b \in listJSON'[u], NEW n \in DOMAIN b.items,
                          NEW i, i = b.items[n].isu, BeingDropped(i)
                   PROVE  BeingDropped(i)'
        OBVIOUS
      <4> QED
        BY <3>5
    <3>7. FreshJSON' /\ \A d \in Clients : FreshHandler(d)'
      BY <1>1, <2>1, <3>6, FreshJSONFrame, FreshHandlerFrame
    <3> QED
      BY <1>2, <3>4, <3>7 DEF FreshInv
  <2> QED
    BY <2>3, <2>4
<1>7. CASE DropJSON
  <2>1. /\ writer.pc = "drop" /\ writer' = AtRest /\ UNCHANGED <<latest, req>>
        /\ listJSON' = [listJSON EXCEPT ![writer.user] = {}]
    BY <1>7 DEF DropJSON
  <2>2. /\ writer.isu \in Isus /\ writer.user \in Users /\ Owns(writer.user, writer.isu)
    BY <1>0, <2>1 DEF CacheTypes, FreshInv, WriterOwns
  <2>3. \A u \in Users : listJSON'[u] = IF u = writer.user THEN {} ELSE listJSON[u]
    BY <1>0, <2>1
  <2>4. ASSUME NEW u \in Users, NEW b \in listJSON'[u], NEW n \in DOMAIN b.items, NEW i,
               i = b.items[n].isu, BeingDropped(i)
        PROVE  BeingDropped(i)'
    <3>1. u # writer.user /\ b \in listJSON[u]
      BY <2>3, <2>4
    <3>2. i \in Isus /\ Owns(u, i)
      BY <1>3, <2>4, <3>1
    <3>3. writer.isu # i
      BY <1>0, <2>2, <3>1, <3>2, OneOwner
    <3>4. \E d \in Clients : Serving(d, "list", "drop") /\ Subject(d) = i
      BY <2>4, <3>3 DEF BeingDropped
    <3> QED
      BY <2>1, <3>4 DEF BeingDropped, Serving, Subject
  <2>5. \A u \in Users : \A b \in listJSON'[u] : \A n \in DOMAIN b.items :
              BeingDropped(b.items[n].isu) => BeingDropped(b.items[n].isu)'
    BY <2>4
  <2>6. \A u \in Users : listJSON'[u] \subseteq listJSON[u]
    BY <2>3
  <2>7. FreshJSON' /\ \A d \in Clients : FreshHandler(d)'
    BY <1>1, <2>1, <2>5, <2>6, FreshJSONFrame, FreshHandlerFrame
  <2>8. WriterOwns'
    BY <2>1 DEF WriterOwns, AtRest
  <2> QED
    BY <1>2, <2>7, <2>8 DEF FreshInv
<1> QED
  BY <1>4, <1>5, <1>6, <1>7

LEMMA FreshInit == ASSUME Init PROVE FreshInv
<1>1. OwnerOwns
  BY SeedFacts DEF Init, OwnerOwns, Owns
<1>2. RecordKnown
  BY DEF Init, RecordKnown, SeedRecord
<1>3. WriterOwns /\ FreshJSON
  BY DEF Init, WriterOwns, AtRest, FreshJSON
<1>4. \A c \in Clients : FreshHandler(c)
  BY IdleFacts DEF Init, FreshHandler, KnownPcs
<1> QED
  BY <1>1, <1>2, <1>3, <1>4 DEF FreshInv

LEMMA FreshReset == ASSUME OwnInv, Restart \/ Initialize PROVE FreshInv'
<1>1. CASE Restart
  <2>1. OwnerOwns'
    BY <1>1, CatalogAssumption DEF Restart, NoCaches, OwnerOwns, Nobody
  <2>2. RecordKnown'
    BY <1>1, CatalogAssumption DEF Restart, NoCaches, RecordKnown, NoRecord, Nobody
  <2>3. WriterOwns' /\ FreshJSON'
    BY <1>1 DEF Restart, NoCaches, WriterOwns, AtRest, FreshJSON
  <2>4. \A c \in Clients : FreshHandler(c)'
    BY <1>1, IdleFacts DEF Restart, FreshHandler, KnownPcs
  <2> QED
    BY <2>1, <2>2, <2>3, <2>4 DEF FreshInv
<1>2. CASE Initialize
  <2>1. OwnerOwns'
    BY <1>2, SeedFacts DEF Initialize, OwnerOwns, Owns
  <2>2. RecordKnown'
    BY <1>2 DEF Initialize, RecordKnown, SeedRecord
  <2>3. WriterOwns' /\ FreshJSON'
    BY <1>2 DEF Initialize, WriterOwns, AtRest, FreshJSON
  <2>4. ASSUME NEW c \in Clients PROVE FreshHandler(c)'
    <3>1. Place(c) /\ req[c] \in Handlers /\ req[c].pc = "idle" /\ req' = req
      BY <1>2 DEF Initialize, OwnInv, TypeInv
    <3>2. req[c].op = "none"
      BY <3>1 DEF Place, Fits
    <3> QED
      BY <3>1, <3>2 DEF FreshHandler, KnownPcs
  <2> QED
    BY <2>1, <2>2, <2>3, <2>4 DEF FreshInv
<1> QED
  BY <1>1, <1>2

LEMMA FreshNext == OwnInv /\ FreshInv /\ [Next]_vars => FreshInv'
<1> SUFFICES ASSUME OwnInv, FreshInv, [Next]_vars PROVE FreshInv'
  OBVIOUS
<1>1. CASE UNCHANGED vars
  BY <1>1 DEF vars, caches, FreshInv, OwnerOwns, WriterOwns, RecordKnown, FreshJSON,
     FreshHandler, Known, Fresh, BeingDropped, Serving, Subject, Owns, Me
<1> QED
  BY <1>1, FreshHandle, FreshRequest, FreshWriter, FreshReset DEF Next

LEMMA FreshInvariant == Spec => []FreshInv
<1>1. Init => FreshInv
  BY FreshInit
<1> QED
  BY <1>1, OwnInvariant, FreshNext, PTL DEF Spec

\* A cached list shows the latest conditions of the cache, with any number of
\* users, clients and requests, except while the goroutine that has set one is
\* about to drop the list, and unless the list was overtaken while it was built.
THEOREM CatalogJSONIsFresh == Spec => []JSONIsFresh
<1>1. TypeInv /\ FreshInv => JSONIsFresh
  <2> SUFFICES ASSUME TypeInv, FreshInv, NEW u \in Users, NEW body \in listJSON[u],
                      ~body.over, NEW x \in Range(body.items)
               PROVE  \/ x.at = latest[x.isu]
                      \/ writer.isu = x.isu
                      \/ \E c \in Clients : Serving(c, "list", "drop") /\ Subject(c) = x.isu
    BY DEF JSONIsFresh
  <2>1. PICK n \in DOMAIN body.items : x = body.items[n]
    BY DEF Range
  <2> QED
    BY <2>1 DEF FreshInv, FreshJSON, BeingDropped
<1> QED
  BY <1>1, TypeInvariant, FreshInvariant, PTL
----------------------------------------------------------------------------
(* The lists follow the rows.                                              *)

\* What a list of u must show, and whether i may stand before j in it.
Due(u) == {j \in acked \ forgotten : Owns(u, j)}
Before(u, i, j) == \/ Id(i) > Id(j)
                   \/ ~InTurn(u) /\ Id(i) # Id(j)

Names(s) == {s[n].isu : n \in DOMAIN s}
InOrder(u, s) == \A m, n \in DOMAIN s : m < n => Before(u, s[m].isu, s[n].isu)
IdsRight(s) == \A n \in DOMAIN s : s[n].id = Id(s[n].isu)

\* What a list of u has done and what it has still to do.
Split(u, items, todo) ==
    /\ \A j \in Due(u) : j \in Names(items) \cup Names(todo)
    /\ InOrder(u, items) /\ InOrder(u, todo)
    /\ \A m \in DOMAIN items, n \in DOMAIN todo : Before(u, items[m].isu, todo[n].isu)
    /\ IdsRight(items)

\* Requests of one user that disturb each other and are served at the same
\* time are on record, and no two handlers register the same ISU.
MetInv ==
    \A c, d \in Clients :
        /\ c # d /\ Me(c) = Me(d) /\ {req[c].op, req[d].op} \in Disturbing
           => <<Me(c), {req[c].op, req[d].op}>> \in crossed
        /\ c # d /\ req[c].op = "register" /\ req[d].op = "register"
           => req[c].isu # req[d].isu

\* There is one order at most, and it has every ISU that is due, in the order
\* of the rows.
OrderFollows(u) ==
    /\ \A o, p \in order[u] : o = p
    /\ Calm(u) => /\ \A j \in Due(u) : \E o \in order[u] : j \in Range(o)
                  /\ \A o \in order[u] : \A m, n \in DOMAIN o :
                         m < n => Before(u, o[m], o[n])

JSONFollows(u) == Calm(u) => \A body \in listJSON[u] : Split(u, body.items, <<>>)

ListFollows(c) ==
    /\ req[c].pc \in {"order", "select"} => req[c].items = <<>>
    /\ req[c].pc \in {"order", "select", "setOrder", "setJSON", "done"} =>
           req[c].todo = <<>>
    /\ req[c].pc \notin {"order", "select"} =>
           Split(Me(c), req[c].items, req[c].todo)
    /\ req[c].pc \in {"item", "knownItem"} =>
           Head(req[c].todo).id = Id(Head(req[c].todo).isu)
    /\ req[c].pc \in {"look", "latest", "drop", "again"} =>
           RecordOf(Me(c), Subject(c)) # {}

\* The ISU that is being registered belongs in front of the order.
RegisterFollows(c) ==
    \A o \in order[Me(c)] : \A n \in DOMAIN o : Before(Me(c), req[c].isu, o[n])

FollowHandler(c) ==
    /\ req[c].due \subseteq acked
    /\ Calm(Me(c)) /\ req[c].op = "list" => ListFollows(c)
    /\ Calm(Me(c)) /\ req[c].op = "register" /\ req[c].pc # "done" =>
           RegisterFollows(c)

FollowInv == /\ MetInv
             /\ \A u \in Users : OrderFollows(u) /\ JSONFollows(u)
             /\ \A c \in Clients : FollowHandler(c)

\* An ISU of a user has an id of its own.
LEMMA OwnedIds ==
    ASSUME CacheTypes, NEW u \in Users, NEW i \in Isus, Owns(u, i)
    PROVE  /\ Id(i) \in Nat \ {0} /\ Id(i) \in DOMAIN rows
           /\ rows[Id(i)].isu = i /\ rows[Id(i)].user = u
           /\ \A v \in Users : \A j \in Isus : Owns(v, j) /\ Id(i) = Id(j) => i = j
<1>1. ASSUME NEW v \in Users, NEW j \in Isus, Owns(v, j)
      PROVE  Id(j) \in Nat \ {0} /\ Id(j) \in DOMAIN rows /\ rows[Id(j)].isu = j
             /\ rows[Id(j)].user = v
  <2>1. PICK n \in DOMAIN rows : rows[n].isu = j /\ rows[n].user = v
    BY <1>1, RowsFacts
  <2>2. Id(j) = n /\ n # 0 /\ Id(j) \in Nat
    BY <2>1, IdFacts DEF CacheTypes
  <2> QED
    BY <2>1, <2>2
<1>2. \A v \in Users : \A j \in Isus : Owns(v, j) /\ Id(i) = Id(j) => i = j
  BY <1>1
<1> QED
  BY <1>1, <1>2

\* A decreasing enumeration of a set leaves nothing out.
LEMMA DescendingOnto ==
    ASSUME NEW S, S \subseteq Nat, IsFiniteSet(S), NEW x \in S
    PROVE  \E n \in DOMAIN Descending(S) : Descending(S)[n] = x
<1> DEFINE k == Cardinality(S)
           s == Descending(S)
<1>1. s \in [1..k -> S] /\ \A m, n \in DOMAIN s : m < n => s[m] > s[n]
  BY DescendingFacts DEF Decreasing
<1>2. k \in Nat /\ IsFiniteSet(S \ {x}) /\ Cardinality(S \ {x}) = k - 1
  BY FS_CardinalityType, FS_RemoveElement
<1>3. IsFiniteSet(1..k) /\ Cardinality(1..k) = k
  BY <1>2, FS_Interval
<1> HIDE DEF k, s
<1>4. SUFFICES ASSUME \A n \in DOMAIN s : s[n] # x PROVE FALSE
  BY DEF s
<1>5. s \in [1..k -> S \ {x}]
  BY <1>1, <1>4
<1>6. \E m, n \in 1..k : m # n /\ s[m] = s[n]
  <2>1. Cardinality(S \ {x}) < Cardinality(1..k)
    BY <1>2, <1>3
  <2> QED
    BY <1>2, <1>3, <1>5, <2>1, FS_PigeonHole
<1>7. PICK m \in 1..k, n \in 1..k : m # n /\ s[m] = s[n]
  BY <1>6
<1>8. s[m] \in Nat /\ s[n] \in Nat /\ m \in Nat /\ n \in Nat
  <2>1. s[m] \in S /\ s[n] \in S
    BY <1>1, <1>7
  <2>2. s[m] \in Nat /\ s[n] \in Nat
    BY <2>1
  <2>3. \A l \in 1..k : l \in Nat
    BY <1>2
  <2> QED
    BY <1>7, <2>2, <2>3
<1>9. m < n \/ n < m
  BY <1>7, <1>8
<1>10. s[m] > s[n] \/ s[n] > s[m]
  BY <1>1, <1>9
<1> QED
  BY <1>7, <1>8, <1>10

\* All rows of a user, the newest first.
LEMMA IdsOrder ==
    ASSUME NEW table \in Seq([isu : Isus, user : Users]), NEW u
    PROVE  /\ \A m, n \in DOMAIN Descending(Ids(table, u)) :
                 m < n => Descending(Ids(table, u))[m] > Descending(Ids(table, u))[n]
           /\ \A k \in DOMAIN table : table[k].user = u =>
                 \E n \in DOMAIN Descending(Ids(table, u)) :
                     Descending(Ids(table, u))[n] = k
<1>1. DOMAIN table = 1..Len(table) /\ Len(table) \in Nat
  OBVIOUS
<1>2. IsFiniteSet(Ids(table, u)) /\ Ids(table, u) \subseteq Nat
  <2>1. IsFiniteSet(1..Len(table))
    BY <1>1, FS_Interval
  <2> QED
    BY <1>1, <2>1, FS_Subset DEF Ids
<1>3. \A m, n \in DOMAIN Descending(Ids(table, u)) :
          m < n => Descending(Ids(table, u))[m] > Descending(Ids(table, u))[n]
  BY <1>2, DescendingFacts DEF Decreasing
<1>4. \A k \in DOMAIN table : table[k].user = u => k \in Ids(table, u)
  BY DEF Ids
<1> QED
  BY <1>2, <1>3, <1>4, DescendingOnto

LEMMA ListOfOrder ==
    ASSUME CacheTypes, NEW u \in Users, NEW saved \in Saved
    PROVE  /\ \A i \in Isus : Owns(u, i) => i \in Names(ListOf(u, saved))
           /\ InOrder(u, ListOf(u, saved))
<1> DEFINE ids == Descending(Ids(rows, u))
           t == ListOf(u, saved)
<1>1. rows \in Seq([isu : Isus, user : Users])
  BY DEF CacheTypes
<1>2. /\ \A m, n \in DOMAIN ids : m < n => ids[m] > ids[n]
      /\ \A k \in DOMAIN rows : rows[k].user = u => \E n \in DOMAIN ids : ids[n] = k
  BY ZenonT(30), <1>1, IdsOrder
<1>3. DOMAIN t = DOMAIN ids /\ \A n \in DOMAIN ids : t[n].isu = rows[ids[n]].isu
                                                    /\ t[n].id = ids[n]
  BY DEF ListOf
<1>4. \A n \in DOMAIN t : t[n].id = Id(t[n].isu)
  BY ListOfFacts
<1> HIDE DEF ids, t
<1>5. ASSUME NEW i \in Isus, Owns(u, i) PROVE i \in Names(t)
  <2>1. PICK k \in DOMAIN rows : rows[k].isu = i /\ rows[k].user = u
    BY <1>5, RowsFacts
  <2>2. PICK n \in DOMAIN ids : ids[n] = k
    BY <1>2, <2>1
  <2> QED
    BY <1>3, <2>1, <2>2 DEF Names
<1>6. InOrder(u, t)
  BY <1>2, <1>3, <1>4 DEF InOrder, Before
<1> QED
  BY <1>5, <1>6 DEF t

\* The new row has the highest id.
LEMMA InsertLast ==
    ASSUME CacheTypes, NEW u \in Users, NEW i \in Isus, i \notin Registered,
           rows' = Append(rows, [isu |-> i, user |-> u])
    PROVE  \A v \in Users : \A j \in Isus : Owns(v, j) => Id(i)' > Id(j)'
<1> DEFINE new == [isu |-> i, user |-> u]
           k == Len(rows)
<1>1. /\ rows' \in Seq([isu : Isus, user : Users]) /\ Unique(rows)'
      /\ \A j \in Registered : Id(j)' = Id(j)
  BY InsertFacts
<1>2. rows \in Seq([isu : Isus, user : Users]) /\ new \in [isu : Isus, user : Users]
  BY DEF CacheTypes
<1>3. /\ k \in Nat /\ DOMAIN rows = 1..k /\ DOMAIN rows' = 1..(k + 1)
      /\ rows'[k + 1] = new
  BY <1>2, AppendProperties, LenProperties
<1>4. k + 1 \in DOMAIN rows' /\ rows'[k + 1].isu = i
  BY <1>3
<1>5. Id(i)' = k + 1
  <2>1. IdIn(rows', i) = k + 1
    BY <1>1, <1>4, TableFacts
  <2> QED
    BY <2>1 DEF Id
<1> SUFFICES ASSUME NEW v \in Users, NEW j \in Isus, Owns(v, j) PROVE Id(i)' > Id(j)'
  OBVIOUS
<1>6. Id(j) \in 1..k /\ j \in Registered
  BY <1>3, OwnedIds, RowsFacts
<1> QED
  BY <1>1, <1>3, <1>5, <1>6

----------------------------------------------------------------------------
(* What stays while requests are served.                                   *)

Grows == /\ Stays /\ account' = account /\ crossed \subseteq crossed'
         /\ acked \subseteq acked' /\ forgotten' = forgotten /\ CacheTypes'

\* Nothing that a list is held against changes.
Quiet == UNCHANGED <<account, rows, acked, forgotten, crossed>>

LEMMA CalmKept ==
    ASSUME Grows, NEW u
    PROVE  (Calm(u)' => Calm(u)) /\ (InTurn(u)' => InTurn(u))
BY DEF Grows, Calm, InTurn

LEMMA BeforeKept ==
    ASSUME Grows, NEW u \in Users, NEW i \in Isus, NEW j \in Isus,
           Owns(u, i), Owns(u, j), Before(u, i, j)
    PROVE  Before(u, i, j)'
<1>1. Id(i)' = Id(i) /\ Id(j)' = Id(j)
  BY DEF Grows, Stays
<1>2. ~InTurn(u) => ~InTurn(u)'
  BY CalmKept
<1> QED
  BY <1>1, <1>2 DEF Before

LEMMA DueKept ==
    ASSUME CacheTypes, Grows, acked' = acked, NEW u \in Users
    PROVE  \A j \in Due(u)' : j \in Due(u)
<1> SUFFICES ASSUME NEW j \in acked \ forgotten, Owns(u, j)' PROVE Owns(u, j)
  BY DEF Due, Grows
<1>1. PICK r \in Range(rows) : r.isu = j
  BY ZenonT(30) DEF CacheTypes, Registered
<1>2. r \in [isu : Isus, user : Users]
  BY RangeOfSeq DEF CacheTypes
<1>3. r = [isu |-> j, user |-> r.user] /\ r.user \in Users /\ j \in Isus
  BY <1>1, <1>2
<1>4. PICK v \in Users : v = r.user
  BY <1>3
<1>5. Owns(v, j)
  BY <1>3, <1>4 DEF Owns
<1>6. Owns(v, j)'
  BY <1>3, <1>5 DEF Grows, Stays
<1>7. CacheTypes' /\ Owns(u, j)'
  BY DEF Grows
<1>8. u = v
  <2>1. \E m \in DOMAIN rows' : rows'[m] = [isu |-> j, user |-> u]
    BY <1>7 DEF Owns, Range
  <2>2. \E m \in DOMAIN rows' : rows'[m] = [isu |-> j, user |-> v]
    BY <1>6 DEF Owns, Range
  <2>3. \A m, n \in DOMAIN rows' : rows'[m].isu = rows'[n].isu => m = n
    BY <1>7 DEF CacheTypes, Unique
  <2> QED
    BY <2>1, <2>2, <2>3
<1> QED
  BY <1>5, <1>8

LEMMA SplitKept ==
    ASSUME Grows, NEW u \in Users, NEW s \in Seq(Items), NEW t \in Seq(Items),
           AllOwned(u, s), AllOwned(u, t), Split(u, s, t),
           \A j \in Due(u)' : j \in Due(u)
    PROVE  Split(u, s, t)'
<1>1. \A n \in DOMAIN s : s[n].isu \in Isus /\ Owns(u, s[n].isu)
  BY ItemFacts DEF AllOwned
<1>2. \A n \in DOMAIN t : t[n].isu \in Isus /\ Owns(u, t[n].isu)
  BY ItemFacts DEF AllOwned
<1>3. \A j \in Due(u)' : j \in Names(s) \cup Names(t)
  BY DEF Split
<1>4. InOrder(u, s)'
  BY <1>1, BeforeKept DEF Split, InOrder
<1>5. InOrder(u, t)'
  BY <1>2, BeforeKept DEF Split, InOrder
<1>6. \A m \in DOMAIN s, n \in DOMAIN t : Before(u, s[m].isu, t[n].isu)'
  BY <1>1, <1>2, BeforeKept DEF Split
<1>7. IdsRight(s)'
  BY <1>1 DEF Split, IdsRight, Grows, Stays
<1> QED
  BY <1>3, <1>4, <1>5, <1>6, <1>7 DEF Split

LEMMA QuietFacts ==
    ASSUME Quiet
    PROVE  /\ \A u : /\ Due(u)' = Due(u) /\ (Calm(u)' <=> Calm(u))
                     /\ (InTurn(u)' <=> InTurn(u))
           /\ \A u, i, j : Before(u, i, j)' <=> Before(u, i, j)
           /\ \A u, s, t : Split(u, s, t)' <=> Split(u, s, t)
           /\ \A i : Id(i)' = Id(i)
           /\ \A c : Me(c)' = Me(c)
           /\ Stays
<1>1. \A i : Id(i)' = Id(i)
  BY DEF Quiet, Id
<1>2. \A u : /\ Due(u)' = Due(u) /\ (Calm(u)' <=> Calm(u)) /\ (InTurn(u)' <=> InTurn(u))
  BY DEF Quiet, Due, Owns, Calm, InTurn
<1>3. \A u, i, j : Before(u, i, j)' <=> Before(u, i, j)
  BY <1>1, <1>2 DEF Before
<1>4. \A u, s : InOrder(u, s)' <=> InOrder(u, s)
  BY <1>3 DEF InOrder
<1>5. \A s : IdsRight(s)' <=> IdsRight(s)
  BY <1>1 DEF IdsRight
<1>6. \A u, s, t : Split(u, s, t)' <=> Split(u, s, t)
  BY <1>2, <1>3, <1>4, <1>5 DEF Split
<1>7. \A c : Me(c)' = Me(c)
  BY DEF Quiet, Me
<1>8. Stays
  BY StaysFrame DEF Quiet
<1> QED
  BY <1>1, <1>2, <1>3, <1>6, <1>7, <1>8

LEMMA QuietGrows == ASSUME Quiet, CacheTypes' PROVE Grows
BY StaysFrame DEF Quiet, Grows

\* A handler that stays where it is.
LEMMA ListFollowsKept ==
    ASSUME OwnInv, FollowInv, Grows, NEW d \in Clients, Same(d, Fields \ {"over"}),
           req[d].op = "list", Calm(Me(d))',
           \A j \in Due(Me(d))' : j \in Due(Me(d)),
           req[d].pc \in {"look", "latest", "drop", "again"}
               /\ RecordOf(Me(d), Subject(d)) # {} => RecordOf(Me(d), Subject(d))' # {}
    PROVE  ListFollows(d)'
<1>1. /\ OwnHandler(d) /\ FollowHandler(d) /\ Me(d) \in Users /\ Me(d)' = Me(d)
      /\ req[d] \in Handlers /\ TypeInv
  BY DEF OwnInv, TypeInv, CacheTypes, FollowInv, Grows, Me
<1>2. /\ req'[d].op = req[d].op /\ req'[d].pc = req[d].pc /\ req'[d].todo = req[d].todo
      /\ req'[d].items = req[d].items
  BY DEF Same, Fields
<1>3. PICK u \in Users : u = Me(d)
  BY <1>1
<1>4. Calm(u)'
  <2>1. Calm(Me(d))' <=> Calm(u)'
    BY <1>1, <1>3 DEF Calm
  <2> QED
    BY <2>1
<1>5. ListFollows(d)
  BY <1>1, <1>3, <1>4, CalmKept DEF FollowHandler
<1>6. \A j \in Due(u)' : j \in Due(u)
  <2>1. Due(Me(d))' = Due(u)'
    BY <1>1, <1>3 DEF Due, Owns
  <2> QED
    BY <1>3, <2>1
<1>7. PICK s \in Seq(Items), t \in Seq(Items) : s = req[d].items /\ t = req[d].todo
  BY <1>1 DEF Handlers
<1>8. req[d].pc \notin {"order", "select"} => Split(u, s, t)'
  <2>1. AllOwned(u, s) /\ AllOwned(u, t)
    BY <1>1, <1>3, <1>7 DEF OwnHandler
  <2>2. req[d].pc \notin {"order", "select"} => Split(u, s, t)
    BY <1>3, <1>5, <1>7 DEF ListFollows
  <2> QED
    BY <1>6, <2>1, <2>2, SplitKept
<1>9. req[d].pc \in {"item", "knownItem"} => Id(Head(t).isu)' = Id(Head(t).isu)
  <2>1. ASSUME req[d].pc \in {"item", "knownItem"} PROVE Id(Head(t).isu)' = Id(Head(t).isu)
    <3>1. req[d].pc \in RowPcs
      BY <2>1 DEF RowPcs
    <3>2. Subject(d) \in Isus /\ Owns(Me(d), Subject(d)) /\ Subject(d) = Head(t).isu
      BY <1>7, <3>1, SubjectOwned DEF Subject
    <3> QED
      BY <1>1, <3>2 DEF Grows, Stays
  <2> QED
    BY <2>1
<1>10. req'[d].pc \in {"item", "knownItem"} => (Head(t).id = Id(Head(t).isu))'
  BY <1>2, <1>5, <1>7, <1>9 DEF ListFollows
<1> QED
  BY <1>1, <1>2, <1>3, <1>5, <1>7, <1>8, <1>10 DEF ListFollows

LEMMA RegisterFollowsKept ==
    ASSUME OwnInv, FollowInv, Grows, NEW d \in Clients, Same(d, Fields \ {"over"}),
           req[d].op = "register", req[d].pc # "done", Calm(Me(d))',
           order'[Me(d)] \subseteq order[Me(d)]
    PROVE  RegisterFollows(d)'
<1>1. /\ Place(d) /\ FollowHandler(d) /\ Me(d) \in Users /\ Me(d)' = Me(d)
      /\ req[d] \in Handlers /\ TypeInv /\ CacheTypes
  BY DEF OwnInv, TypeInv, CacheTypes, FollowInv, Grows, Me
<1>2. req'[d].isu = req[d].isu
  BY DEF Same, Fields
<1>3. PICK u \in Users, i \in Isus : u = Me(d) /\ i = req[d].isu
  BY <1>1 DEF Place
<1>4. Calm(u)
  <2>1. Calm(Me(d))' <=> Calm(u)'
    BY <1>1, <1>3 DEF Calm
  <2> QED
    BY <2>1, CalmKept
<1>5. \A o \in order[u] : \A n \in DOMAIN o : Before(u, i, o[n])
  BY <1>1, <1>3, <1>4 DEF FollowHandler, RegisterFollows
<1>6. Owns(u, i)
  BY <1>1, <1>3 DEF Place
<1>7. \A o \in order[u] : \A n \in DOMAIN o : o[n] \in Isus /\ Owns(u, o[n])
  <2> SUFFICES ASSUME NEW o \in order[u], NEW n \in DOMAIN o
               PROVE  o[n] \in Isus /\ Owns(u, o[n])
    OBVIOUS
  <2>1. o \in Seq(Isus)
    BY <1>1 DEF CacheTypes
  <2> QED
    BY <2>1, ElementOfSeq DEF OwnInv, OwnOrder
<1>8. \A o \in order[u] : \A n \in DOMAIN o : Before(u, i, o[n])'
  BY <1>5, <1>6, <1>7, BeforeKept
<1>9. \A o \in order'[u] : \A n \in DOMAIN o : Before(u, i, o[n])'
  BY <1>3, <1>8
<1> QED
  BY <1>1, <1>2, <1>3, <1>9 DEF RegisterFollows

LEMMA FollowHandlerKept ==
    ASSUME OwnInv, FollowInv, Grows, NEW d \in Clients, Same(d, Fields \ {"over"}),
           req[d].op = "list" /\ Calm(Me(d))' =>
               /\ \A j \in Due(Me(d))' : j \in Due(Me(d))
               /\ req[d].pc \in {"look", "latest", "drop", "again"}
                     /\ RecordOf(Me(d), Subject(d)) # {} =>
                         RecordOf(Me(d), Subject(d))' # {},
           req[d].op = "register" /\ req[d].pc # "done" /\ Calm(Me(d))' =>
               order'[Me(d)] \subseteq order[Me(d)]
    PROVE  FollowHandler(d)'
<1>1. /\ req'[d].op = req[d].op /\ req'[d].pc = req[d].pc /\ req'[d].due = req[d].due
  BY DEF Same, Fields
<1>2. req'[d].due \subseteq acked'
  BY <1>1 DEF FollowInv, FollowHandler, Grows
<1> QED
  BY <1>1, <1>2, ListFollowsKept, RegisterFollowsKept DEF FollowHandler

LEMMA OrderFollowsKept ==
    ASSUME OwnInv, FollowInv, Grows, NEW u \in Users, order'[u] = order[u],
           \A j \in Due(u)' : j \in Due(u)
    PROVE  OrderFollows(u)'
<1>0. \A o, p \in order'[u] : o = p
  BY DEF FollowInv, OrderFollows
<1> SUFFICES ASSUME Calm(u)'
             PROVE  /\ \A j \in Due(u)' : \E o \in order'[u] : j \in Range(o)
                    /\ \A o \in order'[u] : \A m, n \in DOMAIN o :
                           m < n => Before(u, o[m], o[n])'
  BY <1>0 DEF OrderFollows
<1>1. OrderFollows(u) /\ Calm(u)
  BY CalmKept DEF FollowInv
<1>2. \A o \in order[u] : \A n \in DOMAIN o : o[n] \in Isus /\ Owns(u, o[n])
  <2> SUFFICES ASSUME NEW o \in order[u], NEW n \in DOMAIN o
               PROVE  o[n] \in Isus /\ Owns(u, o[n])
    OBVIOUS
  <2>1. o \in Seq(Isus)
    BY DEF OwnInv, TypeInv, CacheTypes
  <2> QED
    BY <2>1, ElementOfSeq DEF OwnInv, OwnOrder
<1>3. \A o \in order[u] : \A m, n \in DOMAIN o : m < n => Before(u, o[m], o[n])'
  BY <1>1, <1>2, BeforeKept DEF OrderFollows
<1> QED
  BY <1>1, <1>3 DEF OrderFollows

LEMMA JSONFollowsKept ==
    ASSUME OwnInv, FollowInv, Grows, NEW u \in Users, listJSON'[u] \subseteq listJSON[u],
           \A j \in Due(u)' : j \in Due(u)
    PROVE  JSONFollows(u)'
<1> SUFFICES ASSUME Calm(u)', NEW body \in listJSON'[u] PROVE Split(u, body.items, <<>>)'
  BY DEF JSONFollows
<1>1. JSONFollows(u) /\ Calm(u) /\ body \in listJSON[u]
  BY CalmKept DEF FollowInv
<1>2. Split(u, body.items, <<>>)
  BY <1>1 DEF JSONFollows
<1>3. body.items \in Seq(Items) /\ AllOwned(u, body.items)
  BY <1>1 DEF OwnInv, OwnJSON, TypeInv, CacheTypes
<1>4. <<>> \in Seq(Items) /\ AllOwned(u, <<>>)
  BY DEF AllOwned
<1> QED
  BY <1>2, <1>3, <1>4, SplitKept

LEMMA MetKept ==
    ASSUME FollowInv, account' = account, crossed \subseteq crossed',
           \A d \in Clients : Same(d, {"op", "isu"})
    PROVE  MetInv'
<1>1. \A d \in Clients : req'[d].op = req[d].op /\ req'[d].isu = req[d].isu
  BY DEF Same
<1>2. \A d \in Clients : Me(d)' = Me(d)
  BY DEF Me
<1>3. ASSUME NEW c \in Clients, NEW d \in Clients
      PROVE  /\ c # d /\ Me(c) = Me(d) /\ {req[c].op, req[d].op} \in Disturbing
                => <<Me(c), {req[c].op, req[d].op}>> \in crossed'
             /\ c # d /\ req[c].op = "register" /\ req[d].op = "register"
                => req[c].isu # req[d].isu
  BY DEF FollowInv, MetInv
<1>4. ASSUME NEW c \in Clients, NEW d \in Clients
      PROVE  /\ c # d /\ Me(c)' = Me(d)' /\ {req'[c].op, req'[d].op} \in Disturbing
                => <<Me(c)', {req'[c].op, req'[d].op}>> \in crossed'
             /\ c # d /\ req'[c].op = "register" /\ req'[d].op = "register"
                => req'[c].isu # req'[d].isu
  BY <1>1, <1>2, <1>3
<1> QED
  BY <1>4 DEF MetInv, Disturbing

----------------------------------------------------------------------------
(* The steps of the lists.                                                 *)

\* The list keeps what it has done and what is left.
LEMMA ListGoesOn ==
    ASSUME OwnInv, FollowInv, Quiet, NEW c \in Clients, NEW pc,
           req'[c].pc = pc, Same(c, Fields \ {"pc", "over"}), req[c].op = "list",
           pc \notin {"order", "item", "knownItem"}, req[c].pc # "select",
           IF req[c].pc = "order" THEN pc = "select" ELSE pc # "select",
           pc \in {"setOrder", "setJSON", "done"} => req[c].pc \in {"setOrder", "setJSON"},
           pc \in {"look", "latest", "drop", "again"} /\ Calm(Me(c)) =>
               (RecordOf(Me(c), Subject(c)) # {})'
    PROVE  FollowHandler(c)'
<1>1. /\ FollowHandler(c) /\ req \in [Clients -> Handlers]
  BY DEF FollowInv, OwnInv, TypeInv
<1>2. /\ req'[c].pc = pc /\ req'[c].op = "list" /\ req'[c].items = req[c].items
      /\ req'[c].todo = req[c].todo /\ req'[c].due = req[c].due
  BY DEF Same, Fields
<1>3. Me(c)' = Me(c) /\ (Calm(Me(c))' <=> Calm(Me(c)))
  <2>1. Me(c)' = Me(c)
    BY QuietFacts
  <2> QED
    BY <2>1 DEF Quiet, Calm
<1>4. ASSUME Calm(Me(c)) PROVE ListFollows(c)'
  <2>1. ListFollows(c)
    BY <1>1, <1>4 DEF FollowHandler
  <2>2. pc = "select" => req[c].items = <<>> /\ req[c].todo = <<>>
    BY <2>1 DEF ListFollows
  <2>3. pc \in {"setOrder", "setJSON", "done"} => req[c].todo = <<>>
    BY <2>1 DEF ListFollows
  <2>4. pc # "select" => Split(Me(c), req[c].items, req[c].todo)
    BY <2>1 DEF ListFollows
  <2>5. Split(Me(c), req[c].items, req[c].todo)' <=> Split(Me(c), req[c].items, req[c].todo)
    <3>1. PICK u, s, t : u = Me(c) /\ s = req[c].items /\ t = req[c].todo
      OBVIOUS
    <3>2. Split(Me(c), req[c].items, req[c].todo)' <=> Split(u, s, t)'
      BY <1>2, <1>3, <3>1 DEF Split, InOrder, IdsRight, Before, Due, Owns, Id, InTurn
    <3> QED
      BY <3>1, <3>2, QuietFacts
  <2> QED
    BY <1>2, <1>4, <2>2, <2>3, <2>4, <2>5 DEF ListFollows
<1>5. req'[c].due \subseteq acked'
  BY <1>1, <1>2 DEF Quiet, FollowHandler
<1> QED
  BY <1>2, <1>3, <1>4, <1>5 DEF FollowHandler

\* The list moves on to other items or rows.
LEMMA ListMoves ==
    ASSUME OwnInv, FollowInv, Quiet, NEW c \in Clients, req[c].op = "list",
           Same(c, {"op", "due"}), NEW pc, NEW s, NEW t,
           req'[c].pc = pc, req'[c].items = s, req'[c].todo = t,
           pc \notin {"order", "select", "look", "latest", "drop", "again"},
           pc \in {"setOrder", "setJSON", "done"} => t = <<>>,
           Calm(Me(c)) => /\ Split(Me(c), s, t)
                          /\ pc \in {"item", "knownItem"} => Head(t).id = Id(Head(t).isu)
    PROVE  FollowHandler(c)'
<1>1. /\ FollowHandler(c) /\ req'[c].op = "list" /\ req'[c].due = req[c].due
  BY DEF FollowInv, Same
<1>2. PICK u : u = Me(c)
  OBVIOUS
<1>3. Me(c)' = u /\ (Calm(Me(c))' <=> Calm(u))
  BY <1>2 DEF Quiet, Calm, Me
<1>4. ASSUME Calm(u) PROVE ListFollows(c)'
  <2>1. Split(u, s, t)'
    BY <1>2, <1>4, QuietFacts
  <2>2. Split(Me(c), req[c].items, req[c].todo)' <=> Split(u, s, t)'
    BY <1>3 DEF Split, InOrder, IdsRight, Before, Due, Owns, Id, InTurn
  <2>3. pc \in {"item", "knownItem"} => Head(t).id = Id(Head(t).isu)'
    BY <1>2, <1>4, QuietFacts
  <2>4. Id(Head(req[c].todo).isu)' = Id(Head(t).isu)'
    BY DEF Id
  <2> QED
    BY <2>1, <2>2, <2>3, <2>4 DEF ListFollows
<1>5. req'[c].due \subseteq acked'
  BY <1>1 DEF Quiet, FollowHandler
<1> QED
  BY <1>1, <1>2, <1>3, <1>4, <1>5 DEF FollowHandler

LEMMA FollowReadOrder ==
    ASSUME OwnInv, FollowInv, NEW c \in Clients, ReadOrder(c) PROVE FollowHandler(c)'
<1>0. /\ Quiet /\ req \in [Clients -> Handlers] /\ CacheTypes /\ Me(c) \in Users
      /\ req[c].op = "list" /\ req[c].pc = "order" /\ FollowHandler(c)
  BY DEF OwnInv, TypeInv, CacheTypes, Me, ReadOrder, Serving, Quiet, history, FollowInv
<1>1. CASE Step(c, To("select"))
  <2>1. req'[c].pc = "select" /\ Same(c, Fields \ {"pc", "over"})
    BY <1>0, <1>1, ToFacts DEF Same
  <2> QED
    BY <1>0, <2>1, ListGoesOn
<1>2. CASE \E o \in order[Me(c)] :
              Step(c, [pc |-> IF o = <<>> THEN "setJSON" ELSE "known",
                       todo |-> [n \in DOMAIN o |-> Plain(o[n], Partial)]])
  <2>1. PICK o \in order[Me(c)] :
              Step(c, [pc |-> IF o = <<>> THEN "setJSON" ELSE "known",
                       todo |-> [n \in DOMAIN o |-> Plain(o[n], Partial)]])
    BY <1>2
  <2> DEFINE todo == [n \in DOMAIN o |-> Plain(o[n], Partial)]
             pc == IF o = <<>> THEN "setJSON" ELSE "known"
  <2>2. o \in Seq(Isus)
    BY <1>0 DEF CacheTypes
  <2>3. DOMAIN todo = DOMAIN o /\ \A n \in DOMAIN o : todo[n].isu = o[n]
    BY <2>2, OrderFacts
  <2>4. pc = "setJSON" => todo = <<>>
    <3> SUFFICES ASSUME o = <<>> PROVE todo = <<>>
      OBVIOUS
    <3>1. DOMAIN todo = {}
      BY <2>3
    <3> QED
      BY <3>1
  <2>5. pc \in {"setJSON", "known"}
    OBVIOUS
  <2> HIDE DEF todo, pc
  <2>6. Step(c, [pc |-> pc, todo |-> todo])
    BY <2>1 DEF todo, pc
  <2>7. /\ req'[c].pc = pc /\ req'[c].todo = todo /\ req'[c].items = req[c].items
        /\ Same(c, {"op", "due"})
    BY <1>0, <2>6, StepFacts DEF Same, Fields
  <2>8. ASSUME Calm(Me(c)) PROVE req[c].items = <<>> /\ Split(Me(c), <<>>, todo)
    <3>1. req[c].items = <<>>
      BY <1>0, <2>8 DEF FollowHandler, ListFollows
    <3>2. OrderFollows(Me(c))
      BY <1>0 DEF FollowInv
    <3>3. ASSUME NEW j \in Due(Me(c)) PROVE j \in Names(todo)
      <4>1. PICK p \in order[Me(c)] : j \in Range(p)
        BY <2>8, <3>2 DEF OrderFollows
      <4>2. p = o
        BY <2>1, <3>2, <4>1 DEF OrderFollows
      <4>3. PICK n \in DOMAIN o : o[n] = j
        BY <4>1, <4>2 DEF Range
      <4> QED
        BY <2>3, <4>3 DEF Names
    <3>4. InOrder(Me(c), todo)
      BY <2>3, <2>8, <3>2 DEF OrderFollows, InOrder
    <3> QED
      BY <3>1, <3>3, <3>4 DEF Split, InOrder, IdsRight
  <2>9. PICK s : s = req[c].items
    OBVIOUS
  <2> QED
    BY <1>0, <2>4, <2>5, <2>7, <2>8, <2>9, ListMoves
<1> QED
  BY <1>1, <1>2 DEF ReadOrder

\* The row in work gets an id: the ISUs stay.
LEMMA SplitHead ==
    ASSUME NEW u, NEW s, NEW t \in Seq(Items), t # <<>>, NEW x \in Items,
           x.isu = Head(t).isu, Split(u, s, t)
    PROVE  Split(u, s, <<x>> \o Tail(t)) /\ Head(<<x>> \o Tail(t)) = x
<1> DEFINE v == <<x>> \o Tail(t)
<1>1. /\ Head(t) = t[1] /\ Tail(t) \in Seq(Items) /\ Len(Tail(t)) = Len(t) - 1
      /\ \A n \in 1..Len(Tail(t)) : Tail(t)[n] = t[n + 1]
  BY HeadTailProperties
<1>2. Len(t) \in Nat /\ Len(t) # 0 /\ DOMAIN t = 1..Len(t)
  BY LenProperties, EmptySeq
<1>3. <<x>> \in Seq(Items) /\ Len(<<x>>) = 1 /\ <<x>>[1] = x
  OBVIOUS
<1>4. /\ v \in Seq(Items) /\ Len(v) = Len(t)
      /\ \A n \in 1..Len(t) : v[n] = IF n <= 1 THEN <<x>>[n] ELSE Tail(t)[n - 1]
  <2>1. /\ v \in Seq(Items) /\ Len(v) = 1 + Len(Tail(t))
        /\ \A n \in 1..(1 + Len(Tail(t))) :
              v[n] = IF n <= 1 THEN <<x>>[n] ELSE Tail(t)[n - 1]
    BY <1>1, <1>3, ConcatProperties
  <2>2. 1 + Len(Tail(t)) = Len(t)
    BY <1>1, <1>2
  <2> QED
    BY <2>1, <2>2
<1>5. DOMAIN v = DOMAIN t
  BY <1>2, <1>4, LenProperties
<1>6. \A n \in DOMAIN t : v[n].isu = t[n].isu
  <2> SUFFICES ASSUME NEW n \in 1..Len(t) PROVE v[n].isu = t[n].isu
    BY <1>2
  <2>1. CASE n = 1
    BY <1>1, <1>3, <1>4, <2>1
  <2>2. CASE n # 1
    <3>1. n - 1 \in 1..Len(Tail(t)) /\ ~(n <= 1) /\ (n - 1) + 1 = n
      BY <1>1, <1>2, <2>2
    <3> QED
      BY <1>1, <1>4, <3>1
  <2> QED
    BY <2>1, <2>2
<1>7. Head(v) = x
  BY <1>1, HeadOfCons
<1> HIDE DEF v
<1>8. Names(v) = Names(t)
  BY <1>5, <1>6 DEF Names
<1>9. InOrder(u, v)
  BY <1>5, <1>6 DEF Split, InOrder
<1>10. \A m \in DOMAIN s, n \in DOMAIN v : Before(u, s[m].isu, v[n].isu)
  BY <1>5, <1>6 DEF Split
<1>11. Split(u, s, v)
  BY <1>8, <1>9, <1>10 DEF Split
<1> QED
  BY <1>7, <1>11 DEF v

\* The row in work is done.
LEMMA SplitMove ==
    ASSUME NEW u, NEW s \in Seq(Items), NEW t \in Seq(Items), t # <<>>, NEW x \in Items,
           x.isu = Head(t).isu, x.id = Id(x.isu), Split(u, s, t)
    PROVE  Split(u, Append(s, x), Tail(t))
<1> DEFINE a == Append(s, x)
           r == Tail(t)
           k == Len(s) + 1
<1>1. /\ Head(t) = t[1] /\ r \in Seq(Items) /\ Len(r) = Len(t) - 1
      /\ \A n \in 1..Len(r) : r[n] = t[n + 1]
  BY HeadTailProperties
<1>2. /\ Len(t) \in Nat /\ Len(t) # 0 /\ DOMAIN t = 1..Len(t) /\ Len(r) \in Nat
      /\ DOMAIN r = 1..Len(r)
  BY <1>1, LenProperties, EmptySeq
<1>3. 1 \in DOMAIN t /\ t[1].isu = x.isu
  BY <1>1, <1>2
<1>4. ASSUME NEW n \in DOMAIN r
      PROVE  n \in Nat /\ n + 1 \in DOMAIN t /\ r[n] = t[n + 1] /\ 1 < n + 1
  BY <1>1, <1>2, <1>4
<1>5. \A n \in DOMAIN t : n = 1 \/ (n - 1 \in DOMAIN r /\ r[n - 1] = t[n])
  <2> SUFFICES ASSUME NEW n \in DOMAIN t, n # 1 PROVE n - 1 \in DOMAIN r /\ r[n - 1] = t[n]
    OBVIOUS
  <2>1. n - 1 \in 1..Len(r) /\ (n - 1) + 1 = n
    BY <1>1, <1>2
  <2> QED
    BY <1>1, <1>2, <2>1
<1>6. /\ \A n \in DOMAIN a : \/ n \in DOMAIN s /\ a[n] = s[n]
                             \/ n = k /\ a[n] = x
      /\ DOMAIN s \subseteq DOMAIN a /\ k \in DOMAIN a /\ a[k] = x
      /\ \A n \in DOMAIN s : n \in Nat /\ n < k
  BY AppendFacts
<1>7. k \in Nat
  BY LenProperties
<1>8. \A n \in DOMAIN s : a[n] = s[n]
  <2> SUFFICES ASSUME NEW n \in DOMAIN s PROVE a[n] = s[n]
    OBVIOUS
  <2>1. n # k /\ n \in DOMAIN a
    BY <1>6, <1>7
  <2> QED
    BY <1>6, <2>1
<1> HIDE DEF a, r, k
<1>9. ASSUME NEW j \in Due(u) PROVE j \in Names(a) \cup Names(r)
  <2>1. CASE j \in Names(s)
    <3>1. PICK n \in DOMAIN s : s[n].isu = j
      BY <2>1 DEF Names
    <3> QED
      BY <1>6, <1>8, <3>1 DEF Names
  <2>2. CASE j \in Names(t)
    <3>1. PICK n \in DOMAIN t : t[n].isu = j
      BY <2>2 DEF Names
    <3>2. CASE n = 1
      BY <1>3, <1>6, <3>1, <3>2 DEF Names
    <3>3. CASE n # 1
      BY <1>5, <3>1, <3>3 DEF Names
    <3> QED
      BY <3>2, <3>3
  <2> QED
    BY <1>9, <2>1, <2>2 DEF Split
<1>10. InOrder(u, a)
  <2> SUFFICES ASSUME NEW m \in DOMAIN a, NEW n \in DOMAIN a, m < n
               PROVE  Before(u, a[m].isu, a[n].isu)
    BY DEF InOrder
  <2>1. CASE m \in DOMAIN s /\ n \in DOMAIN s
    BY <1>8, <2>1 DEF Split, InOrder
  <2>2. CASE m \in DOMAIN s /\ n = k
    BY <1>3, <1>6, <1>8, <2>2 DEF Split
  <2>3. CASE m = k
    <3>1. n = k \/ n < k
      BY <1>6
    <3> QED
      BY <1>6, <1>7, <2>3, <3>1
  <2> QED
    BY <1>6, <2>1, <2>2, <2>3
<1>11. InOrder(u, r)
  <2> SUFFICES ASSUME NEW m \in DOMAIN r, NEW n \in DOMAIN r, m < n
               PROVE  Before(u, r[m].isu, r[n].isu)
    BY DEF InOrder
  <2>1. /\ m + 1 \in DOMAIN t /\ n + 1 \in DOMAIN t /\ m + 1 < n + 1
        /\ r[m] = t[m + 1] /\ r[n] = t[n + 1]
    BY <1>4
  <2> QED
    BY <2>1 DEF Split, InOrder
<1>12. ASSUME NEW m \in DOMAIN a, NEW n \in DOMAIN r
       PROVE  Before(u, a[m].isu, r[n].isu)
  <2>1. n + 1 \in DOMAIN t /\ r[n] = t[n + 1] /\ 1 < n + 1
    BY <1>4
  <2>2. CASE m \in DOMAIN s
    BY <1>8, <2>1, <2>2 DEF Split
  <2>3. CASE m = k
    <3>1. Before(u, t[1].isu, t[n + 1].isu)
      BY <1>3, <2>1 DEF Split, InOrder
    <3> QED
      BY <1>3, <1>6, <2>1, <2>3, <3>1
  <2> QED
    BY <1>6, <2>2, <2>3
<1>13. IdsRight(a)
  BY <1>6 DEF Split, IdsRight
<1>14. Split(u, a, r)
  BY <1>9, <1>10, <1>11, <1>12, <1>13 DEF Split
<1> QED
  BY <1>14 DEF a, r

LEMMA FollowReadRecord ==
    ASSUME OwnInv, FollowInv, NEW c \in Clients, ReadRecord(c) PROVE FollowHandler(c)'
<1>0. /\ Quiet /\ req \in [Clients -> Handlers] /\ CacheTypes /\ Me(c) \in Users
      /\ req[c].op = "list" /\ req[c].pc = "known" /\ req[c].pc \in RowPcs
      /\ FollowHandler(c) /\ req[c] \in Handlers /\ TypeInv /\ Place(c)
  BY DEF OwnInv, TypeInv, CacheTypes, Me, ReadRecord, Serving, Quiet, history, FollowInv,
     RowPcs
<1>1. Subject(c) \in Isus /\ Owns(Me(c), Subject(c)) /\ Subject(c) = Head(req[c].todo).isu
  BY <1>0, SubjectOwned DEF Subject
<1>2. PICK s \in Seq(Items), t \in Seq(Items) :
          s = req[c].items /\ t = req[c].todo /\ t # <<>>
  BY <1>0 DEF Handlers, Place
<1>3. CASE \E r \in RecordOf(Me(c), Subject(c)) :
              Step(c, [pc |-> "knownItem",
                       todo |-> <<Plain(Subject(c), r.id)>> \o Tail(req[c].todo)])
  <2>1. PICK r \in RecordOf(Me(c), Subject(c)) :
              Step(c, [pc |-> "knownItem",
                       todo |-> <<Plain(Subject(c), r.id)>> \o Tail(req[c].todo)])
    BY <1>3
  <2>2. r.id = Id(Subject(c)) /\ r.id \in Nat
    BY <1>0, <1>1, <2>1 DEF RecordOf, CacheTypes, OwnInv, OwnRecord
  <2>3. PICK x : x = Plain(Subject(c), r.id)
    OBVIOUS
  <2>4. x \in Items /\ x.isu = Subject(c) /\ x.id = Id(Subject(c))
    BY <1>1, <2>2, <2>3, PlainFacts
  <2>5. Step(c, [pc |-> "knownItem", todo |-> <<x>> \o Tail(t)])
    BY <1>2, <2>1, <2>3
  <2>6. /\ req'[c].pc = "knownItem" /\ req'[c].todo = <<x>> \o Tail(t)
        /\ req'[c].items = s /\ Same(c, {"op", "due"})
    BY <1>0, <1>2, <2>5, StepFacts DEF Same, Fields
  <2>7. ASSUME Calm(Me(c)) PROVE Split(Me(c), s, <<x>> \o Tail(t)) /\ Head(<<x>> \o Tail(t)) = x
    <3>1. Split(Me(c), s, t)
      BY <1>0, <1>2, <2>7 DEF FollowHandler, ListFollows
    <3> QED
      BY <1>1, <1>2, <2>4, <3>1, SplitHead
  <2>8. PICK todo : todo = <<x>> \o Tail(t)
    OBVIOUS
  <2> QED
    BY <1>0, <2>4, <2>6, <2>7, <2>8, ListMoves
<1>4. CASE Step(c, [pc |-> "select", todo |-> <<>>, items |-> <<>>, over |-> FALSE])
  <2>1. /\ req'[c].pc = "select" /\ req'[c].todo = <<>> /\ req'[c].items = <<>>
        /\ req'[c].op = "list" /\ req'[c].due = req[c].due
    BY <1>0, <1>4, StepFacts DEF Fields
  <2>2. ListFollows(c)'
    BY <2>1 DEF ListFollows
  <2> QED
    BY <1>0, <2>1, <2>2 DEF FollowHandler, Quiet
<1> QED
  BY <1>3, <1>4 DEF ReadRecord

LEMMA FollowSelectList ==
    ASSUME OwnInv, FollowInv, NEW c \in Clients, SelectList(c) PROVE FollowHandler(c)'
<1>0. /\ Quiet /\ req \in [Clients -> Handlers] /\ CacheTypes /\ Me(c) \in Users
      /\ req[c].op = "list" /\ req[c].pc = "select" /\ FollowHandler(c)
  BY DEF OwnInv, TypeInv, CacheTypes, Me, SelectList, Serving, Quiet, history, FollowInv
<1>1. PICK saved \in Saved :
          Step(c, [pc |-> IF ListOf(Me(c), saved) = <<>> THEN "setOrder" ELSE "owner",
                   todo |-> ListOf(Me(c), saved)])
  BY DEF SelectList
<1>2. PICK t : t = ListOf(Me(c), saved)
  OBVIOUS
<1> DEFINE pc == IF t = <<>> THEN "setOrder" ELSE "owner"
<1>3. pc \in {"setOrder", "owner"} /\ (pc = "setOrder" => t = <<>>)
  OBVIOUS
<1>4. Step(c, [pc |-> pc, todo |-> t])
  BY <1>1, <1>2
<1> HIDE DEF pc
<1>5. /\ req'[c].pc = pc /\ req'[c].todo = t /\ req'[c].items = req[c].items
      /\ Same(c, {"op", "due"})
  BY <1>0, <1>4, StepFacts DEF Same, Fields
<1>6. ASSUME Calm(Me(c)) PROVE req[c].items = <<>> /\ Split(Me(c), <<>>, t)
  <2>1. req[c].items = <<>>
    BY <1>0, <1>6 DEF FollowHandler, ListFollows
  <2>2. InOrder(Me(c), t) /\ \A i \in Isus : Owns(Me(c), i) => i \in Names(t)
    BY <1>0, <1>2, ListOfOrder
  <2>3. \A j \in Due(Me(c)) : j \in Isus /\ Owns(Me(c), j)
    <3> SUFFICES ASSUME NEW j, Owns(Me(c), j) PROVE j \in Isus
      BY DEF Due
    <3>1. [isu |-> j, user |-> Me(c)] \in [isu : Isus, user : Users]
      BY <1>0, RangeOfSeq DEF CacheTypes, Owns
    <3>2. [isu |-> j, user |-> Me(c)].isu \in Isus
      BY <3>1
    <3> QED
      BY <3>2
  <2> QED
    BY <2>1, <2>2, <2>3 DEF Split, InOrder, IdsRight
<1>7. PICK s : s = req[c].items
  OBVIOUS
<1> QED
  BY <1>0, <1>3, <1>5, <1>6, <1>7, ListMoves

LEMMA FollowReadBack ==
    ASSUME OwnInv, FollowInv, NEW c \in Clients, ReadBack(c) PROVE FollowHandler(c)'
<1>0. /\ Quiet /\ req \in [Clients -> Handlers] /\ CacheTypes /\ Me(c) \in Users
      /\ req[c].op = "list" /\ req[c].pc = "again" /\ req[c].pc \in RowPcs
      /\ FollowHandler(c) /\ req[c] \in Handlers /\ TypeInv /\ Place(c)
  BY DEF OwnInv, TypeInv, CacheTypes, Me, ReadBack, Serving, Quiet, history, FollowInv,
     RowPcs
<1>1. Subject(c) \in Isus /\ Owns(Me(c), Subject(c)) /\ Subject(c) = Head(req[c].todo).isu
  BY <1>0, SubjectOwned DEF Subject
<1>2. PICK s \in Seq(Items), t \in Seq(Items) :
          s = req[c].items /\ t = req[c].todo /\ t # <<>>
  BY <1>0 DEF Handlers, Place
<1> DEFINE id == IF RecordOf(Me(c), Subject(c)) = {} THEN Partial
                 ELSE record[Subject(c)].id
<1>3. id \in Nat
  BY <1>0, <1>1 DEF CacheTypes, Partial
<1>4. RecordOf(Me(c), Subject(c)) # {} => id = Id(Subject(c))
  <2> SUFFICES ASSUME RecordOf(Me(c), Subject(c)) # {} PROVE id = Id(Subject(c))
    OBVIOUS
  <2>1. record[Subject(c)].user = Me(c) /\ record[Subject(c)].id # Partial
    BY DEF RecordOf
  <2>2. record[Subject(c)].id \in {Partial, Id(Subject(c))}
    BY <1>0, <1>1, <2>1 DEF OwnInv, OwnRecord
  <2> QED
    BY <2>1, <2>2
<1>5. Step(c, [pc |-> "item", todo |-> <<Plain(Subject(c), id)>> \o Tail(req[c].todo)])
  BY DEF ReadBack
<1> HIDE DEF id
<1>6. PICK x : x = Plain(Subject(c), id)
  OBVIOUS
<1>7. x \in Items /\ x.isu = Subject(c) /\ x.id = id
  BY <1>1, <1>3, <1>6, PlainFacts
<1>8. /\ req'[c].pc = "item" /\ req'[c].todo = <<x>> \o Tail(t)
      /\ req'[c].items = s /\ Same(c, {"op", "due"})
  <2>1. Step(c, [pc |-> "item", todo |-> <<x>> \o Tail(t)])
    BY <1>2, <1>5, <1>6
  <2> QED
    BY <1>0, <1>2, <2>1, StepFacts DEF Same, Fields
<1>9. ASSUME Calm(Me(c))
      PROVE  /\ Split(Me(c), s, <<x>> \o Tail(t))
             /\ Head(<<x>> \o Tail(t)) = x /\ x.id = Id(x.isu)
  <2>1. Split(Me(c), s, t) /\ RecordOf(Me(c), Subject(c)) # {}
    BY <1>0, <1>2, <1>9 DEF FollowHandler, ListFollows
  <2> QED
    BY <1>1, <1>2, <1>4, <1>7, <2>1, SplitHead
<1>10. PICK todo : todo = <<x>> \o Tail(t)
  OBVIOUS
<1> QED
  BY <1>0, <1>8, <1>9, <1>10, ListMoves

LEMMA FollowBuildItem ==
    ASSUME OwnInv, FollowInv, NEW c \in Clients, BuildItem(c) PROVE FollowHandler(c)'
<1> DEFINE new == [Head(req[c].todo) EXCEPT !.at = latest[Subject(c)]]
           pc == CASE req[c].pc = "item" /\ Tail(req[c].todo) # <<>> -> "owner"
                   [] req[c].pc = "item" /\ Tail(req[c].todo) = <<>> -> "setOrder"
                   [] req[c].pc = "knownItem" /\ Tail(req[c].todo) # <<>> -> "known"
                   [] OTHER -> "setJSON"
<1>0. /\ Quiet /\ req \in [Clients -> Handlers] /\ CacheTypes /\ Me(c) \in Users
      /\ req[c].pc \in {"item", "knownItem"} /\ req[c].pc \in RowPcs
      /\ FollowHandler(c) /\ req[c] \in Handlers /\ TypeInv /\ Place(c)
  BY DEF OwnInv, TypeInv, CacheTypes, Me, BuildItem, Quiet, history, FollowInv, RowPcs
<1>1. req[c].op = "list"
  BY <1>0 DEF Place, Fits, Handlers, Ops
<1>2. PICK s \in Seq(Items), t \in Seq(Items) :
          s = req[c].items /\ t = req[c].todo /\ t # <<>>
  BY <1>0, <1>1 DEF Handlers, Place
<1>3. Head(t) \in Items /\ Subject(c) \in Isus
  BY <1>0, <1>1, <1>2, SubjectFacts
<1>4. new \in Items /\ new.isu = Head(t).isu /\ new.id = Head(t).id
  BY <1>0, <1>2, <1>3 DEF Items, CacheTypes
<1>5. /\ pc \in {"owner", "known", "setOrder", "setJSON"}
      /\ pc \in {"setOrder", "setJSON"} => Tail(t) = <<>>
  BY <1>0, <1>2
<1>6. Step(c, [todo |-> Tail(req[c].todo), items |-> Append(req[c].items, new), pc |-> pc])
  BY DEF BuildItem
<1>7. PICK x : x = new
  OBVIOUS
<1> HIDE DEF new, pc
<1>8. /\ req'[c].pc = pc /\ req'[c].todo = Tail(t) /\ req'[c].items = Append(s, x)
      /\ Same(c, {"op", "due"})
  <2>1. Step(c, [todo |-> Tail(t), items |-> Append(s, x), pc |-> pc])
    BY <1>2, <1>6, <1>7
  <2> QED
    BY SMTT(30), <1>0, <2>1, StepFacts DEF Same, Fields
<1>9. ASSUME Calm(Me(c)) PROVE Split(Me(c), Append(s, x), Tail(t))
  <2>1. Split(Me(c), s, t) /\ Head(t).id = Id(Head(t).isu)
    BY <1>0, <1>1, <1>2, <1>9 DEF FollowHandler, ListFollows
  <2> QED
    BY <1>2, <1>4, <1>7, <2>1, SplitMove
<1>10. PICK a, r : a = Append(s, x) /\ r = Tail(t)
  OBVIOUS
<1> QED
  BY <1>0, <1>1, <1>5, <1>8, <1>9, <1>10, ListMoves

----------------------------------------------------------------------------
(* The other steps of the handlers.                                        *)

\* A handler of one ISU goes on.
LEMMA OneGoesOn ==
    ASSUME OwnInv, FollowInv, Quiet, NEW c \in Clients, req[c].op # "list",
           Same(c, {"op", "isu", "due"}), order' = order, req[c].pc # "done"
    PROVE  FollowHandler(c)'
<1>1. FollowHandler(c)
  BY DEF FollowInv
<1>2. /\ req'[c].op = req[c].op /\ req'[c].isu = req[c].isu /\ req'[c].due = req[c].due
  BY DEF Same
<1>3. Me(c)' = Me(c) /\ (Calm(Me(c))' <=> Calm(Me(c)))
  BY DEF Quiet, Me, Calm
<1>4. RegisterFollows(c)' <=> RegisterFollows(c)
  <2>1. PICK u, i : u = Me(c) /\ i = req[c].isu
    OBVIOUS
  <2>2. RegisterFollows(c)' <=> \A o \in order[u] : \A n \in DOMAIN o : Before(u, i, o[n])'
    BY <1>2, <1>3, <2>1 DEF RegisterFollows
  <2> QED
    BY <2>1, <2>2, QuietFacts DEF RegisterFollows
<1> QED
  BY <1>1, <1>2, <1>3, <1>4 DEF FollowHandler, Quiet

\* A record is there while the list of its owner needs it: only a condition
\* handler of the owner takes the id away.
LEMMA RecordStays ==
    ASSUME OwnInv, FollowInv, NEW c \in Clients, NEW d \in Clients, c # d, SetRecord(c),
           req'[d] = req[d], req[d].op = "list", Calm(Me(d)),
           req[d].pc \in {"look", "latest", "drop", "again"},
           RecordOf(Me(d), Subject(d)) # {}
    PROVE  RecordOf(Me(d), Subject(d))' # {}
<1>0. /\ CacheTypes /\ Me(d) \in Users /\ Me(c) \in Users /\ UNCHANGED <<account, rows>>
      /\ req[c] \in Handlers /\ Place(c)
      /\ record \in [Isus -> [user : Users \cup {Nobody}, id : Nat]]
  BY DEF OwnInv, TypeInv, CacheTypes, Me, SetRecord
<1>1. /\ Subject(d) \in Isus /\ Owns(Me(d), Subject(d))
      /\ Me(d)' = Me(d) /\ Subject(d)' = Subject(d)
  BY <1>0, SubjectOwned DEF RowPcs, Me, Subject
<1>2. Subject(c) \in Isus /\ Owns(Me(c), Subject(c))
  BY SubjectOwned DEF SetRecord, RowPcs
<1>3. record'[Subject(d)].user = Me(d) /\ record'[Subject(d)].id # Partial
  <2>1. CASE Subject(d) # Subject(c)
    <3>1. record'[Subject(d)] = record[Subject(d)]
      BY <1>0, <1>1, <2>1 DEF SetRecord
    <3> QED
      BY <3>1 DEF RecordOf
  <2>2. CASE Subject(d) = Subject(c)
    <3>1. Me(c) = Me(d)
      BY <1>0, <1>1, <1>2, <2>2, OneOwner
    <3>2. req[c].op # "conditions"
      <4>1. SUFFICES ASSUME req[c].op = "conditions" PROVE FALSE
        OBVIOUS
      <4>2. {req[d].op, req[c].op} = {"list", "conditions"}
        BY <4>1
      <4>3. <<Me(d), {"list", "conditions"}>> \in crossed
        BY <3>1, <4>2 DEF FollowInv, MetInv, Disturbing
      <4> QED
        BY <4>3 DEF Calm
    <3>3. record'[Subject(d)] = [user |-> Me(c), id |-> Id(Subject(c))]
      BY <1>0, <1>1, <2>2, <3>2 DEF SetRecord
    <3>4. Id(Subject(c)) # 0
      BY <1>0, <1>2, OwnedIds
    <3> QED
      BY <3>1, <3>3, <3>4 DEF Partial
  <2> QED
    BY <2>1, <2>2
<1> QED
  BY <1>1, <1>3 DEF RecordOf

\* A list that is served together with a registration of its user is not calm.
LEMMA Disturbed ==
    ASSUME FollowInv, NEW c \in Clients, NEW d \in Clients, c # d, Me(c) = Me(d),
           req[c].op = "list", req[d].op \in {"register", "conditions"}
    PROVE  ~Calm(Me(c)) /\ ~Calm(Me(d))
<1>1. {req[c].op, req[d].op} \in Disturbing
  BY DEF Disturbing
<1>2. <<Me(c), {req[c].op, req[d].op}>> \in crossed
  BY <1>1 DEF FollowInv, MetInv
<1> QED
  BY <1>2 DEF Calm

LEMMA HandleQuiet ==
    ASSUME OwnInv, FollowInv, NEW c \in Clients, Handle(c), ~Prepend(c)
    PROVE  /\ Quiet /\ Grows
           /\ \A d \in Clients \ {c} : Same(d, Fields \ {"over"})
           /\ ~FillLatest(c) => \A d \in Clients \ {c} : req'[d] = req[d]
           /\ ~SetRecord(c) => record' = record
           /\ ~SetOrder(c) => order' = order
           /\ ~SetJSON(c) => \A u \in Users : listJSON'[u] \subseteq listJSON[u]
           /\ ~Done(c) => Same(c, {"op", "isu", "due"})
<1>0. TypeInv /\ req \in [Clients -> Handlers]
  BY DEF OwnInv, TypeInv
<1>1. Quiet
  BY DEF Handle, SelectRow, SetOwner, SetRecord, SetIcon, StartFill, ReadOrder,
     ReadRecord, SelectList, LookLatest, FillLatest, FillDrop, ReadBack, BuildItem,
     SetOrder, SetJSON, Done, history, Quiet
<1>2. Grows
  BY <1>0, <1>1, HandleCaches, QuietGrows
<1>3. ASSUME ~FillLatest(c), ~Done(c)
      PROVE  (\A d \in Clients \ {c} : req'[d] = req[d]) /\ Same(c, {"op", "isu", "due"})
  <2> DEFINE Gone == \E changes : /\ Step(c, changes)
                                 /\ {"op", "isu", "due"} \cap DOMAIN changes = {}
  <2>3. ASSUME NEW pc, Step(c, To(pc)) PROVE Gone
    <3>1. DOMAIN To(pc) = {"pc"}
      BY DEF To
    <3> QED
      BY <2>3, <3>1
  <2>4. ASSUME NEW items, Step(c, Reply(items)) PROVE Gone
    <3>1. DOMAIN Reply(items) = {"pc", "items"}
      BY DEF Reply
    <3> QED
      BY <2>4, <3>1
  <2>5. ASSUME NEW pc, NEW todo, Step(c, [pc |-> pc, todo |-> todo]) PROVE Gone
    <3>1. DOMAIN [pc |-> pc, todo |-> todo] = {"pc", "todo"}
      OBVIOUS
    <3> QED
      BY <2>5, <3>1
  <2>6. ASSUME NEW pc, NEW todo, NEW items,
               Step(c, [pc |-> pc, todo |-> todo, items |-> items, over |-> FALSE])
        PROVE  Gone
    <3>1. DOMAIN [pc |-> pc, todo |-> todo, items |-> items, over |-> FALSE] =
              {"pc", "todo", "items", "over"}
      OBVIOUS
    <3> QED
      BY <2>6, <3>1
  <2>7. ASSUME NEW pc, NEW todo, NEW items,
               Step(c, [todo |-> todo, items |-> items, pc |-> pc])
        PROVE  Gone
    <3>1. DOMAIN [todo |-> todo, items |-> items, pc |-> pc] = {"pc", "todo", "items"}
      OBVIOUS
    <3> QED
      BY <2>7, <3>1
  <2> HIDE DEF Gone
  <2>8. ASSUME SelectRow(c) PROVE Gone
    BY <2>3, <2>4, <2>8 DEF SelectRow
  <2>9. ASSUME SetOwner(c) PROVE Gone
    BY <2>3, <2>9 DEF SetOwner
  <2>10. ASSUME SetRecord(c) PROVE Gone
    <3>1. \/ Step(c, To("icon")) \/ Step(c, To("look"))
          \/ Step(c, Reply(<<Plain(Subject(c), Id(Subject(c)))>>))
      BY <2>10 DEF SetRecord
    <3> QED
      BY <2>3, <2>4, <3>1
  <2>11. ASSUME SetIcon(c) \/ FillDrop(c) \/ SetOrder(c) \/ SetJSON(c) \/ LookLatest(c) PROVE Gone
    <3>1. \E pc : Step(c, To(pc))
      BY <2>11 DEF SetIcon, FillDrop, SetOrder, SetJSON, LookLatest
    <3> QED
      BY <2>3, <3>1
  <2>12. ASSUME StartFill(c) PROVE Gone
    BY <2>4, <2>12 DEF StartFill
  <2>13. ASSUME ReadOrder(c) PROVE Gone
    BY <2>3, <2>5, <2>13 DEF ReadOrder
  <2>14. ASSUME ReadRecord(c) PROVE Gone
    BY <2>5, <2>6, <2>14 DEF ReadRecord
  <2>15. ASSUME SelectList(c) PROVE Gone
    BY <2>5, <2>15 DEF SelectList
  <2>16. ASSUME ReadBack(c) PROVE Gone
    BY <2>5, <2>16 DEF ReadBack
  <2>17. ASSUME BuildItem(c) PROVE Gone
    BY <2>7, <2>17 DEF BuildItem
  <2>1. Gone
    BY <1>3, <2>8, <2>9, <2>10, <2>11, <2>12, <2>13, <2>14, <2>15, <2>16, <2>17 DEF Handle
  <2>2. PICK changes : Step(c, changes) /\ {"op", "isu", "due"} \cap DOMAIN changes = {}
    BY <2>1 DEF Gone
  <2>18. /\ Moved(c) /\ \A f \in Fields : req'[c][f] =
               IF f \in DOMAIN changes THEN changes[f] ELSE req[c][f]
    BY <1>0, <2>2, StepFacts
  <2> QED
    BY <2>2, <2>18 DEF Moved, Same, Fields
<1>4. CASE Done(c)
  <2>1. (\A d \in Clients \ {c} : req'[d] = req[d]) /\ ~FillLatest(c)
    BY <1>0, <1>4 DEF Done, FillLatest, Serving
  <2> QED
    BY <1>1, <1>2, <1>4, <2>1 DEF Done, caches, Same, SetRecord, SetOrder, SetJSON
<1>5. CASE FillLatest(c)
  <2>1. \A d \in Clients : \A f \in Fields \ {"over", "pc"} : req'[d][f] = req[d][f]
    <3> DEFINE row == Head(req[c].todo)
               over == Overtaken(row.isu, row.at)
    <3>1. CASE Step(c, To("again"))
      BY <1>0, <3>1, ToFacts DEF Moved, Same
    <3>2. CASE req' = [over EXCEPT ![c].pc = "drop"]
      <4>1. \A d \in Clients : over[d] \in Handlers /\
                \A f \in Fields \ {"over"} : over[d][f] = req[d][f]
        BY <1>0, OvertakenFacts
      <4>2. DOMAIN over = Clients
        BY DEF Overtaken
      <4> HIDE DEF over
      <4>3. /\ \A d \in Clients \ {c} : req'[d] = over[d]
            /\ req'[c] = [over[c] EXCEPT !.pc = "drop"]
        BY <3>2, <4>2
      <4> QED
        BY <4>1, <4>3 DEF Handlers, Fields
    <3> QED
      BY <1>5, <3>1, <3>2 DEF FillLatest
  <2>2. \A d \in Clients \ {c} : Same(d, Fields \ {"over"})
    <3> DEFINE row == Head(req[c].todo)
               over == Overtaken(row.isu, row.at)
    <3>1. CASE Step(c, To("again"))
      BY <1>0, <3>1, ToFacts DEF Moved, Same
    <3>2. CASE req' = [over EXCEPT ![c].pc = "drop"]
      <4>1. \A d \in Clients : \A f \in Fields \ {"over"} : over[d][f] = req[d][f]
        BY <1>0, OvertakenFacts
      <4>2. DOMAIN over = Clients
        BY DEF Overtaken
      <4> HIDE DEF over
      <4>3. \A d \in Clients \ {c} : req'[d] = over[d]
        BY <3>2, <4>2
      <4> QED
        BY <4>1, <4>3 DEF Same
    <3> QED
      BY <1>5, <3>1, <3>2 DEF FillLatest
  <2>3. Same(c, {"op", "isu", "due"})
    BY <2>1 DEF Same, Fields
  <2>4. UNCHANGED <<record, order, listJSON>>
    BY <1>5 DEF FillLatest
  <2> QED
    BY <1>1, <1>2, <1>5, <2>2, <2>3, <2>4
<1>6. ASSUME ~SetRecord(c), ~FillLatest(c), ~Done(c) PROVE record' = record
  BY <1>6 DEF Handle, SelectRow, SetOwner, SetIcon, StartFill, ReadOrder, ReadRecord,
     SelectList, LookLatest, FillDrop, ReadBack, BuildItem, SetOrder, SetJSON, caches
<1>7. ASSUME ~SetOrder(c), ~FillLatest(c), ~Done(c) PROVE order' = order
  BY <1>7 DEF Handle, SelectRow, SetOwner, SetRecord, SetIcon, StartFill, ReadOrder,
     ReadRecord, SelectList, LookLatest, FillDrop, ReadBack, BuildItem, SetJSON, caches
<1>8. ASSUME ~SetJSON(c), ~FillLatest(c), ~Done(c)
      PROVE  \A u \in Users : listJSON'[u] \subseteq listJSON[u]
  <2>1. listJSON' = listJSON \/ listJSON' = [listJSON EXCEPT ![Me(c)] = {}]
    BY <1>8 DEF Handle, SelectRow, SetOwner, SetRecord, SetIcon, StartFill, ReadOrder,
       ReadRecord, SelectList, LookLatest, FillDrop, ReadBack, BuildItem, SetOrder, caches
  <2>2. listJSON \in [Users -> SUBSET [items : Seq(Items), over : BOOLEAN]]
    BY <1>0 DEF TypeInv, CacheTypes
  <2> QED
    BY <2>1, <2>2
<1>9. CASE ~Done(c) /\ ~FillLatest(c)
  <2>1. \A d \in Clients \ {c} : Same(d, Fields \ {"over"})
    BY <1>3, <1>9 DEF Same
  <2> QED
    BY <1>1, <1>2, <1>3, <1>6, <1>7, <1>8, <1>9, <2>1
<1> QED
  BY <1>4, <1>5, <1>9

\* The handler that takes a step.
LEMMA FollowSelf ==
    ASSUME OwnInv, FollowInv, NEW c \in Clients, Handle(c), ~Prepend(c)
    PROVE  FollowHandler(c)'
<1>0. /\ TypeInv /\ req \in [Clients -> Handlers] /\ CacheTypes /\ Me(c) \in Users
      /\ FollowHandler(c) /\ Place(c) /\ req[c] \in Handlers
      /\ record \in [Isus -> [user : Users \cup {Nobody}, id : Nat]]
  BY DEF OwnInv, TypeInv, CacheTypes, Me, FollowInv
<1>1. Quiet
  BY HandleQuiet
<1>2. CASE Done(c)
  <2>1. req'[c] = Idle
    BY <1>0, <1>2 DEF Done
  <2> QED
    BY <2>1 DEF Idle, FollowHandler
<1>3. CASE ~Done(c) /\ req[c].op # "list"
  <2>1. /\ Handle(c) /\ ~Prepend(c) /\ ~Done(c) /\ ~ReadOrder(c) /\ ~ReadRecord(c)
        /\ ~SelectList(c) /\ ~LookLatest(c) /\ ~FillLatest(c) /\ ~FillDrop(c)
        /\ ~ReadBack(c) /\ ~SetOrder(c) /\ ~SetJSON(c)
    BY <1>3 DEF ReadOrder, ReadRecord, SelectList, LookLatest, FillLatest, FillDrop,
       ReadBack, SetOrder, SetJSON, Serving
  <2>2. req[c].pc # "done"
    BY <2>1 DEF Handle, SelectRow, SetOwner, SetRecord, SetIcon, StartFill, BuildItem,
       Serving
  <2>3. order' = order /\ Same(c, {"op", "isu", "due"})
    BY <2>1, HandleQuiet
  <2> QED
    BY <1>1, <1>3, <2>2, <2>3, OneGoesOn
<1>4. CASE ~Done(c) /\ req[c].op = "list"
  <2>1. /\ ~SelectRow(c) /\ ~SetIcon(c) /\ ~StartFill(c)
    BY <1>4 DEF SelectRow, SetIcon, StartFill, Serving
  <2>2. ASSUME NEW pc, Step(c, To(pc))
        PROVE  req'[c].pc = pc /\ Same(c, Fields \ {"pc", "over"})
    BY <1>0, <2>2, ToFacts DEF Same
  <2>3. ASSUME Same(c, Fields \ {"pc", "over"}), Calm(Me(c)), record' = record,
               req[c].pc \in {"look", "latest", "drop"}
        PROVE  (RecordOf(Me(c), Subject(c)) # {})'
    <3>1. ListFollows(c)
      BY <1>0, <1>4, <2>3 DEF FollowHandler
    <3>2. RecordOf(Me(c), Subject(c)) # {}
      BY <2>3, <3>1 DEF ListFollows
    <3>3. /\ req'[c].op = req[c].op /\ req'[c].todo = req[c].todo
          /\ req'[c].isu = req[c].isu /\ account' = account
      BY <1>1, <2>3 DEF Same, Fields, Quiet
    <3> QED
      BY <2>3, <3>2, <3>3 DEF RecordOf, Me, Subject
  <2>4. CASE SetOwner(c)
    <3>1. req[c].pc = "owner" /\ Step(c, To("record"))
      BY <1>4, <2>4 DEF SetOwner
    <3>2. req'[c].pc = "record" /\ Same(c, Fields \ {"pc", "over"})
      BY <2>2, <3>1
    <3> QED
      BY <1>1, <1>4, <3>1, <3>2, ListGoesOn
  <2>5. CASE SetRecord(c)
    <3>1. req[c].pc = "record" /\ Step(c, To("look"))
      BY <1>4, <2>5 DEF SetRecord
    <3>2. req'[c].pc = "look" /\ Same(c, Fields \ {"pc", "over"})
      BY <2>2, <3>1
    <3>3. Subject(c) \in Isus /\ Owns(Me(c), Subject(c))
      BY <1>0, <3>1, SubjectOwned DEF RowPcs
    <3>4. record'[Subject(c)] = [user |-> Me(c), id |-> Id(Subject(c))]
      BY <1>0, <1>4, <2>5, <3>3 DEF SetRecord
    <3>5. Id(Subject(c)) # 0
      BY <1>0, <3>3, OwnedIds
    <3>6. PICK u, i : u = Me(c) /\ i = Subject(c)
      OBVIOUS
    <3>7. Me(c)' = u /\ Subject(c)' = i
      BY <1>1, <3>2, <3>6 DEF Same, Fields, Quiet, Me, Subject
    <3>8. record'[i].user = u /\ record'[i].id # Partial
      BY <3>4, <3>5, <3>6 DEF Partial
    <3>9. (RecordOf(Me(c), Subject(c)) # {})'
      BY <3>7, <3>8 DEF RecordOf
    <3> QED
      BY <1>1, <1>4, <3>1, <3>2, <3>9, ListGoesOn
  <2>6. CASE ReadOrder(c)
    BY <2>6, FollowReadOrder
  <2>7. CASE ReadRecord(c)
    BY <2>7, FollowReadRecord
  <2>8. CASE SelectList(c)
    BY <2>8, FollowSelectList
  <2>9. CASE LookLatest(c)
    <3>1. req[c].pc = "look" /\ (Step(c, To("latest")) \/ Step(c, To("again")))
          /\ record' = record
      BY <2>9 DEF LookLatest, Serving, caches
    <3>2. PICK pc \in {"latest", "again"} :
              req'[c].pc = pc /\ Same(c, Fields \ {"pc", "over"})
      BY <2>2, <3>1
    <3>3. Calm(Me(c)) => (RecordOf(Me(c), Subject(c)) # {})'
      BY <2>3, <3>1, <3>2
    <3> QED
      BY <1>1, <1>4, <3>1, <3>2, <3>3, ListGoesOn
  <2>10. CASE FillLatest(c)
    <3>1. req[c].pc = "latest" /\ record' = record
      BY <2>10 DEF FillLatest, Serving
    <3>2. \E pc \in {"drop", "again"} :
              req'[c].pc = pc /\ Same(c, Fields \ {"pc", "over"})
      <4>1. CASE Step(c, To("again"))
        BY <2>2, <4>1
      <4> DEFINE row == Head(req[c].todo)
                 over == Overtaken(row.isu, row.at)
      <4>2. CASE req' = [over EXCEPT ![c].pc = "drop"]
        <5>1. over[c] \in Handlers /\ \A f \in Fields \ {"over"} : over[c][f] = req[c][f]
          BY <1>0, OvertakenFacts
        <5>2. DOMAIN over = Clients
          BY DEF Overtaken
        <5> HIDE DEF over
        <5>3. req'[c] = [over[c] EXCEPT !.pc = "drop"]
          BY <4>2, <5>2
        <5>4. /\ req'[c].pc = "drop"
              /\ \A f \in Fields \ {"pc"} : req'[c][f] = over[c][f]
          BY <5>1, <5>3 DEF Handlers, Fields
        <5>5. Same(c, Fields \ {"pc", "over"})
          BY <5>1, <5>4 DEF Same
        <5> QED
          BY <5>4, <5>5
      <4> QED
        BY <2>10, <4>1, <4>2 DEF FillLatest
    <3>3. PICK pc \in {"drop", "again"} :
              req'[c].pc = pc /\ Same(c, Fields \ {"pc", "over"})
      BY <3>2
    <3>4. Calm(Me(c)) => (RecordOf(Me(c), Subject(c)) # {})'
      BY <2>3, <3>1, <3>3
    <3> QED
      BY <1>1, <1>4, <3>1, <3>3, <3>4, ListGoesOn
  <2>11. CASE FillDrop(c)
    <3>1. req[c].pc = "drop" /\ Step(c, To("again")) /\ record' = record
      BY <2>11 DEF FillDrop, Serving
    <3>2. req'[c].pc = "again" /\ Same(c, Fields \ {"pc", "over"})
      BY <2>2, <3>1
    <3>3. Calm(Me(c)) => (RecordOf(Me(c), Subject(c)) # {})'
      BY <2>3, <3>1, <3>2
    <3> QED
      BY <1>1, <1>4, <3>1, <3>2, <3>3, ListGoesOn
  <2>12. CASE ReadBack(c)
    BY <2>12, FollowReadBack
  <2>13. CASE BuildItem(c)
    BY <2>13, FollowBuildItem
  <2>14. CASE SetOrder(c)
    <3>1. req[c].pc = "setOrder" /\ Step(c, To("setJSON"))
      BY <2>14 DEF SetOrder, Serving
    <3>2. req'[c].pc = "setJSON" /\ Same(c, Fields \ {"pc", "over"})
      BY <2>2, <3>1
    <3> QED
      BY <1>1, <1>4, <3>1, <3>2, ListGoesOn
  <2>15. CASE SetJSON(c)
    <3>1. req[c].pc = "setJSON" /\ Step(c, To("done"))
      BY <2>15 DEF SetJSON, Serving
    <3>2. req'[c].pc = "done" /\ Same(c, Fields \ {"pc", "over"})
      BY <2>2, <3>1
    <3> QED
      BY <1>1, <1>4, <3>1, <3>2, ListGoesOn
  <2> QED
    BY <1>4, <2>1, <2>4, <2>5, <2>6, <2>7, <2>8, <2>9, <2>10, <2>11, <2>12, <2>13, <2>14,
       <2>15 DEF Handle
<1> QED
  BY <1>2, <1>3, <1>4

\* The other handlers stay where they are.
LEMMA FollowOthers ==
    ASSUME OwnInv, FollowInv, NEW c \in Clients, Handle(c), ~Prepend(c),
           NEW d \in Clients \ {c}
    PROVE  FollowHandler(d)'
<1>1. /\ Quiet /\ Grows /\ Same(d, Fields \ {"over"})
      /\ ~FillLatest(c) => req'[d] = req[d]
      /\ ~SetRecord(c) => record' = record
      /\ ~SetOrder(c) => order' = order
  BY HandleQuiet
<1>2. /\ TypeInv /\ CacheTypes /\ Me(c) \in Users /\ Me(d) \in Users
      /\ order \in [Users -> SUBSET Seq(Isus)]
  BY DEF OwnInv, TypeInv, CacheTypes, Me
<1>3. Me(d)' = Me(d) /\ (Calm(Me(d))' <=> Calm(Me(d))) /\ Subject(d)' = Subject(d)
  BY <1>1 DEF Quiet, Calm, Me, Subject, Same, Fields
<1>4. \A j \in Due(Me(d))' : j \in Due(Me(d))
  BY <1>1, <1>3 DEF Due, Quiet, Owns
<1>5. ASSUME req[d].op = "list", Calm(Me(d)), req[d].pc \in {"look", "latest", "drop", "again"},
             RecordOf(Me(d), Subject(d)) # {}
      PROVE  RecordOf(Me(d), Subject(d))' # {}
  <2>1. CASE record' = record
    BY <1>3, <1>5, <2>1 DEF RecordOf
  <2>2. CASE SetRecord(c)
    <3>1. ~FillLatest(c)
      BY <2>2 DEF SetRecord, FillLatest, Serving
    <3> QED
      BY <1>1, <1>5, <2>2, <3>1, RecordStays
  <2> QED
    BY <1>1, <2>1, <2>2
<1>6. ASSUME req[d].op = "register", Calm(Me(d)) PROVE order'[Me(d)] \subseteq order[Me(d)]
  <2>1. CASE SetOrder(c)
    <3>1. Me(c) # Me(d)
      BY <1>6, <2>1, Disturbed DEF SetOrder, Serving
    <3> QED
      BY <1>2, <2>1, <3>1 DEF SetOrder
  <2> QED
    BY <1>1, <2>1
<1> QED
  BY <1>1, <1>3, <1>4, <1>5, <1>6, FollowHandlerKept

LEMMA FollowSetOrder ==
    ASSUME OwnInv, FollowInv, NEW c \in Clients, SetOrder(c), NEW u \in Users
    PROVE  OrderFollows(u)'
<1>0. /\ Quiet /\ Grows /\ TypeInv /\ Me(c) \in Users /\ req[c] \in Handlers
      /\ order \in [Users -> SUBSET Seq(Isus)] /\ FollowHandler(c)
      /\ req[c].op = "list" /\ req[c].pc = "setOrder"
  BY HandleQuiet DEF Handle, Prepend, SetOrder, Serving, OwnInv, TypeInv, CacheTypes, Me,
     FollowInv
<1>1. order'[u] = IF u = Me(c) THEN {IsusOf(req[c].items)} ELSE order[u]
  BY <1>0 DEF SetOrder
<1>2. \A j \in Due(u)' : j \in Due(u)
  BY <1>0, QuietFacts
<1>3. CASE u # Me(c)
  BY <1>0, <1>1, <1>2, <1>3, OrderFollowsKept
<1>4. CASE u = Me(c)
  <2>1. PICK s \in Seq(Items) : s = req[c].items
    BY <1>0 DEF Handlers
  <2>2. order'[u] = {IsusOf(s)}
    BY <1>1, <1>4, <2>1
  <2>3. DOMAIN IsusOf(s) = DOMAIN s /\ \A n \in DOMAIN s : IsusOf(s)[n] = s[n].isu
    BY DEF IsusOf
  <2> DEFINE o == IsusOf(s)
  <2> HIDE DEF o
  <2>4. ASSUME Calm(u)
        PROVE  /\ \A j \in Due(u) : j \in Range(o)
               /\ \A m, n \in DOMAIN o : m < n => Before(u, o[m], o[n])
    <3>1. ListFollows(c)
      BY <1>0, <1>4, <2>4 DEF FollowHandler
    <3>2. Split(u, s, <<>>)
      BY <1>0, <1>4, <2>1, <3>1 DEF ListFollows
    <3>3. Names(<<>>) = {}
      BY DEF Names
    <3>4. \A j \in Due(u) : j \in Names(s)
      BY <3>2, <3>3 DEF Split
    <3>5. \A j \in Names(s) : j \in Range(o)
      BY <2>3 DEF o, Names, Range
    <3>6. \A m, n \in DOMAIN o : m < n => Before(u, o[m], o[n])
      BY <2>3, <3>2 DEF o, Split, InOrder
    <3> QED
      BY <3>4, <3>5, <3>6
  <2>5. ASSUME Calm(u)'
        PROVE  /\ \A j \in Due(u)' : j \in Range(o)
               /\ \A m, n \in DOMAIN o : m < n => Before(u, o[m], o[n])'
    BY <1>0, <2>4, <2>5, QuietFacts
  <2> QED
    BY <2>2, <2>5 DEF OrderFollows, o
<1> QED
  BY <1>3, <1>4

LEMMA FollowSetJSON ==
    ASSUME OwnInv, FollowInv, NEW c \in Clients, SetJSON(c), NEW u \in Users
    PROVE  JSONFollows(u)'
<1>0. /\ Quiet /\ Grows /\ TypeInv /\ Me(c) \in Users /\ req[c] \in Handlers
      /\ listJSON \in [Users -> SUBSET [items : Seq(Items), over : BOOLEAN]]
      /\ FollowHandler(c) /\ req[c].op = "list" /\ req[c].pc = "setJSON"
  BY HandleQuiet DEF Handle, Prepend, SetJSON, Serving, OwnInv, TypeInv, CacheTypes, Me,
     FollowInv
<1>1. listJSON'[u] = IF u = Me(c) THEN {[items |-> req[c].items, over |-> req[c].over]}
                                  ELSE listJSON[u]
  BY <1>0 DEF SetJSON
<1>2. \A j \in Due(u)' : j \in Due(u)
  BY <1>0, QuietFacts
<1>3. CASE u # Me(c)
  BY <1>0, <1>1, <1>2, <1>3, JSONFollowsKept
<1>4. CASE u = Me(c)
  <2>1. PICK s : s = req[c].items
    OBVIOUS
  <2>2. ASSUME Calm(u) PROVE Split(u, s, <<>>)
    <3>1. ListFollows(c)
      BY <1>0, <1>4, <2>2 DEF FollowHandler
    <3> QED
      BY <1>0, <1>4, <2>1, <3>1 DEF ListFollows
  <2>3. ASSUME Calm(u)' PROVE Split(u, s, <<>>)'
    BY <1>0, <2>2, <2>3, QuietFacts
  <2>4. \A body \in listJSON'[u] : body.items = s
    BY <1>1, <1>4, <2>1
  <2> QED
    BY <2>3, <2>4 DEF JSONFollows
<1> QED
  BY <1>3, <1>4

LEMMA FollowHandleQuiet ==
    ASSUME OwnInv, FollowInv, NEW c \in Clients, Handle(c), ~Prepend(c)
    PROVE  FollowInv'
<1>1. /\ Quiet /\ Grows
      /\ \A d \in Clients \ {c} : Same(d, Fields \ {"over"})
      /\ ~SetOrder(c) => order' = order
      /\ ~SetJSON(c) => \A u \in Users : listJSON'[u] \subseteq listJSON[u]
      /\ ~Done(c) => Same(c, {"op", "isu", "due"})
  BY HandleQuiet
<1>2. \A u \in Users : \A j \in Due(u)' : j \in Due(u)
  BY <1>1, QuietFacts
<1>3. MetInv'
  <2>1. \A d \in Clients \ {c} : Same(d, {"op", "isu"})
    BY <1>1 DEF Same, Fields
  <2>2. CASE ~Done(c)
    <3>1. \A d \in Clients : Same(d, {"op", "isu"})
      BY <1>1, <2>1, <2>2 DEF Same
    <3> QED
      BY <1>1, <3>1, MetKept DEF Quiet
  <2>3. CASE Done(c)
    <3>1. req'[c].op = "none"
      BY <2>3 DEF Done, Idle, OwnInv, TypeInv
    <3>2. ASSUME NEW a \in Clients, NEW b \in Clients, a # b
          PROVE  /\ Me(a)' = Me(b)' /\ {req'[a].op, req'[b].op} \in Disturbing
                    => <<Me(a)', {req'[a].op, req'[b].op}>> \in crossed'
                 /\ req'[a].op = "register" /\ req'[b].op = "register"
                    => req'[a].isu # req'[b].isu
      <4>1. CASE a = c \/ b = c
        BY <3>1, <4>1 DEF Disturbing
      <4>2. CASE a # c /\ b # c
        <5>1. /\ req'[a].op = req[a].op /\ req'[b].op = req[b].op
              /\ req'[a].isu = req[a].isu /\ req'[b].isu = req[b].isu
          BY <2>1, <4>2 DEF Same
        <5>2. Me(a)' = Me(a) /\ Me(b)' = Me(b) /\ crossed' = crossed
          BY <1>1 DEF Quiet, Me
        <5> QED
          BY <3>2, <5>1, <5>2 DEF FollowInv, MetInv
      <4> QED
        BY <4>1, <4>2
    <3> QED
      BY <3>2 DEF MetInv, Disturbing
  <2> QED
    BY <2>2, <2>3
<1>4. ASSUME NEW u \in Users PROVE OrderFollows(u)'
  BY <1>1, <1>2, FollowSetOrder, OrderFollowsKept
<1>5. ASSUME NEW u \in Users PROVE JSONFollows(u)'
  BY <1>1, <1>2, FollowSetJSON, JSONFollowsKept
<1>6. ASSUME NEW d \in Clients PROVE FollowHandler(d)'
  BY FollowSelf, FollowOthers
<1> QED
  BY <1>3, <1>4, <1>5, <1>6 DEF FollowInv

LEMMA ConsFacts ==
    ASSUME NEW S, NEW x \in S, NEW s \in Seq(S)
    PROVE  LET t == <<x>> \o s
           IN  /\ DOMAIN s \subseteq Nat /\ DOMAIN t \subseteq Nat
               /\ 1 \in DOMAIN t /\ t[1] = x
               /\ \A n \in DOMAIN s : n + 1 \in DOMAIN t /\ t[n + 1] = s[n]
               /\ \A n \in DOMAIN t : \/ n = 1
                                      \/ n > 1 /\ n - 1 \in DOMAIN s /\ t[n] = s[n - 1]
<1>1. /\ <<x>> \in Seq(S) /\ Len(<<x>>) = 1 /\ <<x>>[1] = x
      /\ Len(s) \in Nat /\ DOMAIN s = 1..Len(s)
  BY LenProperties
<1> DEFINE t == <<x>> \o s
<1>2. /\ t \in Seq(S) /\ Len(t) = Len(<<x>>) + Len(s)
      /\ \A n \in 1..Len(t) : t[n] = IF n <= Len(<<x>>) THEN <<x>>[n]
                                     ELSE s[n - Len(<<x>>)]
  BY <1>1, ConcatProperties
<1> HIDE DEF t
<1>3. DOMAIN t = 1..(1 + Len(s))
  BY <1>1, <1>2, LenProperties
<1>4. \A n \in DOMAIN t : t[n] = IF n <= 1 THEN <<x>>[n] ELSE s[n - 1]
  BY <1>1, <1>2, <1>3
<1>5. /\ DOMAIN s \subseteq Nat /\ DOMAIN t \subseteq Nat
      /\ 1 \in DOMAIN t /\ t[1] = x
  BY <1>1, <1>3, <1>4
<1>6. ASSUME NEW n \in DOMAIN s PROVE n + 1 \in DOMAIN t /\ t[n + 1] = s[n]
  <2>1. n \in Nat /\ n >= 1 /\ n <= Len(s)
    BY <1>1
  <2>2. n + 1 \in DOMAIN t /\ ~(n + 1 <= 1) /\ (n + 1) - 1 = n
    BY <1>1, <1>3, <2>1
  <2> QED
    BY <1>4, <2>2
<1>7. ASSUME NEW n \in DOMAIN t
      PROVE  n = 1 \/ (n > 1 /\ n - 1 \in DOMAIN s /\ t[n] = s[n - 1])
  <2>1. n \in Nat /\ n >= 1 /\ n <= 1 + Len(s)
    BY <1>1, <1>3
  <2>2. CASE n # 1
    <3>1. n > 1 /\ ~(n <= 1) /\ n - 1 \in DOMAIN s
      BY <1>1, <2>1, <2>2
    <3> QED
      BY <1>4, <3>1
  <2> QED
    BY <2>2
<1> QED
  BY <1>5, <1>6, <1>7 DEF t

\* A registration puts its ISU in front of the order.
LEMMA PrependFacts ==
    ASSUME OwnInv, NEW c \in Clients, Prepend(c)
    PROVE  /\ Grows /\ rows' = rows /\ acked' = acked \cup {req[c].isu}
           /\ \A i, j : Before(Me(c), i, j) => Before(Me(c), i, j)'
           /\ Same(c, {"op", "isu", "due"}) /\ req'[c].pc = "done"
           /\ \A d \in Clients \ {c} : req'[d] = req[d]
           /\ record' = record
           /\ req[c].op = "register" /\ req[c].pc = "prepend"
           /\ Me(c) \in Users /\ req[c].isu \in Isus /\ Owns(Me(c), req[c].isu)
           /\ \A u \in Users \ {Me(c)} : order'[u] = order[u] /\ listJSON'[u] = listJSON[u]
           /\ listJSON'[Me(c)] = {}
           /\ \E old \in Seq(Isus) :
                 /\ order'[Me(c)] = {<<req[c].isu>> \o old}
                 /\ old \in order[Me(c)] \/ (order[Me(c)] = {} /\ old = <<>>)
<1>0. /\ TypeInv /\ CacheTypes /\ req \in [Clients -> Handlers] /\ Place(c)
      /\ order \in [Users -> SUBSET Seq(Isus)]
      /\ listJSON \in [Users -> SUBSET [items : Seq(Items), over : BOOLEAN]]
  BY DEF OwnInv, TypeInv, CacheTypes
<1>1. /\ req[c].op = "register" /\ req[c].pc = "prepend" /\ Me(c) \in Users
  BY <1>0 DEF Prepend, Serving, CacheTypes, Me
<1>2. req[c].isu \in Isus /\ Owns(Me(c), req[c].isu)
  BY <1>0, <1>1 DEF Place
<1>3. /\ Same(c, {"op", "isu", "due"}) /\ req'[c].pc = "done"
      /\ \A d \in Clients \ {c} : req'[d] = req[d]
  <2>1. Step(c, Reply(<<Plain(req[c].isu, Id(req[c].isu))>>))
    BY DEF Prepend
  <2> QED
    BY <1>0, <2>1, ReplyFacts DEF Same, Fields, Moved
<1>4. /\ UNCHANGED <<account, rows, record, forgotten, crossed>>
      /\ acked' = acked \cup {req[c].isu}
  BY DEF Prepend
<1>5. Grows
  <2>1. CacheTypes'
    BY <1>0, HandleCaches DEF Handle
  <2> QED
    BY <1>4, <2>1, StaysFrame DEF Grows
<1>6. \A i, j : Before(Me(c), i, j) => Before(Me(c), i, j)'
  BY <1>4 DEF Before, Id, InTurn, Me
<1>7. \A u \in Users \ {Me(c)} : order'[u] = order[u] /\ listJSON'[u] = listJSON[u]
  BY <1>0 DEF Prepend
<1>8. listJSON'[Me(c)] = {}
  BY <1>0, <1>1 DEF Prepend
<1>9. \E old \in Seq(Isus) :
         /\ order'[Me(c)] = {<<req[c].isu>> \o old}
         /\ old \in order[Me(c)] \/ (order[Me(c)] = {} /\ old = <<>>)
  <2> DEFINE old == IF order[Me(c)] = {} THEN <<>> ELSE CHOOSE o \in order[Me(c)] : TRUE
  <2>1. order'[Me(c)] = {<<req[c].isu>> \o old}
    BY <1>0, <1>1 DEF Prepend
  <2>2. CASE order[Me(c)] = {}
    <3>1. old = <<>> /\ <<>> \in Seq(Isus)
      BY <2>2
    <3> QED
      BY <2>1, <2>2, <3>1
  <2>3. CASE order[Me(c)] # {}
    <3>1. old \in order[Me(c)]
      BY <2>3
    <3>2. old \in Seq(Isus)
      BY <1>0, <1>1, <3>1
    <3> QED
      BY <2>1, <3>1, <3>2
  <2> QED
    BY <2>2, <2>3
<1> QED
  BY <1>1, <1>2, <1>3, <1>4, <1>5, <1>6, <1>7, <1>8, <1>9

LEMMA FollowPrepend ==
    ASSUME OwnInv, FollowInv, NEW c \in Clients, Prepend(c) PROVE FollowInv'
<1>1. PICK u \in Users, i \in Isus :
          u = Me(c) /\ i = req[c].isu /\ Owns(u, i)
  BY PrependFacts
<1>2. /\ Grows /\ rows' = rows /\ acked' = acked \cup {i} /\ account' = account
      /\ crossed \subseteq crossed' /\ forgotten' = forgotten
      /\ Same(c, {"op", "isu", "due"}) /\ req'[c].pc = "done"
      /\ \A d \in Clients \ {c} : req'[d] = req[d]
      /\ record' = record /\ req[c].op = "register" /\ req[c].pc = "prepend"
      /\ \A v \in Users \ {u} : order'[v] = order[v] /\ listJSON'[v] = listJSON[v]
      /\ listJSON'[u] = {}
  BY <1>1, PrependFacts DEF Grows
<1>3. \A m, n : Before(u, m, n) => Before(u, m, n)'
  <2>2. ~InTurn(u) => ~InTurn(u)'
    BY <1>2, CalmKept
  <2>3. \A m : Id(m)' = Id(m)
    BY <1>2 DEF Id
  <2> QED
    BY <2>2, <2>3 DEF Before
<1>4. PICK old \in Seq(Isus) :
          /\ order'[u] = {<<i>> \o old}
          /\ old \in order[u] \/ (order[u] = {} /\ old = <<>>)
  BY <1>1, PrependFacts
<1> DEFINE new == <<i>> \o old
<1>5. /\ DOMAIN old \subseteq Nat /\ DOMAIN new \subseteq Nat
      /\ 1 \in DOMAIN new /\ new[1] = i
      /\ \A n \in DOMAIN old : n + 1 \in DOMAIN new /\ new[n + 1] = old[n]
      /\ \A n \in DOMAIN new : \/ n = 1
                               \/ n > 1 /\ n - 1 \in DOMAIN old /\ new[n] = old[n - 1]
  BY ConsFacts
<1> HIDE DEF new
<1>6. OwnInv /\ TypeInv /\ CacheTypes /\ FollowHandler(c)
  BY DEF OwnInv, TypeInv, FollowInv
<1>7. \A v \in Users \ {u} : \A j \in Due(v)' : j \in Due(v)
  <2> SUFFICES ASSUME NEW v \in Users, v # u, NEW j \in Due(v)' PROVE j \in Due(v)
    OBVIOUS
  <2>1. j \in (acked \cup {i}) \ forgotten /\ Owns(v, j)
    BY <1>2 DEF Due, Owns
  <2>2. j # i
    BY <1>1, <1>6, <2>1, OneOwner
  <2> QED
    BY <2>1, <2>2 DEF Due
<1>8. \A j \in Due(u)' : j \in Due(u) \cup {i}
  BY <1>2 DEF Due, Owns
<1>9. MetInv'
  <2>1. \A d \in Clients : Same(d, {"op", "isu"})
    BY <1>2 DEF Same
  <2> QED
    BY <1>2, <2>1, MetKept
<1>10. OrderFollows(u)'
  <2>1. OrderFollows(u)
    BY DEF FollowInv
  <2>2. ASSUME Calm(u)' PROVE /\ \A j \in Due(u)' : j \in Range(new)
                              /\ \A m, n \in DOMAIN new :
                                     m < n => Before(u, new[m], new[n])'
    <3>1. Calm(u)
      BY <1>2, <2>2, CalmKept
    <3>2. \A j \in Due(u) : \E n \in DOMAIN old : old[n] = j
      <4>1. \A j \in Due(u) : \E o \in order[u] : j \in Range(o)
        BY <2>1, <3>1 DEF OrderFollows
      <4>2. \A o \in order[u] : o = old
        BY <1>4, <2>1 DEF OrderFollows
      <4> QED
        BY <4>1, <4>2 DEF Range
    <3>3. \A j \in Due(u) : j \in Range(new)
      <4> SUFFICES ASSUME NEW j \in Due(u) PROVE \E n \in DOMAIN new : new[n] = j
        BY DEF Range
      <4> QED
        BY <1>5, <3>2
    <3>4. i \in Range(new)
      BY <1>5 DEF Range
    <3>5. \A n \in DOMAIN old : Before(u, i, old[n])
      <4>1. RegisterFollows(c)
        BY <1>1, <1>2, <1>6, <3>1 DEF FollowHandler
      <4>2. CASE old \in order[u]
        BY <1>1, <4>1, <4>2 DEF RegisterFollows
      <4>3. CASE old = <<>>
        BY <4>3
      <4> QED
        BY <1>4, <4>2, <4>3
    <3>6. \A m, n \in DOMAIN old : m < n => Before(u, old[m], old[n])
      <4>1. CASE old \in order[u]
        BY <2>1, <3>1, <4>1 DEF OrderFollows
      <4>2. CASE old = <<>>
        BY <4>2
      <4> QED
        BY <1>4, <4>1, <4>2
    <3>7. ASSUME NEW m \in DOMAIN new, NEW n \in DOMAIN new, m < n
          PROVE  Before(u, new[m], new[n])
      <4>1. CASE m = 1
        <5>1. n # 1
          BY <3>7, <4>1
        <5>2. n - 1 \in DOMAIN old /\ new[n] = old[n - 1]
          BY <1>5, <5>1
        <5> QED
          BY <1>5, <3>5, <4>1, <5>2
      <4>2. CASE m # 1
        <5>1. m > 1 /\ m - 1 \in DOMAIN old /\ new[m] = old[m - 1]
          BY <1>5, <4>2
        <5>2. n - 1 \in DOMAIN old /\ new[n] = old[n - 1] /\ m - 1 < n - 1
          <6>1. CASE n = 1
            <7>1. m \in Nat /\ n \in Nat
              BY <1>5
            <7> QED
              BY <3>7, <5>1, <6>1, <7>1
          <6>2. CASE n # 1
            <7>1. n > 1 /\ n - 1 \in DOMAIN old /\ new[n] = old[n - 1]
              BY <1>5, <6>2
            <7>2. m \in Nat /\ n \in Nat
              BY <1>5
            <7>3. m - 1 < n - 1
              BY <3>7, <7>2
            <7> QED
              BY <7>1, <7>3
          <6> QED
            BY <6>1, <6>2
        <5> QED
          BY <3>6, <5>1, <5>2
      <4> QED
        BY <4>1, <4>2
    <3> QED
      BY <1>3, <1>8, <3>3, <3>4, <3>7
  <2> QED
    BY <1>4, <2>2 DEF OrderFollows, new
<1>11. ASSUME NEW v \in Users PROVE OrderFollows(v)'
  <2>1. CASE v # u
    BY <1>2, <1>7, <2>1, OrderFollowsKept
  <2> QED
    BY <1>10, <2>1
<1>12. ASSUME NEW v \in Users PROVE JSONFollows(v)'
  <2>1. CASE v # u
    BY <1>2, <1>7, <2>1, JSONFollowsKept
  <2>2. CASE v = u
    BY <1>2, <2>2 DEF JSONFollows
  <2> QED
    BY <2>1, <2>2
<1>13. ASSUME NEW d \in Clients PROVE FollowHandler(d)'
  <2>1. CASE d = c
    <3>1. req'[c].op = "register" /\ req'[c].due = req[c].due
      BY <1>2 DEF Same
    <3>2. req'[c].due \subseteq acked'
      BY <1>2, <1>6, <3>1 DEF FollowHandler
    <3> QED
      BY <1>2, <2>1, <3>1, <3>2 DEF FollowHandler
  <2>2. CASE d # c
    <3>1. req'[d] = req[d] /\ Same(d, Fields \ {"over"}) /\ Me(d)' = Me(d) /\ Me(d) \in Users
      BY <1>2, <1>6, <2>2 DEF Same, Me, CacheTypes
    <3>2. Subject(d)' = Subject(d)
      BY <3>1 DEF Subject
    <3>3. RecordOf(Me(d), Subject(d))' = RecordOf(Me(d), Subject(d))
      BY <1>2, <3>1, <3>2 DEF RecordOf
    <3>4. PICK v \in Users : v = Me(d)
      BY <3>1
    <3>5. Calm(Me(d))' <=> Calm(v)'
      BY <3>1, <3>4 DEF Calm
    <3>6. Due(Me(d))' = Due(v)'
      BY <3>1, <3>4 DEF Due, Owns
    <3>7. CASE v # u
      BY <1>2, <1>6, <1>7, <3>1, <3>3, <3>4, <3>6, <3>7, FollowHandlerKept
    <3>8. CASE v = u /\ req[d].op = "list"
      <4>1. ~Calm(v)
        BY <1>1, <1>2, <2>2, <3>4, <3>8, Disturbed
      <4>2. ~Calm(v)'
        BY <1>2, <4>1, CalmKept
      <4> QED
        BY <3>4, <3>5, <3>8, <4>2, <1>2, FollowHandlerKept, <1>6, <3>1
    <3>9. CASE v = u /\ req[d].op = "register"
      <4>0. Place(d) /\ FollowHandler(d)
        BY <1>6 DEF TypeInv, FollowInv
      <4>1. PICK j : j = req[d].isu
        OBVIOUS
      <4>2. j \in Isus /\ Owns(u, j) /\ j # i
        <5>1. j # i
          BY <1>1, <1>2, <2>2, <3>9, <4>1 DEF FollowInv, MetInv
        <5>2. req[d].op \notin {"none", "list"}
          BY <3>9
        <5> QED
          BY <3>4, <3>9, <4>0, <4>1, <5>1, <5>2 DEF Place
      <4>3. ~InTurn(u)
        <5>1. {req[c].op, req[d].op} = {"register"}
          BY <1>2, <3>9
        <5>2. {req[c].op, req[d].op} \in Disturbing
          BY <5>1 DEF Disturbing
        <5>3. <<Me(c), {req[c].op, req[d].op}>> \in crossed
          BY <1>1, <2>2, <3>4, <3>9, <5>2 DEF FollowInv, MetInv
        <5> QED
          BY <1>1, <5>1, <5>3 DEF InTurn
      <4>4. Before(u, j, i)
        BY <1>1, <1>6, <4>2, <4>3, OwnedIds DEF Before
      <4>5. ASSUME Calm(u)', req[d].pc # "done"
            PROVE  \A n \in DOMAIN new : Before(u, j, new[n])'
        <5>1. RegisterFollows(d)
          BY <1>2, <3>4, <3>9, <4>0, <4>5, CalmKept DEF FollowHandler
        <5>2. \A n \in DOMAIN old : Before(u, j, old[n])
          <6>1. CASE old \in order[u]
            BY <3>4, <3>9, <4>1, <5>1, <6>1 DEF RegisterFollows
          <6>2. CASE old = <<>>
            BY <6>2
          <6> QED
            BY <1>4, <6>1, <6>2
        <5>3. ASSUME NEW n \in DOMAIN new PROVE Before(u, j, new[n])
          BY <1>5, <4>4, <5>2
        <5> QED
          BY <1>3, <5>3
      <4>6. Calm(u)' /\ req[d].pc # "done" => RegisterFollows(d)'
        <5>1. \A o \in order'[u] : o = new
          BY <1>4 DEF new
        <5>2. RegisterFollows(d)' <=> \A o \in order'[u] : \A n \in DOMAIN o : Before(u, j, o[n])'
          BY <3>1, <3>4, <3>9, <4>1 DEF RegisterFollows, Before, Id, InTurn
        <5> QED
          BY <4>5, <5>1, <5>2
      <4>7. req'[d].due \subseteq acked'
        BY <1>2, <3>1, <4>0 DEF FollowHandler
      <4> QED
        BY <3>1, <3>5, <3>9, <4>6, <4>7 DEF FollowHandler
    <3>10. CASE req[d].op \notin {"list", "register"}
      <4>1. req'[d].due \subseteq acked'
        BY <1>2, <3>1 DEF FollowInv, FollowHandler
      <4> QED
        BY <3>1, <3>10, <4>1 DEF FollowHandler
    <3> QED
      BY <3>7, <3>8, <3>9, <3>10
  <2> QED
    BY <2>1, <2>2
<1> QED
  BY <1>9, <1>11, <1>12, <1>13 DEF FollowInv

----------------------------------------------------------------------------
(* The other steps.                                                        *)

\* A request that arrives meets the ones of its user.
LEMMA FollowArrive ==
    ASSUME OwnInv, FollowInv, Grows, NEW c \in Clients, NEW op \in Ops, NEW i, NEW pc,
           NEW items, Begins(c, op, i, pc, items),
           UNCHANGED <<order, listJSON, record>>,
           op = "list" => pc \in {"order", "done"},
           pc # "done" => items = <<>>,
           op = "list" /\ pc = "done" /\ Calm(Me(c))' => Split(Me(c), items, <<>>)',
           op = "register" => /\ RegisterFollows(c)'
                              /\ \A d \in Clients \ {c} :
                                     req[d].op = "register" => req[d].isu # i
    PROVE  FollowInv'
<1>0. TypeInv /\ CacheTypes /\ req \in [Clients -> Handlers] /\ Me(c) \in Users
  BY DEF OwnInv, TypeInv, CacheTypes, Me
<1>1. /\ req'[c].pc = pc /\ req'[c].items = items
      /\ req'[c].op = op /\ req'[c].isu = i /\ req'[c].todo = <<>>
      /\ req'[c].due = {j \in acked : Owns(Me(c), j)}
      /\ \A d \in Clients \ {c} : req'[d] = req[d]
      /\ account' = account
  <2>1. /\ req'[c].pc = pc /\ req'[c].items = items
        /\ req'[c].op = op /\ req'[c].isu = i /\ req'[c].todo = <<>>
        /\ req'[c].due = {j \in acked : Owns(Me(c), j)}
        /\ Moved(c) /\ account' = account
    <3>1. /\ Begins(c, op, i, pc, items) /\ c \in Clients
          /\ req \in [Clients -> Handlers]
      BY <1>0
    <3> QED
      BY ONLY <3>1, BeginsFacts
  <2> QED
    BY <2>1 DEF Moved
<1>2. crossed' = crossed \cup Met(c, op) /\ acked' = acked
  BY DEF Begins, Arrive
<1>3. \A u \in Users : \A j \in Due(u)' : j \in Due(u)
  BY <1>0, <1>2, DueKept
<1>4. \A d \in Clients : Me(d)' = Me(d) /\ Me(d) \in Users
  BY <1>0, <1>1 DEF Me, CacheTypes
<1>5. ASSUME NEW d \in Clients, d # c, Me(d) = Me(c), {op, req[d].op} \in Disturbing
      PROVE  <<Me(c), {op, req[d].op}>> \in crossed'
  BY <1>2, <1>5 DEF Met
<1>6. ASSUME NEW a \in Clients, NEW b \in Clients, a # b
      PROVE  /\ Me(a) = Me(b) /\ {req'[a].op, req'[b].op} \in Disturbing
                => <<Me(a), {req'[a].op, req'[b].op}>> \in crossed'
             /\ req'[a].op = "register" /\ req'[b].op = "register"
                => req'[a].isu # req'[b].isu
  <2>1. CASE a = c
    <3>1. req'[b] = req[b] /\ req'[a].op = op /\ req'[a].isu = i
      BY <1>1, <1>6, <2>1
    <3> QED
      BY <1>5, <1>6, <2>1, <3>1
  <2>2. CASE b = c
    <3>1. req'[a] = req[a] /\ req'[b].op = op /\ req'[b].isu = i
      BY <1>1, <1>6, <2>2
    <3>2. {req'[a].op, req'[b].op} = {op, req[a].op}
      BY <3>1
    <3> QED
      BY <1>5, <1>6, <2>2, <3>1, <3>2
  <2>3. CASE a # c /\ b # c
    <3>1. req'[a] = req[a] /\ req'[b] = req[b]
      BY <1>1, <2>3
    <3> QED
      BY <1>2, <1>6, <3>1 DEF FollowInv, MetInv
  <2> QED
    BY <2>1, <2>2, <2>3
<1>7. MetInv'
  <2>1. ASSUME NEW a \in Clients, NEW b \in Clients
        PROVE  /\ a # b /\ Me(a)' = Me(b)' /\ {req'[a].op, req'[b].op} \in Disturbing
                  => <<Me(a)', {req'[a].op, req'[b].op}>> \in crossed'
               /\ a # b /\ req'[a].op = "register" /\ req'[b].op = "register"
                  => req'[a].isu # req'[b].isu
    BY <1>4, <1>6
  <2> QED
    BY <2>1 DEF MetInv, Disturbing
<1>8. ASSUME NEW u \in Users PROVE OrderFollows(u)' /\ JSONFollows(u)'
  BY <1>3, OrderFollowsKept, JSONFollowsKept
<1>9. ASSUME NEW d \in Clients, d # c PROVE FollowHandler(d)'
  <2>1. req'[d] = req[d] /\ Same(d, Fields \ {"over"})
    BY <1>1, <1>9 DEF Same
  <2>2. Subject(d)' = Subject(d)
    BY <2>1 DEF Subject
  <2>3. RecordOf(Me(d), Subject(d))' = RecordOf(Me(d), Subject(d))
    BY <1>4, <2>2 DEF RecordOf
  <2>4. \A j \in Due(Me(d))' : j \in Due(Me(d))
    <3>1. PICK v \in Users : v = Me(d)
      BY <1>4
    <3>2. Due(Me(d))' = Due(v)'
      BY <1>4, <3>1 DEF Due, Owns
    <3> QED
      BY <1>3, <3>1, <3>2
  <2> QED
    BY <2>1, <2>3, <2>4, FollowHandlerKept
<1>10. FollowHandler(c)'
  <2>1. req'[c].due \subseteq acked'
    BY <1>1, <1>2
  <2>2. ASSUME op = "list", Calm(Me(c))' PROVE ListFollows(c)'
    <3>1. CASE pc = "order"
      BY <1>1, <3>1 DEF ListFollows
    <3>2. CASE pc = "done"
      <4>1. PICK u, t : u = Me(c) /\ t = <<>>
        OBVIOUS
      <4>2. Split(Me(c), items, t)' <=> Split(u, items, t)'
        BY ZenonT(30), <1>4, <4>1 DEF Split, InOrder, IdsRight, Before, Due, Owns, Id, InTurn
      <4>3. /\ Me(c)' = u /\ req'[c].items = items /\ req'[c].todo = t
        BY <1>1, <1>4, <4>1
      <4>4. Split(Me(c), req[c].items, req[c].todo)' <=> Split(u, items, t)'
        BY <4>3 DEF Split, InOrder, IdsRight, Before, Due, Owns, Id, InTurn
      <4> QED
        BY <1>1, <2>2, <3>2, <4>1, <4>2, <4>4 DEF ListFollows
    <3> QED
      BY <2>2, <3>1, <3>2
  <2> QED
    BY <1>1, <2>1, <2>2 DEF FollowHandler
<1> QED
  BY <1>7, <1>8, <1>9, <1>10 DEF FollowInv

LEMMA FollowRequest ==
    ASSUME OwnInv, FollowInv, NEW c \in Clients,
           \/ GetList(c)
           \/ \E i \in Isus : Insert(c, i) \/ \E op \in Ops : GetIsu(c, op, i)
    PROVE  FollowInv'
<1>0. TypeInv /\ CacheTypes /\ CacheTypes' /\ Me(c) \in Users
  BY TypeInvRequest DEF OwnInv, TypeInv, CacheTypes, Me
<1>1. /\ UNCHANGED <<account, record, order, listJSON, acked, forgotten>>
      /\ crossed \subseteq crossed'
  BY DEF GetList, Insert, GetIsu, Arrive, caches
<1>2. CASE GetList(c)
  <2>1. Grows
    BY <1>0, <1>1, <1>2, StaysFrame DEF GetList, Grows
  <2>2. "list" \in Ops
    BY DEF Ops
  <2>3. CASE Arrive(c, "list", NoIsu, To("order"))
    <3>1. Begins(c, "list", NoIsu, "order", <<>>)
      BY <2>3 DEF Begins
    <3> QED
      BY <1>1, <2>1, <2>2, <3>1, FollowArrive
  <2>4. CASE \E body \in listJSON[Me(c)] : Arrive(c, "list", NoIsu, Reply(body.items))
    <3>1. PICK u \in Users : u = Me(c)
      BY <1>0
    <3>2. PICK body \in listJSON[u] : Arrive(c, "list", NoIsu, Reply(body.items))
      BY <2>4, <3>1
    <3>3. Begins(c, "list", NoIsu, "done", body.items)
      BY <3>2 DEF Begins
    <3>4. JSONFollows(u)'
      BY <1>0, <1>1, <2>1, DueKept, JSONFollowsKept
    <3>5. Calm(u)' => Split(u, body.items, <<>>)'
      BY <1>1, <3>4 DEF JSONFollows
    <3>6. PICK s : s = body.items
      OBVIOUS
    <3>7. /\ Calm(Me(c))' <=> Calm(u)'
          /\ Split(Me(c), s, <<>>)' <=> Split(u, s, <<>>)'
      BY <1>1, <3>1 DEF Calm, Split, InOrder, IdsRight, Before, Due, Owns, Id, InTurn, Me
    <3>8. Calm(Me(c))' => Split(Me(c), s, <<>>)'
      BY <3>5, <3>6, <3>7
    <3>9. Begins(c, "list", NoIsu, "done", s)
      BY <3>3, <3>6
    <3> QED
      BY <1>1, <2>1, <2>2, <3>8, <3>9, FollowArrive
  <2> QED
    BY <1>2, <2>3, <2>4 DEF GetList
<1>3. ASSUME NEW i \in Isus, NEW op \in Ops, GetIsu(c, op, i) PROVE FollowInv'
  <2>1. Grows
    BY <1>0, <1>1, <1>3, StaysFrame DEF GetIsu, Grows
  <2>2. op \notin {"list", "register"}
    BY <1>3 DEF GetIsu
  <2>3. \/ Begins(c, op, i, "done", <<Plain(i, record[i].id)>>)
        \/ Begins(c, op, i, "select", <<>>)
    BY <1>3 DEF GetIsu, Begins
  <2> QED
    BY <1>1, <2>1, <2>2, <2>3, FollowArrive
<1>4. ASSUME NEW i \in Isus, Insert(c, i) PROVE FollowInv'
  <2>1. PICK u \in Users : u = Me(c)
    BY <1>0
  <2>2. i \notin Registered /\ rows' = Append(rows, [isu |-> i, user |-> u])
    BY <1>4, <2>1 DEF Insert
  <2>3. \A v \in Users : \A j \in Isus : Owns(v, j) => j \in Registered
    BY <1>0, RowsFacts
  <2>4. Stays
    <3>1. /\ Range(rows)' = Range(rows) \cup {[isu |-> i, user |-> u]}
          /\ \A j \in Registered : Id(j)' = Id(j)
      BY <1>0, <2>2, InsertFacts
    <3> QED
      BY <2>3, <3>1 DEF Stays, Owns
  <2>5. Grows
    BY <1>0, <1>1, <2>4 DEF Grows
  <2>6. Begins(c, "register", i, "owner", <<>>) /\ "register" \in Ops
    BY <1>4 DEF Begins, Insert, Ops
  <2>7. req'[c].isu = i
    BY <1>0, <2>6, BeginsFacts DEF TypeInv
  <2>8. ASSUME NEW o \in order[u], NEW n \in DOMAIN o PROVE Before(u, i, o[n])'
    <3>1. o \in Seq(Isus)
      BY <1>0 DEF CacheTypes
    <3>2. o[n] \in Isus /\ Owns(u, o[n])
      BY <3>1, ElementOfSeq DEF OwnInv, OwnOrder
    <3>3. Id(i)' > Id(o[n])'
      BY <1>0, <2>2, <3>2, InsertLast
    <3> QED
      BY <3>3 DEF Before
  <2>9. RegisterFollows(c)'
    <3>1. RegisterFollows(c)' <=> \A o \in order'[u] : \A n \in DOMAIN o : Before(u, i, o[n])'
      BY <1>1, <2>1, <2>7 DEF RegisterFollows, Before, Id, InTurn, Me
    <3> QED
      BY <1>1, <2>8, <3>1
  <2>10. ASSUME NEW d \in Clients, req[d].op = "register" PROVE req[d].isu # i
    <3>1. Place(d) /\ Me(d) \in Users
      BY <1>0 DEF TypeInv, CacheTypes, Me
    <3>2. req[d].isu \in Isus /\ Owns(Me(d), req[d].isu)
      BY <2>10, <3>1 DEF Place
    <3> QED
      BY <2>2, <2>3, <3>1, <3>2
  <2> QED
    BY <1>1, <2>5, <2>6, <2>9, <2>10, FollowArrive
<1> QED
  BY <1>2, <1>3, <1>4

\* What no list is held against may change.
LEMMA FollowKept ==
    ASSUME OwnInv, FollowInv, Grows, UNCHANGED <<rows, acked, order, record>>,
           \A d \in Clients : Same(d, Fields \ {"over"}),
           \A u \in Users : listJSON'[u] \subseteq listJSON[u]
    PROVE  FollowInv'
<1>0. CacheTypes /\ \A d \in Clients : Me(d) \in Users /\ Me(d)' = Me(d)
  BY DEF OwnInv, TypeInv, CacheTypes, Me, Grows
<1>1. \A u \in Users : \A j \in Due(u)' : j \in Due(u)
  BY <1>0, DueKept
<1>2. MetInv'
  <2>1. \A d \in Clients : Same(d, {"op", "isu"})
    BY DEF Same, Fields
  <2> QED
    BY <2>1, MetKept DEF Grows
<1>3. ASSUME NEW u \in Users PROVE OrderFollows(u)' /\ JSONFollows(u)'
  BY <1>1, OrderFollowsKept, JSONFollowsKept
<1>4. ASSUME NEW d \in Clients PROVE FollowHandler(d)'
  <2>1. Same(d, Fields \ {"over"})
    OBVIOUS
  <2>2. Subject(d)' = Subject(d)
    BY <2>1 DEF Subject, Same, Fields
  <2>3. RecordOf(Me(d), Subject(d))' = RecordOf(Me(d), Subject(d))
    BY <1>0, <2>2 DEF RecordOf
  <2>4. \A j \in Due(Me(d))' : j \in Due(Me(d))
    <3>1. PICK v \in Users : v = Me(d)
      BY <1>0
    <3>2. Due(Me(d))' = Due(v)'
      BY <1>0, <3>1 DEF Due, Owns
    <3> QED
      BY <1>1, <3>1, <3>2
  <2> QED
    BY <2>1, <2>3, <2>4, FollowHandlerKept
<1> QED
  BY <1>2, <1>3, <1>4 DEF FollowInv

LEMMA FollowWriter ==
    ASSUME OwnInv, FollowInv,
           \/ \E f \in fills : FillIcon(f)
           \/ \E x \in Conditions : WriteLatest(x.isu, x.at)
           \/ LookUpOwner \/ DropJSON
    PROVE  FollowInv'
<1>0. TypeInv /\ CacheTypes /\ CacheTypes'
  BY TypeInvWriter DEF OwnInv, TypeInv
<1>1. UNCHANGED <<account, rows, acked, forgotten, crossed, order, record>>
  BY DEF FillIcon, WriteLatest, LookUpOwner, DropJSON, caches, history
<1>2. Grows
  BY <1>0, <1>1, StaysFrame DEF Grows
<1>3. \A u \in Users : listJSON'[u] \subseteq listJSON[u]
  <2>1. listJSON' = listJSON \/ listJSON' = [listJSON EXCEPT ![writer.user] = {}]
    BY DEF FillIcon, WriteLatest, LookUpOwner, DropJSON, caches
  <2> QED
    BY <1>0, <2>1 DEF CacheTypes
<1>4. \A d \in Clients : Same(d, Fields \ {"over"})
  <2>1. CASE req' = req
    BY <2>1 DEF Same
  <2>2. ASSUME NEW x \in Conditions, WriteLatest(x.isu, x.at)
        PROVE  \A d \in Clients : Same(d, Fields \ {"over"})
    <3>1. \A d \in Clients : \A f \in Fields \ {"over"} :
              Overtaken(x.isu, x.at)[d][f] = req[d][f]
      BY <1>0, OvertakenFacts
    <3>2. req' = Overtaken(x.isu, x.at)
      BY <2>2 DEF WriteLatest
    <3> QED
      BY <3>1, <3>2 DEF Same
  <2> QED
    BY <2>1, <2>2 DEF FillIcon, LookUpOwner, DropJSON
<1> QED
  BY <1>1, <1>2, <1>3, <1>4, FollowKept

\* The order that POST /initialize leaves behind follows the rows of the seed.
LEMMA SeedFollows ==
    ASSUME NEW u \in Users
    PROVE  /\ \A o, p \in SeedOrder[u] : o = p
           /\ \A k \in DOMAIN Seed : Seed[k].user = u =>
                  \E o \in SeedOrder[u] : Seed[k].isu \in Range(o)
           /\ \A o \in SeedOrder[u] : \A m, n \in DOMAIN o :
                  m < n => IdIn(Seed, o[m]) > IdIn(Seed, o[n])
<1> DEFINE ids == Descending(Ids(Seed, u))
           own == [n \in DOMAIN ids |-> Seed[ids[n]].isu]
           k == Cardinality(Ids(Seed, u))
<1>1. Seed \in Seq([isu : Isus, user : Users]) /\ Unique(Seed)
  BY SeedFacts
<1>2. /\ \A m, n \in DOMAIN ids : m < n => ids[m] > ids[n]
      /\ \A j \in DOMAIN Seed : Seed[j].user = u => \E n \in DOMAIN ids : ids[n] = j
  BY ZenonT(30), <1>1, IdsOrder
<1>3. DOMAIN ids = 1..k /\ \A n \in 1..k : ids[n] \in DOMAIN Seed
  BY <1>1, IdsFacts
<1>4. SeedOrder[u] = IF ids = <<>> THEN {} ELSE {own}
  BY DEF SeedOrder
<1>5. ASSUME NEW n \in DOMAIN ids PROVE IdIn(Seed, Seed[ids[n]].isu) = ids[n]
  <2>1. PICK j \in DOMAIN Seed : j = ids[n]
    BY <1>3
  <2>2. IdIn(Seed, Seed[j].isu) = j
    BY <1>1, TableFacts
  <2> QED
    BY <2>1, <2>2
<1> HIDE DEF ids, k
<1>6. DOMAIN own = DOMAIN ids /\ \A n \in DOMAIN ids : own[n] = Seed[ids[n]].isu
  OBVIOUS
<1> HIDE DEF own
<1>7. \A m, n \in DOMAIN own : m < n => IdIn(Seed, own[m]) > IdIn(Seed, own[n])
  BY <1>2, <1>5, <1>6
<1>8. ASSUME NEW j \in DOMAIN Seed, Seed[j].user = u
      PROVE  \E o \in SeedOrder[u] : Seed[j].isu \in Range(o)
  <2>1. PICK n \in DOMAIN ids : ids[n] = j
    BY <1>2, <1>8
  <2>2. ids # <<>>
    BY <2>1
  <2>3. Seed[j].isu \in Range(own)
    BY <1>6, <2>1 DEF Range
  <2> QED
    BY <1>4, <2>2, <2>3
<1> QED
  BY <1>4, <1>7, <1>8

LEMMA FollowInit == ASSUME Init PROVE FollowInv
<1>1. rows = Seed /\ order = SeedOrder /\ listJSON = [u \in Users |-> {}]
      /\ req = [c \in Clients |-> Idle]
  BY DEF Init
<1>2. ASSUME NEW u \in Users PROVE OrderFollows(u)
  <2>1. \A j \in Due(u) : \E n \in DOMAIN Seed : Seed[n].isu = j /\ Seed[n].user = u
    BY <1>1 DEF Due, Owns, Range
  <2>2. \A o, p \in order[u] : o = p
    BY <1>1, SeedFollows
  <2>3. \A j \in Due(u) : \E o \in order[u] : j \in Range(o)
    BY <1>1, <2>1, SeedFollows
  <2>4. \A o \in order[u] : \A m, n \in DOMAIN o : m < n => Before(u, o[m], o[n])
    BY <1>1, SeedFollows DEF Before, Id
  <2> QED
    BY <2>2, <2>3, <2>4 DEF OrderFollows
<1>3. \A u \in Users : JSONFollows(u)
  BY <1>1 DEF JSONFollows
<1>4. \A c \in Clients : FollowHandler(c)
  BY <1>1 DEF Idle, FollowHandler
<1>5. MetInv
  BY <1>1 DEF Idle, MetInv, Disturbing
<1> QED
  BY <1>2, <1>3, <1>4, <1>5 DEF FollowInv

LEMMA FollowRestart == ASSUME Restart PROVE FollowInv'
<1>1. /\ order' = [u \in Users |-> {}] /\ listJSON' = [u \in Users |-> {}]
      /\ req' = [c \in Clients |-> Idle] /\ acked' \ forgotten' = {}
  BY DEF Restart, NoCaches
<1>2. \A u \in Users : OrderFollows(u)'
  BY <1>1 DEF OrderFollows, Due
<1>3. \A u \in Users : JSONFollows(u)'
  BY <1>1 DEF JSONFollows
<1>4. \A c \in Clients : FollowHandler(c)'
  BY <1>1 DEF Idle, FollowHandler
<1>5. MetInv'
  BY <1>1 DEF Idle, MetInv, Disturbing
<1> QED
  BY <1>2, <1>3, <1>4, <1>5 DEF FollowInv

LEMMA FollowInitialize == ASSUME OwnInv, Initialize PROVE FollowInv'
<1>1. /\ rows' = Seed /\ order' = SeedOrder /\ listJSON' = [u \in Users |-> {}]
      /\ req' = req /\ \A c \in Clients : req[c].pc = "idle"
  BY DEF Initialize
<1>2. ASSUME NEW u \in Users PROVE OrderFollows(u)'
  <2>1. \A j \in Due(u)' : \E n \in DOMAIN Seed : Seed[n].isu = j /\ Seed[n].user = u
    BY <1>1 DEF Due, Owns, Range
  <2>2. \A o, p \in order'[u] : o = p
    BY <1>1, SeedFollows
  <2>3. \A j \in Due(u)' : \E o \in order'[u] : j \in Range(o)
    BY <1>1, <2>1, SeedFollows
  <2>4. \A o \in order'[u] : \A m, n \in DOMAIN o : m < n => Before(u, o[m], o[n])'
    BY <1>1, SeedFollows DEF Before, Id
  <2> QED
    BY <2>2, <2>3, <2>4 DEF OrderFollows
<1>3. \A u \in Users : JSONFollows(u)'
  BY <1>1 DEF JSONFollows
<1>4. \A c \in Clients : req'[c].op = "none" /\ req'[c].due = {}
  BY <1>1 DEF OwnInv, TypeInv, Place, Fits
<1>5. \A c \in Clients : FollowHandler(c)'
  BY <1>4 DEF FollowHandler
<1>6. MetInv'
  BY <1>4 DEF MetInv, Disturbing
<1> QED
  BY <1>2, <1>3, <1>5, <1>6 DEF FollowInv

LEMMA FollowNext == OwnInv /\ FollowInv /\ [Next]_vars => FollowInv'
<1> SUFFICES ASSUME OwnInv, FollowInv, [Next]_vars PROVE FollowInv'
  OBVIOUS
<1>1. CASE UNCHANGED vars
  <2>1. UNCHANGED <<account, rows, order, listJSON, record, req, acked, forgotten, crossed>>
    BY <1>1 DEF vars, caches, history
  <2>2. Grows
    <3>1. CacheTypes'
      BY <1>1, TypeInvNext DEF OwnInv, TypeInv
    <3> QED
      BY <2>1, <3>1, StaysFrame DEF Grows
  <2> QED
    BY <2>1, <2>2, FollowKept DEF Same
<1>2. ASSUME NEW c \in Clients, Handle(c) PROVE FollowInv'
  BY <1>2, FollowPrepend, FollowHandleQuiet
<1> QED
  BY <1>1, <1>2, FollowRequest, FollowWriter, FollowRestart, FollowInitialize DEF Next

LEMMA FollowInvariant == Spec => []FollowInv
<1>1. Init => FollowInv
  BY FollowInit
<1> QED
  BY <1>1, OwnInvariant, FollowNext, PTL DEF Spec

\* GET /api/isu shows every ISU whose registration was answered before the
\* request began, with any number of users, clients and requests, as long as no
\* registration and no condition request of that user was served at the same
\* time; only what was registered before a restart may be missing.
THEOREM CatalogListShowsRegistered == Spec => []ListShowsRegistered
<1>1. OwnInv /\ FollowInv => ListShowsRegistered
  <2> SUFFICES ASSUME OwnInv, FollowInv, NEW c \in Clients, Answered(c, "list"),
                      Calm(Me(c)), NEW j \in req[c].due \ forgotten
               PROVE  j \in Shown(c)
    BY DEF ListShowsRegistered
  <2>1. /\ req[c].op = "list" /\ req[c].pc = "done" /\ FollowHandler(c) /\ OwnHandler(c)
    BY DEF Answered, Serving, FollowInv, OwnInv
  <2>2. ListFollows(c) /\ req[c].due \subseteq acked
    BY <2>1 DEF FollowHandler
  <2>3. Split(Me(c), req[c].items, <<>>)
    BY <2>1, <2>2 DEF ListFollows
  <2>4. Owns(Me(c), j)
    BY <2>1 DEF OwnHandler
  <2>5. j \in Due(Me(c))
    BY <2>2, <2>4 DEF Due
  <2>6. Names(<<>>) = {}
    BY DEF Names
  <2> QED
    BY <2>3, <2>5, <2>6 DEF Split, Names, Shown, Range
<1> QED
  BY <1>1, OwnInvariant, FollowInvariant, PTL

\* The list has the ids of the rows, no ISU twice, and the newest first unless
\* two registrations of the user were served at the same time.
THEOREM CatalogListFollowsRows == Spec => []ListFollowsRows
<1>1. OwnInv /\ FollowInv => ListFollowsRows
  <2> SUFFICES ASSUME OwnInv, FollowInv, NEW c \in Clients, Answered(c, "list"),
                      Calm(Me(c)), NEW items, items = req[c].items
               PROVE  /\ \A x \in Range(items) : x.id = Id(x.isu)
                      /\ \A m, n \in DOMAIN items :
                            m < n => \/ items[m].id > items[n].id
                                     \/ ~InTurn(Me(c)) /\ items[m].id # items[n].id
    BY DEF ListFollowsRows
  <2>1. req[c].op = "list" /\ req[c].pc = "done" /\ FollowHandler(c)
    BY DEF Answered, Serving, FollowInv
  <2>2. Split(Me(c), items, req[c].todo)
    BY <2>1 DEF FollowHandler, ListFollows
  <2>3. /\ \A n \in DOMAIN items : items[n].id = Id(items[n].isu)
        /\ \A m, n \in DOMAIN items :
               m < n => Before(Me(c), items[m].isu, items[n].isu)
    BY <2>2 DEF Split, IdsRight, InOrder
  <2> QED
    BY <2>3 DEF Before, Range
<1> QED
  BY <1>1, OwnInvariant, FollowInvariant, PTL
=============================================================================
