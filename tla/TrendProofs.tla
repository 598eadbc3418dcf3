----------------------------- MODULE TrendProofs -----------------------------
(***************************************************************************)
(* Proofs about the trend cache, for every number of clients, calls,       *)
(* versions of the data and initialisations: one rebuild at a time, nobody *)
(* waits for a rebuild that was not started, the shared body does not go   *)
(* back in time, and no answer is older than one given before its GET.     *)
(***************************************************************************)
EXTENDS TrendCache, TLAPS, FiniteSetTheorems

\* What has been stored so far: versions only grow from one rebuild to the
\* next, and the body is the newest of them.  What clients were answered with
\* has been stored.  A GET that has seen a stale body, runs a rebuild or is
\* over holds nothing older than what was answered before it began.
Stored == {b \in Builds : stage[b] = "closed"}

Built ==
    /\ \A b \in Builds : made[b] <= version
    /\ \A a \in Stored, b \in Builds :
          stage[b] = "store" /\ made[b] # Failed => made[a] <= made[b]
    /\ body # None => \A a \in Stored : made[a] <= body
    /\ body # None => \E a \in Stored : made[a] = body

WasStored(v) == v = None \/ \E a \in Stored : made[a] = v

Answered ==
    /\ WasStored(newest)
    /\ \A c \in Callers : WasStored(since[c])

KickSince(c) ==
    pc[c] = "kick" =>
        local[c] \in Versions /\ since[c] <= local[c] /\ WasStored(local[c])

OwnSince(c) ==
    /\ pc[c] = "own" /\ stage[waits[c]] \in {"store", "closed"}
    /\ made[waits[c]] # Failed
    => since[c] <= made[waits[c]]

IdleSince(c) ==
    pc[c] = "idle" /\ local[c] \in Versions => since[c] <= local[c]

Since == \A c \in Callers : KickSince(c) /\ OwnSince(c) /\ IdleSince(c)

Recent == Built /\ Answered /\ Since

\* While the flag is up, there is a channel to wait on.
FlagHasChannel == refreshing = "yes" => done \in Builds

TrendInv == TypeOK /\ OneRefresh /\ FlagHasChannel /\ WaitsForARebuild /\ Recent

\* Rebuilds and versions are positive numbers: neither is None, Failed or nil.
LEMMA BuildsAreNumbers ==
    /\ Builds \subseteq Nat \ {0}
    /\ Versions \subseteq Nat \ {0} /\ 1 \in Versions
<1>1. Cardinality(Callers) \in Nat
  BY TrendAssumption, FS_CardinalityType
<1>2. MaxVersion \in Nat \ {0} /\ MaxCalls \in Nat \ {0}
  BY TrendAssumption
<1>3. \A b \in Builds : b \in Int /\ 1 <= b
  <2>1. Cardinality(Callers) * MaxCalls \in Int
    BY <1>1, <1>2
  <2> QED
    BY <2>1 DEF Builds
<1>4. \A v \in Versions : v \in Int /\ 1 <= v
  BY <1>2 DEF Versions
<1>5. 1 \in Versions
  BY <1>2 DEF Versions
<1> QED
  BY <1>3, <1>4, <1>5

\* Their comparisons with None and Failed.
LEMMA NumberFacts ==
    /\ \A v \in Versions : v \in Int /\ 1 <= v
    /\ \A v \in Versions \cup {None} : v \in Int /\ 0 <= v
    /\ \A v \in Versions \cup {None, Failed} : v \in Int /\ -1 <= v
<1>1. \A v \in Versions : v \in Int /\ 1 <= v
  BY BuildsAreNumbers
<1> QED
  BY <1>1 DEF None, Failed

LEMMA TrendInvInit == Init => TrendInv
<1> SUFFICES ASSUME Init PROVE TrendInv
  OBVIOUS
<1> USE DEF Init
<1>1. TypeOK
  BY BuildsAreNumbers, TrendAssumption DEF TypeOK
<1>2. OneRefresh /\ FlagHasChannel /\ WaitsForARebuild
  BY DEF OneRefresh, FlagHasChannel, WaitsForARebuild
<1>3. Recent
  <2>1. Built
    BY BuildsAreNumbers DEF Built, Stored, None, Failed
  <2>2. Answered /\ Since
    BY DEF Answered, WasStored, Since, KickSince, OwnSince, IdleSince, None
  <2> QED
    BY <2>1, <2>2 DEF Recent
<1> QED
  BY <1>1, <1>2, <1>3 DEF TrendInv

----------------------------------------------------------------------------
(* Types.                                                                  *)

LEMMA NewRefreshTypes ==
    ASSUME TypeOK, NEW b \in Builds, NewRefresh(b)
    PROVE  /\ refreshing' \in {"yes", "no"} /\ done' \in Builds \cup {0}
           /\ stage' \in [Builds -> {"unused", "build", "store", "closed"}]
BY DEF TypeOK, NewRefresh

LEMMA ReturnTypes ==
    ASSUME TypeOK, NEW c \in Callers, NEW b \in Versions \cup {None, Failed},
           Return(c, b)
    PROVE  /\ pc' \in [Callers -> {"idle", "kick", "begin", "own", "wait", "again"}]
           /\ local' \in [Callers -> Versions \cup {None, Failed}]
           /\ newest' \in Versions \cup {None}
<1>1. newest' \in Versions \cup {None}
  <2>1. CASE b > newest
    <3>1. newest' = b /\ newest \in Int /\ 0 <= newest
      BY <2>1, NumberFacts DEF TypeOK, Return
    <3> QED
      BY <3>1, <2>1 DEF Failed
  <2>2. CASE ~(b > newest)
    BY <2>2 DEF TypeOK, Return
  <2> QED
    BY <2>1, <2>2
<1> QED
  BY <1>1 DEF TypeOK, Return

LEMMA TypeOKNext == ASSUME TypeOK, WaitsForARebuild, [Next]_vars PROVE TypeOK'
<1> USE DEF vars, cache, rebuild, client
<1>1. CASE UNCHANGED vars
  BY <1>1 DEF TypeOK
<1>2. CASE Change
  BY <1>2, TrendAssumption DEF TypeOK, Change, Versions
<1>3. CASE TimePasses
  BY <1>3 DEF TypeOK, TimePasses
<1>4. CASE Initialize
  <2>1. inits' \in [begun : 0 .. MaxInits, ended : 0 .. MaxInits]
    BY <1>4, TrendAssumption DEF TypeOK, Initialize
  <2>2. version' \in Versions
    BY <1>4, TrendAssumption DEF TypeOK, Initialize, Versions
  <2> QED
    BY <1>4, <2>1, <2>2 DEF TypeOK, Initialize
<1>5. CASE ResetTrendSchedule
  <2>1. inits' \in [begun : 0 .. MaxInits, ended : 0 .. MaxInits]
    BY <1>5, TrendAssumption DEF TypeOK, ResetTrendSchedule
  <2> QED
    BY <1>5, <2>1 DEF TypeOK, ResetTrendSchedule
<1>6. ASSUME NEW c \in Callers, Look(c) PROVE TypeOK'
  <2>1. /\ calls' \in [Callers -> 0 .. MaxCalls]
        /\ since' \in [Callers -> Versions \cup {None}]
    BY <1>6, TrendAssumption DEF TypeOK, Look
  <2>2. CASE Fresh /\ Return(c, body)
    BY <1>6, <2>1, <2>2, ReturnTypes DEF TypeOK, Look
  <2>3. CASE Goto(c, "kick") /\ local' = [local EXCEPT ![c] = body]
    BY <1>6, <2>1, <2>3 DEF TypeOK, Look, Goto
  <2>4. CASE Goto(c, "begin") /\ UNCHANGED local
    BY <1>6, <2>1, <2>4 DEF TypeOK, Look, Goto
  <2> QED
    BY <1>6, <2>2, <2>3, <2>4 DEF Look
<1>7. ASSUME NEW c \in Callers, Kick(c) PROVE TypeOK'
  <2>1. local[c] \in Versions \cup {None, Failed}
    BY DEF TypeOK
  <2>2. /\ refreshing' \in {"yes", "no"} /\ done' \in Builds \cup {0}
        /\ stage' \in [Builds -> {"unused", "build", "store", "closed"}]
    BY <1>7, NewRefreshTypes DEF Kick, TypeOK
  <2> QED
    BY <1>7, <2>1, <2>2, ReturnTypes DEF TypeOK, Kick
<1>8. ASSUME NEW c \in Callers, Begin(c) PROVE TypeOK'
  <2>1. ASSUME NEW b \in Builds, NewRefresh(b), Goto(c, "own"),
               waits' = [waits EXCEPT ![c] = b]
        PROVE TypeOK'
    BY <1>8, <2>1, NewRefreshTypes DEF TypeOK, Begin, Goto
  <2>2. CASE ~MayRefresh /\ Fresh
    BY <1>8, <2>2 DEF TypeOK, Begin, Goto
  <2>3. CASE ~MayRefresh /\ ~Fresh
    BY <1>8, <2>3 DEF TypeOK, Begin, Goto
  <2> QED
    BY <1>8, <2>1, <2>2, <2>3 DEF Begin
<1>9. ASSUME NEW b \in Builds, Build(b) PROVE TypeOK'
  BY <1>9 DEF TypeOK, Build
<1>10. ASSUME NEW b \in Builds, BuildFails(b) PROVE TypeOK'
  BY <1>10 DEF TypeOK, BuildFails
<1>11. ASSUME NEW b \in Builds, Store(b) PROVE TypeOK'
  <2>1. CASE made[b] = Failed
    BY <1>11, <2>1 DEF TypeOK, Store
  <2>2. CASE made[b] # Failed
    BY <1>11, <2>2 DEF TypeOK, Store
  <2> QED
    BY <2>1, <2>2
<1>12. ASSUME NEW c \in Callers, ReturnOwn(c) PROVE TypeOK'
  <2>1. made[waits[c]] \in Versions \cup {None, Failed}
    BY <1>12 DEF TypeOK, ReturnOwn, WaitsForARebuild
  <2> QED
    BY <1>12, <2>1, ReturnTypes DEF TypeOK, ReturnOwn
<1>13. ASSUME NEW c \in Callers, Wake(c) PROVE TypeOK'
  BY <1>13 DEF TypeOK, Wake, Goto
<1>14. ASSUME NEW c \in Callers, LookAgain(c) PROVE TypeOK'
  BY <1>14, ReturnTypes DEF TypeOK, LookAgain
<1> QED
  BY <1>1, <1>2, <1>3, <1>4, <1>5, <1>6, <1>7, <1>8, <1>9, <1>10, <1>11,
     <1>12, <1>13, <1>14 DEF Next, Client, Refresh

----------------------------------------------------------------------------
(* One rebuild at a time.                                                  *)

LEMMA OneRefreshNext ==
    ASSUME TypeOK, OneRefresh, FlagHasChannel, [Next]_vars
    PROVE  OneRefresh' /\ FlagHasChannel'
<1> USE DEF TypeOK, OneRefresh, FlagHasChannel
<1>1. ASSUME NEW b \in Builds, NewRefresh(b), MayRefresh PROVE OneRefresh' /\ FlagHasChannel'
  BY <1>1 DEF NewRefresh, MayRefresh
<1>2. ASSUME UNCHANGED <<refreshing, done, stage>> PROVE OneRefresh' /\ FlagHasChannel'
  BY <1>2
<1>3. ASSUME NEW c \in Callers, Look(c) PROVE OneRefresh' /\ FlagHasChannel'
  BY <1>3, <1>2 DEF Look, cache, rebuild
<1>4. ASSUME NEW c \in Callers, Kick(c) PROVE OneRefresh' /\ FlagHasChannel'
  BY <1>4, <1>1, <1>2 DEF Kick
<1>5. ASSUME NEW c \in Callers, Begin(c) PROVE OneRefresh' /\ FlagHasChannel'
  BY <1>5, <1>1, <1>2 DEF Begin
<1>6. ASSUME NEW c \in Callers, ReturnOwn(c) \/ Wake(c) \/ LookAgain(c)
      PROVE OneRefresh' /\ FlagHasChannel'
  BY <1>6, <1>2 DEF ReturnOwn, Wake, LookAgain, cache, rebuild
<1>7. ASSUME NEW b \in Builds, Build(b) \/ BuildFails(b) PROVE OneRefresh' /\ FlagHasChannel'
  BY <1>7 DEF Build, BuildFails, cache
<1>8. ASSUME NEW b \in Builds, Store(b) PROVE OneRefresh' /\ FlagHasChannel'
  BY <1>8 DEF Store
<1>9. CASE Change \/ TimePasses \/ Initialize \/ ResetTrendSchedule \/ UNCHANGED vars
  BY <1>9, <1>2 DEF Change, TimePasses, Initialize, ResetTrendSchedule,
                    vars, cache, rebuild
<1> QED
  BY <1>3, <1>4, <1>5, <1>6, <1>7, <1>8, <1>9 DEF Next, Client, Refresh

----------------------------------------------------------------------------
(* Nobody waits for what was not started.                                  *)

\* A rebuild that has been started stays started.
LEMMA StageNext ==
    ASSUME TypeOK, [Next]_vars, NEW b \in Builds, stage[b] # "unused"
    PROVE  stage'[b] # "unused"
<1> USE DEF TypeOK
<1>1. ASSUME NEW a \in Builds, NewRefresh(a) PROVE stage'[b] # "unused"
  BY <1>1 DEF NewRefresh
<1>2. ASSUME NEW c \in Callers, Look(c) \/ Client(c) PROVE stage'[b] # "unused"
  BY <1>2, <1>1 DEF Look, Client, Kick, Begin, ReturnOwn, Wake, LookAgain, rebuild
<1>3. ASSUME NEW a \in Builds, Refresh(a) PROVE stage'[b] # "unused"
  BY <1>3 DEF Refresh, Build, BuildFails, Store
<1>4. CASE Change \/ TimePasses \/ Initialize \/ ResetTrendSchedule \/ UNCHANGED vars
  BY <1>4 DEF Change, TimePasses, Initialize, ResetTrendSchedule, vars, rebuild
<1> QED
  BY <1>2, <1>3, <1>4 DEF Next

LEMMA WaitsNext ==
    ASSUME TypeOK, OneRefresh, FlagHasChannel, WaitsForARebuild, [Next]_vars
    PROVE  WaitsForARebuild'
<1> DEFINE Good(c) == pc[c] \in {"own", "wait"} =>
                          waits[c] \in Builds /\ stage[waits[c]] # "unused"
<1>0. \A c \in Callers : Good(c)
  BY DEF WaitsForARebuild
<1>1. ASSUME NEW c \in Callers, pc'[c] = pc[c] \/ pc'[c] \notin {"own", "wait"},
             waits'[c] = waits[c]
      PROVE  Good(c)'
  BY <1>0, <1>1, StageNext
<1> SUFFICES ASSUME NEW d \in Callers PROVE Good(d)'
  BY DEF WaitsForARebuild
<1> USE DEF TypeOK
<1>2. ASSUME NEW c \in Callers, Look(c) PROVE Good(d)'
  BY <1>2, <1>1 DEF Look, Return, Goto
<1>3. ASSUME NEW c \in Callers, Kick(c) PROVE Good(d)'
  BY <1>3, <1>1 DEF Kick, Return
<1>4. ASSUME NEW c \in Callers, Begin(c) PROVE Good(d)'
  <2>1. CASE c # d
    <3>1. pc'[d] = pc[d] /\ waits'[d] = waits[d]
      BY <1>4, <2>1 DEF Begin, Goto
    <3> QED
      BY <3>1, <1>1
  <2>2. ASSUME c = d, NEW b \in Builds, NewRefresh(b),
               waits' = [waits EXCEPT ![c] = b]
        PROVE Good(d)'
    BY <2>2 DEF NewRefresh
  <2>3. CASE c = d /\ ~MayRefresh /\ Fresh
    <3>1. pc'[d] = "again"
      BY <1>4, <2>3 DEF Begin, Goto, MayRefresh
    <3> QED
      BY <3>1
  <2>4. CASE c = d /\ ~MayRefresh /\ ~Fresh
    <3>1. waits'[d] = done /\ stage' = stage
      BY <1>4, <2>4 DEF Begin, MayRefresh
    <3>2. refreshing = "yes"
      BY <2>4 DEF MayRefresh
    <3>3. done \in Builds /\ stage[done] # "unused"
      BY <3>2 DEF OneRefresh, FlagHasChannel
    <3> QED
      BY <3>1, <3>3
  <2> QED
    BY <1>4, <2>1, <2>2, <2>3, <2>4 DEF Begin
<1>5. ASSUME NEW c \in Callers, ReturnOwn(c) \/ Wake(c) \/ LookAgain(c)
      PROVE Good(d)'
  BY <1>5, <1>1 DEF ReturnOwn, Wake, LookAgain, Return, Goto
<1>6. ASSUME NEW b \in Builds, Refresh(b) PROVE Good(d)'
  BY <1>6, <1>1 DEF Refresh, Build, BuildFails, Store, client
<1>7. CASE Change \/ TimePasses \/ Initialize \/ ResetTrendSchedule \/ UNCHANGED vars
  BY <1>7, <1>1 DEF Change, TimePasses, Initialize, ResetTrendSchedule, vars, client
<1> QED
  BY <1>2, <1>3, <1>4, <1>5, <1>6, <1>7 DEF Next, Client

----------------------------------------------------------------------------
(* What is stored and answered only becomes newer.                         *)

\* Steps that leave the rebuilds alone keep what is known of them.
LEMMA BuiltSame ==
    ASSUME Built, UNCHANGED <<version, made, stage>>, body' = body \/ body' = None
    PROVE  Built'
<1>1. Stored' = Stored
  BY DEF Stored
<1> QED
  BY <1>1 DEF Built

LEMMA BuiltNewRefresh ==
    ASSUME TypeOK, Built, NEW b \in Builds, NewRefresh(b),
           UNCHANGED <<version, body, made>>
    PROVE  Built' /\ Stored' = Stored
<1>1. /\ stage' = [stage EXCEPT ![b] = "build"] /\ stage[b] = "unused"
      /\ stage \in [Builds -> {"unused", "build", "store", "closed"}]
  BY DEF TypeOK, NewRefresh
<1>2. Stored' = Stored
  BY <1>1 DEF Stored
<1>3. \A a \in Builds : stage'[a] = "store" => stage[a] = "store"
  BY <1>1
<1> QED
  BY <1>1, <1>2, <1>3 DEF Built

LEMMA BuiltBuild ==
    ASSUME TypeOK, Built, NEW b \in Builds, Build(b) \/ BuildFails(b)
    PROVE  /\ Built' /\ Stored' = Stored
           /\ \A a \in Stored : made'[a] = made[a]
<1>1. /\ stage' = [stage EXCEPT ![b] = "store"] /\ stage[b] = "build"
      /\ stage \in [Builds -> {"unused", "build", "store", "closed"}]
      /\ made \in [Builds -> Versions \cup {None, Failed}]
      /\ version' = version /\ body' = body
      /\ \/ made' = [made EXCEPT ![b] = version]
         \/ made' = [made EXCEPT ![b] = Failed]
  BY DEF TypeOK, Build, BuildFails, cache
<1>2. /\ version \in Int /\ 1 <= version
      /\ \A a \in Builds : made[a] \in Int /\ -1 <= made[a]
  BY <1>1, NumberFacts DEF TypeOK
<1>3. Stored' = Stored /\ b \notin Stored
  BY <1>1 DEF Stored
<1>4. \A a \in Builds : a # b => made'[a] = made[a] /\ stage'[a] = stage[a]
  BY <1>1
<1>5. \A a \in Stored : a \in Builds /\ made'[a] = made[a]
  BY <1>3, <1>4 DEF Stored
<1>6. made'[b] = version \/ made'[b] = Failed
  BY <1>1
<1>7. \A a \in Builds : made'[a] <= version
  BY <1>2, <1>4, <1>6 DEF Built, Failed
<1>8. ASSUME NEW a \in Stored, NEW d \in Builds, stage'[d] = "store",
             made'[d] # Failed
      PROVE  made'[a] <= made'[d]
  <2>1. CASE d = b
    BY <2>1, <1>5, <1>6, <1>8 DEF Built
  <2>2. CASE d # b
    BY <2>2, <1>4, <1>5, <1>8 DEF Built
  <2> QED
    BY <2>1, <2>2
<1>9. /\ body' # None => \A a \in Stored' : made'[a] <= body'
      /\ body' # None => \E a \in Stored' : made'[a] = body'
  BY <1>1, <1>3, <1>5 DEF Built
<1>10. Built'
  BY <1>1, <1>3, <1>7, <1>8, <1>9 DEF Built
<1> QED
  BY <1>3, <1>5, <1>10

LEMMA BuiltStore ==
    ASSUME TypeOK, OneRefresh, Built, NEW b \in Builds, Store(b)
    PROVE  /\ Built' /\ Stored' = Stored \cup {b} /\ made' = made
           /\ body # None /\ body' # None => body' >= body
<1>1. /\ stage' = [stage EXCEPT ![b] = "closed"] /\ stage[b] = "store"
      /\ stage \in [Builds -> {"unused", "build", "store", "closed"}]
      /\ made \in [Builds -> Versions \cup {None, Failed}]
      /\ version' = version /\ made' = made
      /\ \/ made[b] = Failed /\ body' = body
         \/ made[b] # Failed /\ body' = made[b]
  BY DEF TypeOK, Store
<1>2. /\ body \in Int /\ 0 <= body
      /\ \A a \in Builds : made[a] \in Int /\ -1 <= made[a]
  BY <1>1, NumberFacts DEF TypeOK
<1>3. Stored' = Stored \cup {b}
  BY <1>1 DEF Stored
<1>4. \A d \in Builds : stage'[d] # "store"
  BY <1>1 DEF OneRefresh
<1>5. made[b] # Failed => \A a \in Stored : made[a] <= made[b]
  BY <1>1 DEF Built
<1>6. \A a \in Stored : a \in Builds
  BY DEF Stored
<1>7. body' # None => \A a \in Stored' : made[a] <= body'
  <2>1. CASE made[b] = Failed
    BY <2>1, <1>1, <1>2, <1>3 DEF Built, Failed
  <2>2. CASE made[b] # Failed
    BY <2>2, <1>1, <1>2, <1>3, <1>5
  <2> QED
    BY <2>1, <2>2
<1>8. body' # None => \E a \in Stored' : made[a] = body'
  BY <1>1, <1>3 DEF Built
<1>9. body # None /\ body' # None => body' >= body
  <2>1. ASSUME body # None, made[b] # Failed PROVE made[b] >= body
    <3>1. PICK a \in Stored : made[a] = body
      BY <2>1 DEF Built
    <3>2. made[a] <= made[b]
      BY <2>1, <1>5
    <3> QED
      BY <3>1, <3>2, <1>2
  <2> QED
    BY <2>1, <1>1, <1>2
<1>10. \A a \in Builds : made'[a] <= version'
  BY <1>1 DEF Built
<1>11. Built'
  BY <1>1, <1>4, <1>7, <1>8, <1>10 DEF Built
<1> QED
  BY <1>1, <1>3, <1>9, <1>11

\* What was ever stored is no newer than the data, nor than the body.
LEMMA StoredIsPast ==
    ASSUME TypeOK, Built, NEW v \in Versions \cup {None}, WasStored(v)
    PROVE  v <= version /\ (body # None => v <= body)
<1>1. version \in Int /\ 1 <= version /\ body \in Int /\ 0 <= body
  BY NumberFacts DEF TypeOK
<1>2. CASE v = None
  BY <1>1, <1>2 DEF None
<1>3. ASSUME NEW a \in Stored, made[a] = v
      PROVE  v <= version /\ (body # None => v <= body)
  <2>1. a \in Builds
    BY DEF Stored
  <2> QED
    BY <1>3, <2>1 DEF Built
<1> QED
  BY <1>2, <1>3 DEF WasStored

\* Whatever happens, what was stored stays, and the body is not replaced by
\* an older one.
LEMMA BuiltNext ==
    ASSUME TypeOK, OneRefresh, Built, [Next]_vars
    PROVE  /\ Built'
           /\ Stored \subseteq Stored' /\ \A a \in Stored : made'[a] = made[a]
           /\ body # None /\ body' # None => body' >= body
<1> DEFINE Goal == /\ Built'
                   /\ Stored \subseteq Stored' /\ \A a \in Stored : made'[a] = made[a]
                   /\ body # None /\ body' # None => body' >= body
<1>0. body \in Int
  BY NumberFacts DEF TypeOK
<1>1. ASSUME UNCHANGED <<version, made, stage>>, body' = body \/ body' = None PROVE Goal
  <2>1. Built'
    BY <1>1, BuiltSame
  <2> QED
    BY <1>0, <1>1, <2>1 DEF Stored
<1>2. ASSUME NEW b \in Builds, NewRefresh(b), UNCHANGED <<version, body, made>> PROVE Goal
  <2>1. Built' /\ Stored' = Stored
    BY <1>2, BuiltNewRefresh
  <2> QED
    BY <1>0, <1>2, <2>1
<1>3. ASSUME NEW c \in Callers, Look(c) \/ Client(c) PROVE Goal
  BY <1>3, <1>1, <1>2
  DEF Look, Client, Kick, Begin, ReturnOwn, Wake, LookAgain, cache, rebuild
<1>4. ASSUME NEW b \in Builds, Refresh(b) PROVE Goal
  <2>1. CASE Build(b) \/ BuildFails(b)
    <3>1. body' = body
      BY <2>1 DEF Build, BuildFails, cache
    <3> QED
      BY <1>0, <2>1, <3>1, BuiltBuild
  <2>2. CASE Store(b)
    BY <2>2, BuiltStore
  <2> QED
    BY <1>4, <2>1, <2>2 DEF Refresh
<1>5. CASE Change \/ Initialize
  <2>1. version' = version + 1 /\ UNCHANGED <<body, made, stage>>
    BY <1>5 DEF Change, Initialize, cache, rebuild
  <2>2. version \in Int /\ \A b \in Builds : made[b] \in Int
    BY NumberFacts DEF TypeOK
  <2>3. \A b \in Builds : made[b] <= version'
    BY <2>1, <2>2 DEF Built
  <2>4. Stored' = Stored
    BY <2>1 DEF Stored
  <2> QED
    BY <1>0, <2>1, <2>3, <2>4 DEF Built
<1>6. CASE TimePasses \/ ResetTrendSchedule \/ UNCHANGED vars
  BY <1>6, <1>1 DEF TimePasses, ResetTrendSchedule, vars, cache, rebuild
<1> QED
  BY <1>3, <1>4, <1>5, <1>6 DEF Next

\* Every answer that carries data was stored.
LEMMA AnswerWasStored ==
    ASSUME TrendInv, [Next]_vars
    PROVE  newest' = newest \/ WasStored(newest')
<1> USE DEF TrendInv
<1>0. newest \in Int /\ 0 <= newest
  BY NumberFacts DEF TypeOK
<1>1. ASSUME NEW c \in Callers, NEW b, Return(c, b), WasStored(b) \/ b = Failed
      PROVE  newest' = newest \/ WasStored(newest')
  BY <1>0, <1>1 DEF Return, Failed, WasStored
<1>2. body # None => WasStored(body)
  BY DEF Recent, Built, WasStored
<1>3. ASSUME NEW c \in Callers, Look(c) PROVE newest' = newest \/ WasStored(newest')
  BY <1>1, <1>2, <1>3 DEF Look, Fresh, Goto
<1>4. ASSUME NEW c \in Callers, Kick(c) PROVE newest' = newest \/ WasStored(newest')
  <2>1. WasStored(local[c])
    BY <1>4 DEF Kick, Recent, Since, KickSince
  <2> QED
    BY <1>1, <1>4, <2>1 DEF Kick
<1>5. ASSUME NEW c \in Callers, ReturnOwn(c) PROVE newest' = newest \/ WasStored(newest')
  <2>1. waits[c] \in Stored
    BY <1>5 DEF ReturnOwn, WaitsForARebuild, Stored
  <2>2. WasStored(made[waits[c]])
    BY <2>1 DEF WasStored
  <2> QED
    BY <1>1, <1>5, <2>2 DEF ReturnOwn
<1>6. ASSUME NEW c \in Callers, LookAgain(c) PROVE newest' = newest \/ WasStored(newest')
  <2>1. WasStored(None)
    BY DEF WasStored
  <2> QED
    BY <1>1, <1>2, <1>6, <2>1 DEF LookAgain, Usable
<1>7. ASSUME NEW c \in Callers, Begin(c) \/ Wake(c) PROVE newest' = newest
  BY <1>7 DEF Begin, Wake, Goto
<1>8. ASSUME NEW b \in Builds, Refresh(b) PROVE newest' = newest
  BY <1>8 DEF Refresh, Build, BuildFails, Store, client
<1>9. CASE Change \/ TimePasses \/ Initialize \/ ResetTrendSchedule \/ UNCHANGED vars
  BY <1>9 DEF Change, TimePasses, Initialize, ResetTrendSchedule, vars, client
<1> QED
  BY <1>3, <1>4, <1>5, <1>6, <1>7, <1>8, <1>9 DEF Next, Client

\* A GET that goes on keeps the answer it must not fall behind; one that
\* begins takes the newest.
LEMMA SinceKept ==
    ASSUME TypeOK, [Next]_vars, NEW c \in Callers
    PROVE  since'[c] = since[c] \/ (Look(c) /\ since'[c] = newest)
<1>1. ASSUME NEW d \in Callers, Look(d)
      PROVE  since'[c] = since[c] \/ (Look(c) /\ since'[c] = newest)
  BY <1>1 DEF TypeOK, Look
<1>2. ASSUME NEW d \in Callers, Client(d) PROVE since'[c] = since[c]
  BY <1>2 DEF Client, Kick, Begin, ReturnOwn, Wake, LookAgain
<1>3. ASSUME NEW b \in Builds, Refresh(b) PROVE since'[c] = since[c]
  BY <1>3 DEF Refresh, Build, BuildFails, Store, client
<1>4. CASE Change \/ TimePasses \/ Initialize \/ ResetTrendSchedule \/ UNCHANGED vars
  BY <1>4 DEF Change, TimePasses, Initialize, ResetTrendSchedule, vars, client
<1> QED
  BY <1>1, <1>2, <1>3, <1>4 DEF Next

LEMMA AnsweredNext == ASSUME TrendInv, [Next]_vars PROVE Answered'
<1> USE DEF TrendInv
<1>1. Stored \subseteq Stored' /\ \A a \in Stored : made'[a] = made[a]
  BY BuiltNext DEF Recent
<1>2. \A v : WasStored(v) => (v = None \/ \E a \in Stored' : made'[a] = v)
  BY <1>1 DEF WasStored
<1>3. WasStored(newest')
  BY AnswerWasStored DEF Recent, Answered
<1>4. ASSUME NEW c \in Callers PROVE WasStored(since'[c])
  BY SinceKept DEF Recent, Answered
<1> QED
  BY <1>2, <1>3, <1>4 DEF Answered, WasStored

\* A rebuild has read the data as it is when it has made something.
LEMMA MadeNext ==
    ASSUME TypeOK, [Next]_vars, NEW b \in Builds,
           stage'[b] \in {"store", "closed"}, made'[b] # Failed
    PROVE  \/ stage[b] \in {"store", "closed"} /\ made'[b] = made[b]
           \/ made'[b] = version
<1> DEFINE Goal == \/ stage[b] \in {"store", "closed"} /\ made'[b] = made[b]
                   \/ made'[b] = version
<1> USE DEF TypeOK
<1>1. ASSUME made' = made, stage' = stage PROVE Goal
  BY <1>1
<1>2. ASSUME NEW a \in Builds, NewRefresh(a), made' = made PROVE Goal
  BY <1>2 DEF NewRefresh
<1>3. ASSUME NEW c \in Callers, Look(c) \/ Client(c) PROVE Goal
  BY <1>3, <1>1, <1>2
  DEF Look, Client, Kick, Begin, ReturnOwn, Wake, LookAgain, cache, rebuild
<1>4. ASSUME NEW a \in Builds, Refresh(a) PROVE Goal
  BY <1>4 DEF Refresh, Build, BuildFails, Store
<1>5. CASE Change \/ TimePasses \/ Initialize \/ ResetTrendSchedule \/ UNCHANGED vars
  BY <1>5, <1>1 DEF Change, TimePasses, Initialize, ResetTrendSchedule, vars, cache, rebuild
<1> QED
  BY <1>3, <1>4, <1>5 DEF Next

\* What a GET holds does not fall behind what it began with, whoever steps.
LEMMA SinceNext ==
    ASSUME TrendInv, [Next]_vars, NEW d \in Callers
    PROVE  (KickSince(d) /\ OwnSince(d) /\ IdleSince(d))'
<1> USE DEF TrendInv
<1> DEFINE Goal == (KickSince(d) /\ OwnSince(d) /\ IdleSince(d))'
           Kept(v) == v = None \/ \E a \in Stored' : made'[a] = v
<1>0. /\ KickSince(d) /\ OwnSince(d) /\ IdleSince(d)
      /\ Built /\ WasStored(since[d]) /\ WasStored(newest)
      /\ body # None => WasStored(body)
  BY DEF Recent, Since, Answered, Built, WasStored
<1>1. /\ pc \in [Callers -> {"idle", "kick", "begin", "own", "wait", "again"}]
      /\ local \in [Callers -> Versions \cup {None, Failed}]
      /\ waits \in [Callers -> Builds \cup {0}]
      /\ since[d] \in Versions \cup {None} /\ newest \in Versions \cup {None}
      /\ body \in Versions \cup {None}
      /\ None \notin Versions /\ Failed \notin Versions
  BY NumberFacts DEF TypeOK, None, Failed
<1>2. /\ since[d] <= version /\ newest <= version
      /\ body # None => since[d] <= body /\ newest <= body
  BY <1>0, <1>1, StoredIsPast
<1>3. \A v : WasStored(v) => Kept(v)
  <2>1. Stored \subseteq Stored' /\ \A a \in Stored : made'[a] = made[a]
    BY BuiltNext DEF Recent
  <2> QED
    BY <2>1 DEF WasStored
<1>4. ASSUME pc'[d] = pc[d], local'[d] = local[d], waits'[d] = waits[d],
             since'[d] = since[d]
      PROVE  Goal
  <2>1. KickSince(d)'
    <3>1. pc[d] = "kick" => Kept(local[d])
      BY <1>0, <1>3 DEF KickSince
    <3> QED
      BY <1>0, <1>4, <3>1 DEF KickSince, WasStored
  <2>2. OwnSince(d)'
    <3> SUFFICES ASSUME pc[d] = "own", stage'[waits[d]] \in {"store", "closed"},
                        made'[waits[d]] # Failed
                 PROVE  since[d] <= made'[waits[d]]
      BY <1>4 DEF OwnSince
    <3>1. waits[d] \in Builds
      BY DEF WaitsForARebuild
    <3>2. \/ stage[waits[d]] \in {"store", "closed"} /\ made'[waits[d]] = made[waits[d]]
          \/ made'[waits[d]] = version
      BY <3>1, MadeNext
    <3> QED
      BY <1>0, <1>2, <3>2 DEF OwnSince
  <2>3. IdleSince(d)'
    BY <1>0, <1>4 DEF IdleSince
  <2> QED
    BY <2>1, <2>2, <2>3
<1>5. ASSUME pc'[d] \in {"begin", "wait", "again"} PROVE Goal
  BY <1>5 DEF KickSince, OwnSince, IdleSince
<1>6. ASSUME pc'[d] = "idle", local'[d] \in Versions => since'[d] <= local'[d] PROVE Goal
  BY <1>6 DEF KickSince, OwnSince, IdleSince
<1>7. ASSUME NEW c \in Callers, c # d, Look(c) \/ Client(c) PROVE Goal
  <2>1. /\ pc'[d] = pc[d] /\ local'[d] = local[d] /\ waits'[d] = waits[d]
        /\ since'[d] = since[d]
    BY <1>7, <1>1 DEF TypeOK, Look, Client, Kick, Begin, ReturnOwn, Wake, LookAgain,
                      Return, Goto
  <2> QED
    BY <2>1, <1>4
<1>8. CASE Look(d)
  <2>1. since'[d] = newest
    BY <1>8 DEF Look, TypeOK
  <2>2. CASE Fresh /\ Return(d, body)
    BY <1>1, <1>2, <1>6, <2>1, <2>2 DEF Return, Fresh
  <2>3. CASE Usable /\ Goto(d, "kick") /\ local' = [local EXCEPT ![d] = body]
    <3>1. pc'[d] = "kick" /\ local'[d] = body /\ body # None
      BY <1>1, <2>3 DEF Goto, Usable
    <3>2. Kept(local'[d])
      BY <1>0, <1>3, <3>1
    <3> QED
      BY <1>1, <1>2, <2>1, <3>1, <3>2 DEF KickSince, OwnSince, IdleSince, WasStored
  <2>4. CASE Goto(d, "begin")
    BY <1>1, <1>5, <2>4 DEF Goto
  <2> QED
    BY <1>8, <2>2, <2>3, <2>4 DEF Look
<1>9. CASE Kick(d)
  <2>1. pc[d] = "kick" /\ pc'[d] = "idle" /\ local'[d] = local[d] /\ since' = since
    BY <1>1, <1>9 DEF Kick, Return
  <2> QED
    BY <1>0, <1>6, <2>1 DEF KickSince
<1>10. CASE Begin(d)
  <2>1. ASSUME NEW b \in Builds, NewRefresh(b), waits' = [waits EXCEPT ![d] = b],
               Goto(d, "own")
        PROVE  Goal
    <3>1. pc'[d] = "own" /\ waits'[d] = b /\ stage'[b] = "build"
      BY <1>1, <2>1 DEF Goto, NewRefresh, TypeOK
    <3> QED
      BY <3>1 DEF KickSince, OwnSince, IdleSince
  <2>2. CASE Goto(d, "again") \/ Goto(d, "wait")
    BY <1>1, <1>5, <2>2 DEF Goto
  <2> QED
    BY <1>10, <2>1, <2>2 DEF Begin
<1>11. CASE ReturnOwn(d)
  <2>1. /\ pc[d] = "own" /\ stage[waits[d]] = "closed" /\ pc'[d] = "idle"
        /\ local'[d] = made[waits[d]] /\ since' = since
    BY <1>1, <1>11 DEF ReturnOwn, Return
  <2> QED
    BY <1>0, <1>1, <1>6, <2>1 DEF OwnSince
<1>12. CASE Wake(d)
  BY <1>1, <1>5, <1>12 DEF Wake, Goto
<1>13. CASE LookAgain(d)
  <2>1. pc'[d] = "idle" /\ since' = since
    BY <1>1, <1>13 DEF LookAgain, Return
  <2>2. \/ local'[d] = body /\ body # None
        \/ local'[d] \in {Failed, None}
    BY <1>1, <1>13 DEF LookAgain, Return, Usable
  <2> QED
    BY <1>1, <1>2, <1>6, <2>1, <2>2
<1>14. ASSUME NEW b \in Builds, Refresh(b) PROVE Goal
  BY <1>4, <1>14 DEF Refresh, Build, BuildFails, Store, client
<1>15. CASE Change \/ TimePasses \/ Initialize \/ ResetTrendSchedule \/ UNCHANGED vars
  BY <1>4, <1>15 DEF Change, TimePasses, Initialize, ResetTrendSchedule, vars, client
<1> QED
  BY <1>7, <1>8, <1>9, <1>10, <1>11, <1>12, <1>13, <1>14, <1>15 DEF Next, Client

LEMMA RecentNext == ASSUME TrendInv, [Next]_vars PROVE Recent'
<1>1. Built'
  BY BuiltNext DEF TrendInv, Recent
<1>2. Since'
  BY SinceNext DEF Since
<1> QED
  BY <1>1, <1>2, AnsweredNext DEF Recent

LEMMA TrendInvNext == ASSUME TrendInv, [Next]_vars PROVE TrendInv'
BY TypeOKNext, OneRefreshNext, WaitsNext, RecentNext DEF TrendInv

----------------------------------------------------------------------------
(* The theorems.                                                           *)

\* The inductive invariant holds of every behaviour, fair or not.
THEOREM TrendInvariant == Spec => []TrendInv
<1>1. Init => TrendInv
  BY TrendInvInit
<1>2. TrendInv /\ [Next]_vars => TrendInv'
  BY TrendInvNext
<1> QED
  BY <1>1, <1>2, PTL DEF Spec

\* The variables keep their types.
THEOREM TypeCorrect == Spec => []TypeOK
<1>1. TrendInv => TypeOK
  BY DEF TrendInv
<1> QED
  BY <1>1, TrendInvariant, PTL

\* The flag is up exactly while one rebuild runs, and done is its channel.
THEOREM AlwaysOneRefresh == Spec => []OneRefresh
<1>1. TrendInv => OneRefresh
  BY DEF TrendInv
<1> QED
  BY <1>1, TrendInvariant, PTL

\* No GET waits on a nil channel or for a rebuild that was never started.
THEOREM AlwaysWaitsForARebuild == Spec => []WaitsForARebuild
<1>1. TrendInv => WaitsForARebuild
  BY DEF TrendInv
<1> QED
  BY <1>1, TrendInvariant, PTL

\* The shared body never goes back to older data.
THEOREM TrendIsMonotonic == Spec => TrendNeverGoesBack
<1>1. TrendInv /\ [Next]_vars =>
          [body # None /\ body' # None => body' >= body]_vars
  BY BuiltNext DEF TrendInv, Recent
<1> QED
  BY <1>1, TrendInvariant, PTL DEF Spec, TrendNeverGoesBack

\* No GET is answered with data older than any GET, of whichever client, had
\* been answered with before it began.
THEOREM AnswersAreMonotonic == Spec => []NeverOlderThanAnswered
<1>1. TrendInv => NeverOlderThanAnswered
  <2> SUFFICES ASSUME TrendInv, NEW c \in Callers, pc[c] = "idle", local[c] \in Versions
               PROVE  local[c] >= since[c]
    BY DEF NeverOlderThanAnswered
  <2>1. since[c] <= local[c]
    BY DEF TrendInv, Recent, Since, IdleSince
  <2>2. since[c] \in Int /\ local[c] \in Int
    BY NumberFacts DEF TrendInv, TypeOK
  <2> QED
    BY <2>1, <2>2
<1> QED
  BY <1>1, TrendInvariant, PTL
=============================================================================
