----------------------------- MODULE TrendCache -----------------------------
(***************************************************************************)
(* GET /api/trend: one response body is shared by all callers.  It is      *)
(* fresh for a while, then stale (served, and rebuilt in the background),  *)
(* then expired (the caller rebuilds it or waits for whoever does).  A     *)
(* flag and a done channel, made anew for every rebuild, keep it to one    *)
(* rebuild at a time; postInitialize empties the cache without looking at  *)
(* the flag.                                                               *)
(*                                                                         *)
(* What a body says is the version of the data its SELECT saw.  Time is    *)
(* the step from fresh to stale to expired: every TTL of the schedule is   *)
(* positive and below its maximal age.                                     *)
(***************************************************************************)
EXTENDS Integers, FiniteSets

CONSTANTS Callers,     \* clients, each with at most one GET in progress
          MaxCalls,    \* bound: GETs of each client
          MaxVersion,  \* bound: versions of the data
          MaxInits     \* bound: calls of POST /initialize

ASSUME TrendAssumption ==
    /\ IsFiniteSet(Callers)
    /\ MaxCalls \in Nat \ {0}
    /\ MaxVersion \in Nat \ {0}
    /\ MaxInits \in Nat

\* A call starts at most one rebuild.
Builds == 1 .. (Cardinality(Callers) * MaxCalls)

Versions == 1 .. MaxVersion
None == 0      \* no body: a nil slice
Failed == -1   \* an error instead of a body

VARIABLES version,     \* the data that a SELECT would see
          body,        \* trendCache.body
          age,         \* where now is relative to expiresAt and staleUntil
          err,         \* trendCache.err: "nil" or "failed"
          refreshing,  \* trendCache.refreshing: "yes" or "no"
          done,        \* trendCache.done: the latest rebuild's channel, 0 = nil
          stage,       \* how far each rebuild is; "closed": its channel is too
          made,        \* what it has built
          pc,          \* control state of each client's GET
          local,       \* the body it holds; of an idle client, its last answer
          waits,       \* the rebuild it waits for
          calls,       \* GETs each client has begun
          newest,      \* history: the newest data a GET was answered with
          since,       \* history: that newest when each client's GET began
          inits        \* POST /initialize calls begun and ended

cache == <<body, age, err, refreshing, done>>
rebuild == <<stage, made>>
client == <<pc, local, waits, calls, newest, since>>
vars == <<version, cache, rebuild, client, inits>>

Init ==
    /\ version = 1
    /\ body = None /\ age = "expired" /\ err = "nil"
    /\ refreshing = "no" /\ done = 0
    /\ stage = [b \in Builds |-> "unused"]
    /\ made = [b \in Builds |-> None]
    /\ pc = [c \in Callers |-> "idle"]
    /\ local = [c \in Callers |-> None]
    /\ waits = [c \in Callers |-> 0]
    /\ calls = [c \in Callers |-> 0]
    /\ newest = None
    /\ since = [c \in Callers |-> None]
    /\ inits = [begun |-> 0, ended |-> 0]

Fresh == body # None /\ age = "fresh"
Usable == body # None /\ age # "expired"

Return(c, b) ==
    /\ pc' = [pc EXCEPT ![c] = "idle"]
    /\ local' = [local EXCEPT ![c] = b]
    /\ newest' = IF b > newest THEN b ELSE newest

Goto(c, label) ==
    /\ pc' = [pc EXCEPT ![c] = label]
    /\ UNCHANGED newest

----------------------------------------------------------------------------
(* The world around the cache.                                             *)

Change ==
    /\ version < MaxVersion
    /\ version' = version + 1
    /\ UNCHANGED <<cache, rebuild, client, inits>>

TimePasses ==
    /\ body # None
    /\ \/ age = "fresh" /\ age' = "stale"
       \/ age = "stale" /\ age' = "expired"
    /\ UNCHANGED <<version, body, err, refreshing, done, rebuild, client, inits>>

\* postInitialize: init.sh has put the initial data in place ...
Initialize ==
    /\ inits.begun = inits.ended
    /\ inits.begun < MaxInits
    /\ version < MaxVersion
    /\ version' = version + 1
    /\ inits' = [inits EXCEPT !.begun = @ + 1]
    /\ UNCHANGED <<cache, rebuild, client>>

\* Mutant of ResetTrendSchedule: the flag is lowered too.
ResetTrendScheduleAndFlag ==
    /\ inits.ended < inits.begun
    /\ inits' = [inits EXCEPT !.ended = @ + 1]
    /\ body' = None
    /\ age' = "expired"
    /\ err' = "nil"
    /\ refreshing' = "no"
    /\ UNCHANGED <<version, done, rebuild, client>>

\* ... and at its end resetTrendSchedule empties the cache.
ResetTrendSchedule ==
    /\ inits.ended < inits.begun
    /\ inits' = [inits EXCEPT !.ended = @ + 1]
    /\ body' = None
    /\ age' = "expired"
    /\ err' = "nil"
    /\ UNCHANGED <<version, refreshing, done, rebuild, client>>

----------------------------------------------------------------------------
(* getTrendJSON.                                                           *)

\* The first look, under RLock.
Look(c) ==
    /\ pc[c] = "idle"
    /\ calls[c] < MaxCalls
    /\ calls' = [calls EXCEPT ![c] = @ + 1]
    /\ since' = [since EXCEPT ![c] = newest]
    /\ \/ Fresh /\ Return(c, body)
       \/ Usable /\ ~Fresh /\ Goto(c, "kick")
             /\ local' = [local EXCEPT ![c] = body]
       \/ ~Usable /\ Goto(c, "begin") /\ UNCHANGED local
    /\ UNCHANGED <<version, cache, rebuild, waits, inits>>

\* Mutant of MayRefresh: the flag is not looked at.
MayRefreshAnyway == ~Fresh

\* startTrendCacheRefresh, under Lock: a rebuild is wanted and none is running.
MayRefresh == ~Fresh /\ refreshing = "no"

\* ... in which case it sets the flag and makes the channel of a new rebuild.
NewRefresh(b) ==
    /\ stage[b] = "unused"
    /\ \A a \in Builds : a < b => stage[a] # "unused"
    /\ refreshing' = "yes"
    /\ done' = b
    /\ stage' = [stage EXCEPT ![b] = "build"]

\* A stale body is returned at once; a rebuild started here runs in a
\* goroutine of its own.
Kick(c) ==
    /\ pc[c] = "kick"
    /\ IF MayRefresh THEN \E b \in Builds : NewRefresh(b)
                     ELSE UNCHANGED <<refreshing, done, stage>>
    /\ Return(c, local[c])
    /\ UNCHANGED <<version, body, age, err, made, waits, calls, since, inits>>

\* Without a usable body the client rebuilds it itself, or waits for the
\* rebuild that runs, or looks again if the body is fresh by now.
Begin(c) ==
    /\ pc[c] = "begin"
    /\ \/ /\ MayRefresh
          /\ \E b \in Builds : NewRefresh(b) /\ waits' = [waits EXCEPT ![c] = b]
          /\ Goto(c, "own")
       \/ /\ ~MayRefresh
          /\ IF Fresh THEN Goto(c, "again") /\ UNCHANGED waits
             ELSE Goto(c, "wait") /\ waits' = [waits EXCEPT ![c] = done]
          /\ UNCHANGED <<refreshing, done, stage>>
    /\ UNCHANGED <<version, body, age, err, made, local, calls, since, inits>>

\* buildTrendJSON has read the rows, or failed.
Build(b) ==
    /\ stage[b] = "build"
    /\ stage' = [stage EXCEPT ![b] = "store"]
    /\ made' = [made EXCEPT ![b] = version]
    /\ UNCHANGED <<version, cache, client, inits>>

BuildFails(b) ==
    /\ stage[b] = "build"
    /\ stage' = [stage EXCEPT ![b] = "store"]
    /\ made' = [made EXCEPT ![b] = Failed]
    /\ UNCHANGED <<version, cache, client, inits>>

\* Mutant of Store: after an error the flag stays up and the channel open.
StoreOnlySuccess(b) ==
    /\ stage[b] = "store"
    /\ stage' = [stage EXCEPT ![b] = IF made[b] = Failed THEN "stuck" ELSE "closed"]
    /\ IF made[b] = Failed
       THEN err' = "failed" /\ UNCHANGED <<body, age, refreshing>>
       ELSE err' = "nil" /\ body' = made[b] /\ age' = "fresh" /\ refreshing' = "no"
    /\ UNCHANGED <<version, done, made, client, inits>>

\* The end of refreshTrendCache, under Lock: an error keeps the old body.
Store(b) ==
    /\ stage[b] = "store"
    /\ stage' = [stage EXCEPT ![b] = "closed"]
    /\ IF made[b] = Failed
       THEN err' = "failed" /\ UNCHANGED <<body, age>>
       ELSE err' = "nil" /\ body' = made[b] /\ age' = "fresh"
    /\ refreshing' = "no"
    /\ UNCHANGED <<version, done, made, client, inits>>

\* A client that has rebuilt returns what it built, whatever the cache holds.
ReturnOwn(c) ==
    /\ pc[c] = "own"
    /\ stage[waits[c]] = "closed"
    /\ Return(c, made[waits[c]])
    /\ UNCHANGED <<version, cache, rebuild, waits, calls, since, inits>>

\* A client that has waited is woken by close(done) ...
Wake(c) ==
    /\ pc[c] = "wait"
    /\ waits[c] # 0   \* a nil channel blocks for ever
    /\ stage[waits[c]] = "closed"
    /\ Goto(c, "again")
    /\ UNCHANGED <<version, cache, rebuild, local, waits, calls, since, inits>>

\* ... and looks a second time, under RLock: a body that is not usable gives
\* way to whatever error there is, nil included.
LookAgain(c) ==
    /\ pc[c] = "again"
    /\ Return(c, IF Usable THEN body ELSE IF err = "failed" THEN Failed ELSE None)
    /\ UNCHANGED <<version, cache, rebuild, waits, calls, since, inits>>

----------------------------------------------------------------------------
Client(c) ==
    \/ Kick(c) \/ Begin(c) \/ ReturnOwn(c) \/ Wake(c) \/ LookAgain(c)

Refresh(b) == Build(b) \/ BuildFails(b) \/ Store(b)

Next ==
    \/ \E c \in Callers : Look(c) \/ Client(c)
    \/ \E b \in Builds : Refresh(b)
    \/ Change \/ TimePasses \/ Initialize \/ ResetTrendSchedule

Spec == Init /\ [][Next]_vars

\* A GET and a rebuild that have begun go on, for MySQL answers or fails.
\* Nothing obliges a client to call, the data to change or time to pass.
FairSpec ==
    /\ Spec
    /\ \A c \in Callers : WF_vars(Client(c))
    /\ \A b \in Builds : WF_vars(Refresh(b))

----------------------------------------------------------------------------
(* Types of the variables.                                                 *)
TypeOK ==
    /\ version \in Versions
    /\ body \in Versions \cup {None}
    /\ age \in {"fresh", "stale", "expired"}
    /\ err \in {"nil", "failed"}
    /\ refreshing \in {"yes", "no"}
    /\ done \in Builds \cup {0}
    /\ stage \in [Builds -> {"unused", "build", "store", "closed"}]
    /\ made \in [Builds -> Versions \cup {None, Failed}]
    /\ pc \in [Callers -> {"idle", "kick", "begin", "own", "wait", "again"}]
    /\ local \in [Callers -> Versions \cup {None, Failed}]
    /\ waits \in [Callers -> Builds \cup {0}]
    /\ calls \in [Callers -> 0 .. MaxCalls]
    /\ newest \in Versions \cup {None}
    /\ since \in [Callers -> Versions \cup {None}]
    /\ inits \in [begun : 0 .. MaxInits, ended : 0 .. MaxInits]

(* startTrendCacheRefresh "starts one rebuild at a time": the flag is up   *)
(* exactly while one rebuild runs, and the channel that waiters are given  *)
(* is that rebuild's own, so that they are woken by the one they saw.      *)
OneRefresh ==
    \A b \in Builds :
        stage[b] \in {"build", "store"} <=> refreshing = "yes" /\ done = b

(* Nobody waits on a nil channel or for a rebuild that was never started:  *)
(* such a GET would hang for ever.                                         *)
WaitsForARebuild ==
    \A c \in Callers :
        pc[c] \in {"own", "wait"} =>
            waits[c] \in Builds /\ stage[waits[c]] # "unused"

(* The shared body never goes back to older data, although every rebuild   *)
(* reads outside the lock and stores later: a slow rebuild cannot overwrite*)
(* the result of a later one.                                              *)
TrendNeverGoesBack ==
    [][body # None /\ body' # None => body' >= body]_vars

(* No GET is answered with data older than what a GET had been answered    *)
(* with before it began: whichever client got that answer, whatever errors,*)
(* empty answers or an initialize came in between, and whether this one is *)
(* answered fresh or stale from the cache, after a wait or by a rebuild of *)
(* its own.                                                                *)
NeverOlderThanAnswered ==
    \A c \in Callers :
        pc[c] = "idle" /\ local[c] \in Versions => local[c] >= since[c]

(* Every GET is answered and every rebuild gives the flag back, also when  *)
(* builds fail and while the cache is being emptied.                       *)
GetAnswered ==
    /\ \A c \in Callers : pc[c] # "idle" ~> pc[c] = "idle"
    /\ refreshing = "yes" ~> refreshing = "no"
=============================================================================
