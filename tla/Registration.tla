---------------------------- MODULE Registration ----------------------------
(***************************************************************************)
(* One jia_isu_uuid being registered (postIsu) while its first conditions  *)
(* arrive (postIsuCondition).  Both handlers first ask whether the ISU     *)
(* exists, through a cache that is read under RLock, filled from MySQL     *)
(* without any lock held in between, and overwritten by whoever comes      *)
(* last.  A sync.Map entry, the marker, keeps two activations of the same  *)
(* ISU apart.                                                              *)
(*                                                                         *)
(* A registrar stands for a user and the call that user has in progress;   *)
(* a poster for the ISU's own posts.  The metadata, icon and list caches,  *)
(* which are filled right after the owner cache, are left out.             *)
(***************************************************************************)
EXTENDS Integers, FiniteSets

CONSTANTS Registrars,    \* users, each with at most one POST /api/isu running
          Posters,       \* POST /api/condition/:jia_isu_uuid calls of the ISU
          Nobody,        \* the owner of a missing row or cache entry
          MaxAttempts,   \* bound: calls made by each of them
          MaxRestarts    \* bound: restarts of the process

Callers == Registrars \cup Posters

ASSUME RegistrationAssumption ==
    /\ Registrars \cap Posters = {}
    /\ Nobody \notin Callers
    /\ MaxAttempts \in Nat \ {0}
    /\ MaxRestarts \in Nat

VARIABLES row,        \* owner in the table isu: Nobody or a registrar
          known,      \* isuExistenceCache: "absent", "yes" or "no"
          owner,      \* isuOwnerCache: Nobody or a registrar
          marker,     \* the uuid's key in isuActivateInFlight: "free", "taken"
          pc,         \* control state of each caller's handler
          saw,        \* what its SELECT EXISTS returned
          answer,     \* the answer to its last call
          attempts,   \* number of calls it has started
          activated,  \* the users for whom JIA has accepted an activation
          restarts    \* number of restarts so far

call == <<pc, saw, answer, attempts>>
vars == <<row, known, owner, marker, call, activated, restarts>>

\* A handler between its LoadOrStore and its Delete.
Holding == {"activate", "insert", "exists", "owner", "created",
            "refused", "failed"}

Init ==
    /\ row = Nobody
    /\ known = "absent"
    /\ owner = Nobody
    /\ marker = "free"
    /\ pc = [x \in Callers |-> "idle"]
    /\ saw = [x \in Callers |-> "no"]
    /\ answer = [x \in Callers |-> "none"]
    /\ attempts = [x \in Callers |-> 0]
    /\ activated = {}
    /\ restarts = 0

Goto(x, label) ==
    /\ pc' = [pc EXCEPT ![x] = label]
    /\ UNCHANGED answer

Return(x, code) ==
    /\ pc' = [pc EXCEPT ![x] = "idle"]
    /\ answer' = [answer EXCEPT ![x] = code]

\* Where both handlers branch on what they believe about the ISU.  The posts
\* of a known one are accepted if every condition has the right format.
Believe(x, belief) ==
    \/ x \in Registrars /\ belief = "yes" /\ Return(x, "conflict")
    \/ x \in Registrars /\ belief = "no" /\ Goto(x, "claim")
    \/ /\ x \in Posters /\ belief = "yes"
       /\ \E code \in {"accepted", "bad request"} : Return(x, code)
    \/ x \in Posters /\ belief = "no" /\ Return(x, "not found")

----------------------------------------------------------------------------
(* The existence check, the same lines in both handlers.                   *)

Start(x) ==
    /\ pc[x] = "idle"
    /\ attempts[x] < MaxAttempts
    /\ attempts' = [attempts EXCEPT ![x] = @ + 1]
    /\ pc' = [pc EXCEPT ![x] = "check"]
    /\ answer' = [answer EXCEPT ![x] = "none"]
    /\ UNCHANGED <<row, known, owner, marker, saw, activated, restarts>>

\* getCachedIsuExistence, under RLock.
Check(x) ==
    /\ pc[x] = "check"
    /\ IF known = "absent" THEN Goto(x, "ask") ELSE Believe(x, known)
    /\ UNCHANGED <<row, known, owner, marker, saw, attempts, activated, restarts>>

\* SELECT EXISTS: the answer is a local variable from here on.
Ask(x) ==
    /\ pc[x] = "ask"
    /\ saw' = [saw EXCEPT ![x] = IF row = Nobody THEN "no" ELSE "yes"]
    /\ Goto(x, "fill")
    /\ UNCHANGED <<row, known, owner, marker, attempts, activated, restarts>>

AskFails(x) ==
    /\ pc[x] = "ask"
    /\ Return(x, "error")
    /\ UNCHANGED <<row, known, owner, marker, saw, attempts, activated, restarts>>

\* setCachedIsuExistence overwrites whatever is there by now.
Fill(x) ==
    /\ pc[x] = "fill"
    /\ known' = saw[x]
    /\ Believe(x, saw[x])
    /\ UNCHANGED <<row, owner, marker, saw, attempts, activated, restarts>>

----------------------------------------------------------------------------
(* The rest of postIsu.                                                    *)

\* Mutant of Claim: the deferred Delete is set up before the LoadOrStore.
ClaimDeferFirst(x) ==
    /\ pc[x] = "claim"
    /\ IF marker = "taken" THEN Goto(x, "refused") ELSE Goto(x, "activate")
    /\ marker' = "taken"
    /\ UNCHANGED <<row, known, owner, saw, attempts, activated, restarts>>

\* Mutant of Claim: the row is written before JIA is asked.
ClaimInsertFirst(x) ==
    /\ pc[x] = "claim"
    /\ IF marker = "taken" THEN Return(x, "conflict") ELSE Goto(x, "insert")
    /\ marker' = "taken"
    /\ UNCHANGED <<row, known, owner, saw, attempts, activated, restarts>>

\* isuActivateInFlight.LoadOrStore.
Claim(x) ==
    /\ pc[x] = "claim"
    /\ IF marker = "taken" THEN Return(x, "conflict") ELSE Goto(x, "activate")
    /\ marker' = "taken"
    /\ UNCHANGED <<row, known, owner, saw, attempts, activated, restarts>>

\* Mutant of Activate: the caches are filled as soon as JIA has accepted.
ActivateCached(x) ==
    /\ pc[x] = "activate"
    /\ activated' = activated \cup {x}
    /\ known' = "yes"
    /\ Goto(x, "insert")
    /\ UNCHANGED <<row, owner, marker, saw, attempts, restarts>>

\* The image is read and JIA accepts the activation.
Activate(x) ==
    /\ pc[x] = "activate"
    /\ activated' = activated \cup {x}
    /\ Goto(x, "insert")
    /\ UNCHANGED <<row, known, owner, marker, saw, attempts, restarts>>

\* Mutant of Insert: INSERT IGNORE, so a duplicate key is no error.
InsertIgnore(x) ==
    /\ pc[x] = "insert"
    /\ row' = IF row = Nobody THEN x ELSE row
    /\ Goto(x, "exists")
    /\ UNCHANGED <<known, owner, marker, saw, attempts, activated, restarts>>

\* The INSERT; jia_isu_uuid is a unique key.
Insert(x) ==
    /\ pc[x] = "insert"
    /\ IF row = Nobody
       THEN row' = x /\ Goto(x, "exists")
       ELSE Goto(x, "refused") /\ UNCHANGED row
    /\ UNCHANGED <<known, owner, marker, saw, attempts, activated, restarts>>

\* Mutant of Fail: only the other ways out delete the marker.
FailReturns(x) ==
    /\ pc[x] \in {"activate", "insert"}
    /\ \/ UNCHANGED <<row, activated>>
       \/ pc[x] = "activate" /\ activated' = activated \cup {x} /\ UNCHANGED row
       \/ pc[x] = "insert" /\ row = Nobody /\ row' = x /\ UNCHANGED activated
    /\ Return(x, "error")
    /\ UNCHANGED <<known, owner, marker, saw, attempts, restarts>>

\* Any other error return after the marker is taken: the image, the request
\* to JIA (which may have been carried out although no answer came back), its
\* answer, the INSERT (likewise) or LastInsertId.
Fail(x) ==
    /\ pc[x] \in {"activate", "insert"}
    /\ \/ UNCHANGED <<row, activated>>
       \/ pc[x] = "activate" /\ activated' = activated \cup {x} /\ UNCHANGED row
       \/ pc[x] = "insert" /\ row = Nobody /\ row' = x /\ UNCHANGED activated
    /\ Goto(x, "failed")
    /\ UNCHANGED <<known, owner, marker, saw, attempts, restarts>>

CacheExistence(x) ==
    /\ pc[x] = "exists"
    /\ known' = "yes"
    /\ Goto(x, "owner")
    /\ UNCHANGED <<row, owner, marker, saw, attempts, activated, restarts>>

CacheOwner(x) ==
    /\ pc[x] = "owner"
    /\ owner' = x
    /\ Goto(x, "created")
    /\ UNCHANGED <<row, known, marker, saw, attempts, activated, restarts>>

\* Delete on the way out of a successful call.
Created(x) ==
    /\ pc[x] = "created"
    /\ marker' = "free"
    /\ Return(x, "created")
    /\ UNCHANGED <<row, known, owner, saw, attempts, activated, restarts>>

\* Mutant of Release: an error return keeps the marker.
ReleaseNothing(x) ==
    /\ pc[x] \in {"refused", "failed"}
    /\ Return(x, IF pc[x] = "refused" THEN "conflict" ELSE "error")
    /\ UNCHANGED <<row, known, owner, marker, saw, attempts, activated, restarts>>

\* The deferred Delete on the way out of an unsuccessful one.
Release(x) ==
    /\ pc[x] \in {"refused", "failed"}
    /\ marker' = "free"
    /\ Return(x, IF pc[x] = "refused" THEN "conflict" ELSE "error")
    /\ UNCHANGED <<row, known, owner, saw, attempts, activated, restarts>>

----------------------------------------------------------------------------
(* A user's GET of its own ISU when the owner cache misses.  Its SELECT    *)
(* finds the row only under that user's name and the row is never changed, *)
(* so that filling the cache later than asking makes no difference.        *)
LookUpOwner ==
    /\ owner = Nobody
    /\ row # Nobody
    /\ owner' = row
    /\ UNCHANGED <<row, known, marker, call, activated, restarts>>

(* The process stops and starts again: the table stays, the caches, the    *)
(* marker and every running call are gone, and main() warms nothing.       *)
Restart ==
    /\ restarts < MaxRestarts
    /\ restarts' = restarts + 1
    /\ known' = "absent"
    /\ owner' = Nobody
    /\ marker' = "free"
    /\ pc' = [x \in Callers |-> "idle"]
    /\ saw' = [x \in Callers |-> "no"]
    /\ UNCHANGED <<row, answer, attempts, activated>>

Handler(x) ==
    \/ Check(x) \/ Ask(x) \/ AskFails(x) \/ Fill(x)
    \/ Claim(x) \/ Activate(x) \/ Insert(x) \/ Fail(x)
    \/ CacheExistence(x) \/ CacheOwner(x) \/ Created(x) \/ Release(x)

Next ==
    \/ \E x \in Callers : Start(x) \/ Handler(x)
    \/ LookUpOwner
    \/ Restart

Spec == Init /\ [][Next]_vars

\* A handler that has started goes on: MySQL answers or fails, and JIA answers
\* or the connection to it breaks (jiaHTTPClient itself has no timeout).
\* Nobody is obliged to call, to retry or to restart.
FairSpec == Spec /\ \A x \in Callers : WF_vars(Handler(x))

----------------------------------------------------------------------------
(* Types of the variables: the tables, the caches, the handlers.           *)
TypeOK ==
    /\ row \in Registrars \cup {Nobody}
    /\ known \in {"absent", "yes", "no"}
    /\ owner \in Registrars \cup {Nobody}
    /\ marker \in {"free", "taken"}
    /\ pc \in [Callers -> Holding \cup {"idle", "check", "ask", "fill", "claim"}]
    /\ saw \in [Callers -> {"yes", "no"}]
    /\ answer \in [Callers -> {"none", "created", "conflict", "error",
                               "accepted", "bad request", "not found"}]
    /\ attempts \in [Callers -> 0 .. MaxAttempts]
    /\ activated \in SUBSET Registrars
    /\ restarts \in 0 .. MaxRestarts

(* The marker is in the map exactly while one call of postIsu, and no      *)
(* more than one, is between its LoadOrStore and its Delete: two           *)
(* activations of an ISU never overlap, and no way out of the handler      *)
(* leaves a marker behind that would refuse the ISU for ever.              *)
MarkerHeld ==
    /\ marker = "taken" <=> \E x \in Callers : pc[x] \in Holding
    /\ \A x, y \in Callers : pc[x] \in Holding /\ pc[y] \in Holding => x = y

(* What the caches say in the affirmative is so in the table: an ISU       *)
(* cached as existing has a row, and its cached owner is the row's owner,  *)
(* whichever of several calls got its INSERT through.                      *)
CachesFollowRow ==
    /\ known = "yes" => row # Nobody
    /\ owner # Nobody => owner = row

(* The answers already given remain true, across restarts too: 201 was     *)
(* said to the row's owner only, and a post was accepted (202) only for    *)
(* an ISU that has a row for its conditions to update.                     *)
AnswersJustified ==
    \A x \in Callers :
        /\ answer[x] = "created" => row = x
        /\ answer[x] = "accepted" => row # Nobody

(* postIsu first completes the exchange with JIA and only then writes the  *)
(* row (comment in postIsu), so that an ISU in the table is sending.       *)
RegisteredIsActivated == row # Nobody => row \in activated

(* No user is refused without cause: a 409 is answered only if the ISU has *)
(* a row by then or another call is just registering it.  Nothing that was *)
(* left in the marker or the cache, by a call that failed or by a late     *)
(* existence check, refuses anybody.                                       *)
ConflictIsReal ==
    [][\A x \in Registrars :
          answer[x] # "conflict" /\ answer'[x] = "conflict" =>
              \/ row # Nobody
              \/ \E y \in Callers \ {x} : pc[y] \in Holding]_vars

(* Whatever happens to the call that holds it, the marker goes away, so    *)
(* that a later registration is not refused because of an abandoned one.   *)
MarkerReleased == marker = "taken" ~> marker = "free"

(* models.go: "after success the existence cache rejects": once 201 has    *)
(* been answered the cache says that the ISU exists.  The code does not    *)
(* keep this: a handler whose SELECT came before the INSERT overwrites the *)
(* cache with "no" afterwards.                                             *)
CreatedIsKnown == \A x \in Callers : answer[x] = "created" => known = "yes"
=============================================================================
