------------------------- MODULE RegistrationProofs -------------------------
(***************************************************************************)
(* The invariants of Registration hold for any number of users, posts,     *)
(* attempts and restarts.                                                  *)
(***************************************************************************)
EXTENDS Registration, TLAPS

\* What a running handler may rely on at each place it can be in.
Progress ==
    \A x \in Callers :
        /\ pc[x] \in Holding \cup {"claim"} => x \in Registrars
        /\ pc[x] = "fill" /\ saw[x] = "yes" => row # Nobody
        /\ pc[x] = "insert" => x \in activated
        /\ pc[x] = "refused" => row # Nobody
        /\ pc[x] \in {"exists", "owner", "created"} => row = x

Inv ==
    /\ TypeOK
    /\ MarkerHeld
    /\ CachesFollowRow
    /\ AnswersJustified
    /\ RegisteredIsActivated
    /\ Progress

-----------------------------------------------------------------------------
(* The first state satisfies the invariant.                                *)
LEMMA InitInv == Init => Inv
  <1> SUFFICES ASSUME Init PROVE Inv
    OBVIOUS
  <1> USE RegistrationAssumption DEF Init, Holding
  <1>1. TypeOK
    BY DEF TypeOK
  <1>2. MarkerHeld
    BY DEF MarkerHeld
  <1>3. CachesFollowRow /\ AnswersJustified /\ RegisteredIsActivated
    BY DEF CachesFollowRow, AnswersJustified, RegisteredIsActivated
  <1>4. Progress
    BY DEF Progress
  <1> QED
    BY <1>1, <1>2, <1>3, <1>4 DEF Inv

(* The types are kept by every action.                                     *)
LEMMA NextType == Inv /\ [Next]_vars => TypeOK'
  <1> SUFFICES ASSUME Inv, [Next]_vars PROVE TypeOK'
    OBVIOUS
  <1> USE RegistrationAssumption DEF Inv, TypeOK, Holding, Goto, Return, Progress
  <1>1. ASSUME NEW x \in Callers, Start(x) PROVE TypeOK'
    <2>1. attempts' \in [Callers -> 0 .. MaxAttempts]
      <3>0. MaxAttempts \in Nat
        OBVIOUS
      <3>1. attempts[x] \in 0 .. MaxAttempts /\ attempts[x] < MaxAttempts
        BY <1>1 DEF Start
      <3>2. attempts[x] + 1 \in 0 .. MaxAttempts
        BY ONLY <3>0, <3>1
      <3>3. attempts' = [attempts EXCEPT ![x] = attempts[x] + 1]
        BY <1>1 DEF Start
      <3> QED
        BY ONLY <3>2, <3>3, attempts \in [Callers -> 0 .. MaxAttempts]
    <2>2. UNCHANGED <<row, known, owner, marker, saw, activated, restarts>>
      BY <1>1 DEF Start
    <2>3. /\ pc' \in [Callers -> Holding \cup {"idle", "check", "ask", "fill", "claim"}]
          /\ answer' \in [Callers -> {"none", "created", "conflict", "error",
                                     "accepted", "bad request", "not found"}]
      BY <1>1 DEF Start
    <2> QED
      BY <2>1, <2>2, <2>3
  <1>2. ASSUME NEW x \in Callers, Check(x) PROVE TypeOK'
    BY <1>2 DEF Check, Believe
  <1>3. ASSUME NEW x \in Callers, Ask(x) PROVE TypeOK'
    BY <1>3 DEF Ask
  <1>4. ASSUME NEW x \in Callers, AskFails(x) PROVE TypeOK'
    BY <1>4 DEF AskFails
  <1>5. ASSUME NEW x \in Callers, Fill(x) PROVE TypeOK'
    <2>1. /\ UNCHANGED <<row, owner, marker, saw, attempts, activated, restarts>>
          /\ known' \in {"yes", "no"} /\ Believe(x, saw[x])
      BY <1>5 DEF Fill
    <2>2. \E l \in {"idle", "claim"} : pc' = [pc EXCEPT ![x] = l]
      BY ONLY <2>1 DEF Believe, Goto, Return
    <2>3. \/ answer' = answer
          \/ \E code \in {"conflict", "accepted", "bad request", "not found"} :
                answer' = [answer EXCEPT ![x] = code]
      BY ONLY <2>1 DEF Believe, Goto, Return
    <2>4. pc' \in [Callers -> Holding \cup {"idle", "check", "ask", "fill", "claim"}]
      BY ONLY <2>2, TypeOK DEF TypeOK
    <2>5. answer' \in [Callers -> {"none", "created", "conflict", "error",
                                   "accepted", "bad request", "not found"}]
      BY ONLY <2>3, TypeOK DEF TypeOK
    <2> QED
      BY ONLY <2>1, <2>4, <2>5, TypeOK DEF TypeOK
  <1>6. ASSUME NEW x \in Callers, Claim(x) PROVE TypeOK'
    BY <1>6 DEF Claim
  <1>7. ASSUME NEW x \in Callers, Activate(x) PROVE TypeOK'
    BY <1>7 DEF Activate
  <1>8. ASSUME NEW x \in Callers, Insert(x) PROVE TypeOK'
    BY <1>8 DEF Insert
  <1>9. ASSUME NEW x \in Callers, Fail(x) PROVE TypeOK'
    BY <1>9 DEF Fail
  <1>10. ASSUME NEW x \in Callers, CacheExistence(x) PROVE TypeOK'
    BY <1>10 DEF CacheExistence
  <1>11. ASSUME NEW x \in Callers, CacheOwner(x) PROVE TypeOK'
    BY <1>11 DEF CacheOwner
  <1>12. ASSUME NEW x \in Callers, Created(x) PROVE TypeOK'
    BY <1>12 DEF Created
  <1>13. ASSUME NEW x \in Callers, Release(x) PROVE TypeOK'
    BY <1>13 DEF Release
  <1>14. CASE LookUpOwner
    BY <1>14 DEF LookUpOwner, call
  <1>15. CASE Restart
    <2>1. restarts' \in 0 .. MaxRestarts
      <3>1. /\ restarts \in 0 .. MaxRestarts /\ MaxRestarts \in Nat
            /\ restarts < MaxRestarts /\ restarts' = restarts + 1
        BY <1>15 DEF Restart
      <3> QED
        BY ONLY <3>1
    <2>2. /\ pc' \in [Callers -> Holding \cup {"idle", "check", "ask", "fill", "claim"}]
          /\ saw' \in [Callers -> {"yes", "no"}]
          /\ known' = "absent" /\ owner' = Nobody /\ marker' = "free"
      BY <1>15 DEF Restart
    <2> QED
      BY <1>15, <2>1, <2>2 DEF Restart
  <1>16. CASE UNCHANGED vars
    BY <1>16 DEF vars, call
  <1> QED
    BY <1>1, <1>2, <1>3, <1>4, <1>5, <1>6, <1>7, <1>8,
       <1>9, <1>10, <1>11, <1>12, <1>13, <1>14, <1>15, <1>16
       DEF Next, Handler

(* The marker is taken and given back by its holder only.                  *)
LEMMA NextMarker == Inv /\ [Next]_vars => MarkerHeld'
  <1> SUFFICES ASSUME Inv, [Next]_vars PROVE MarkerHeld'
    OBVIOUS
  <1> USE RegistrationAssumption DEF Inv, TypeOK, MarkerHeld, Holding, Goto, Return
  <1>0. ASSUME NEW x \in Callers, NEW l, pc' = [pc EXCEPT ![x] = l],
               pc[x] \in Holding <=> l \in Holding, UNCHANGED marker
        PROVE  MarkerHeld'
    <2>1. \A y \in Callers : pc'[y] \in Holding <=> pc[y] \in Holding
      BY <1>0
    <2> QED
      BY <1>0, <2>1
  <1>00. ASSUME NEW x \in Callers, pc' = [pc EXCEPT ![x] = "idle"],
                pc[x] \in Holding, marker' = "free"
         PROVE  MarkerHeld'
    <2>1. \A y \in Callers : pc'[y] \notin Holding
      BY <1>00
    <2> QED
      BY <1>00, <2>1
  <1>1. ASSUME NEW x \in Callers, Start(x) PROVE MarkerHeld'
    BY <1>1 DEF Start
  <1>2. ASSUME NEW x \in Callers, Check(x) PROVE MarkerHeld'
    <2>1. PICK l : pc' = [pc EXCEPT ![x] = l] /\ l \in {"idle", "ask", "claim"}
      BY <1>2 DEF Check, Believe
    <2>2. UNCHANGED marker /\ pc[x] \notin Holding
      BY <1>2 DEF Check
    <2> QED
      BY <1>0, <2>1, <2>2
  <1>3. ASSUME NEW x \in Callers, Ask(x) PROVE MarkerHeld'
    BY <1>3 DEF Ask
  <1>4. ASSUME NEW x \in Callers, AskFails(x) PROVE MarkerHeld'
    BY <1>4 DEF AskFails
  <1>5. ASSUME NEW x \in Callers, Fill(x) PROVE MarkerHeld'
    <2>1. PICK l : pc' = [pc EXCEPT ![x] = l] /\ l \in {"idle", "ask", "claim"}
      BY <1>5 DEF Fill, Believe
    <2>2. UNCHANGED marker /\ pc[x] \notin Holding
      BY <1>5 DEF Fill
    <2> QED
      BY <1>0, <2>1, <2>2
  <1>6. ASSUME NEW x \in Callers, Claim(x) PROVE MarkerHeld'
    <2>1. CASE marker = "taken"
      <3>1. pc' = [pc EXCEPT ![x] = "idle"] /\ UNCHANGED marker
        BY <1>6, <2>1 DEF Claim
      <3>2. pc[x] \notin Holding
        BY <1>6 DEF Claim
      <3> QED
        BY <1>0, <3>1, <3>2
    <2>2. CASE marker = "free"
      <3>1. \A y \in Callers : pc[y] \notin Holding
        BY <2>2
      <3>2. marker' = "taken" /\ pc' = [pc EXCEPT ![x] = "activate"]
        BY <1>6, <2>2 DEF Claim
      <3>3. \A y \in Callers : pc'[y] \in Holding <=> y = x
        BY <3>1, <3>2
      <3>4. marker' = "taken"
        BY <3>2
      <3> QED
        BY ONLY <3>3, <3>4, x \in Callers DEF MarkerHeld
    <2> QED
      BY <2>1, <2>2
  <1>7. ASSUME NEW x \in Callers, Activate(x) PROVE MarkerHeld'
    <2>1. /\ pc' = [pc EXCEPT ![x] = "insert"] /\ UNCHANGED marker
          /\ pc[x] \in Holding
      BY <1>7 DEF Activate
    <2> QED
      BY <1>0, <2>1
  <1>8. ASSUME NEW x \in Callers, Insert(x) PROVE MarkerHeld'
    <2>1. PICK l : pc' = [pc EXCEPT ![x] = l] /\ l \in {"exists", "refused"}
      BY <1>8 DEF Insert
    <2>2. UNCHANGED marker /\ pc[x] \in Holding
      BY <1>8 DEF Insert
    <2> QED
      BY <1>0, <2>1, <2>2
  <1>9. ASSUME NEW x \in Callers, Fail(x) PROVE MarkerHeld'
    <2>1. /\ pc' = [pc EXCEPT ![x] = "failed"] /\ UNCHANGED marker
          /\ pc[x] \in Holding
      BY <1>9 DEF Fail
    <2> QED
      BY <1>0, <2>1
  <1>10. ASSUME NEW x \in Callers, CacheExistence(x) PROVE MarkerHeld'
    <2>1. /\ pc' = [pc EXCEPT ![x] = "owner"] /\ UNCHANGED marker
          /\ pc[x] \in Holding
      BY <1>10 DEF CacheExistence
    <2> QED
      BY <1>0, <2>1
  <1>11. ASSUME NEW x \in Callers, CacheOwner(x) PROVE MarkerHeld'
    <2>1. /\ pc' = [pc EXCEPT ![x] = "created"] /\ UNCHANGED marker
          /\ pc[x] \in Holding
      BY <1>11 DEF CacheOwner
    <2> QED
      BY <1>0, <2>1
  <1>12. ASSUME NEW x \in Callers, Created(x) PROVE MarkerHeld'
    <2>1. /\ pc' = [pc EXCEPT ![x] = "idle"] /\ marker' = "free"
          /\ pc[x] \in Holding
      BY <1>12 DEF Created
    <2> QED
      BY <1>00, <2>1
  <1>13. ASSUME NEW x \in Callers, Release(x) PROVE MarkerHeld'
    <2>1. /\ pc' = [pc EXCEPT ![x] = "idle"] /\ marker' = "free"
          /\ pc[x] \in Holding
      BY <1>13 DEF Release
    <2> QED
      BY <1>00, <2>1
  <1>14. CASE LookUpOwner
    BY <1>14 DEF LookUpOwner, call
  <1>15. CASE Restart
    BY <1>15 DEF Restart
  <1>16. CASE UNCHANGED vars
    BY <1>16 DEF vars, call
  <1> QED
    BY <1>1, <1>2, <1>3, <1>4, <1>5, <1>6, <1>7, <1>8,
       <1>9, <1>10, <1>11, <1>12, <1>13, <1>14, <1>15, <1>16
       DEF Next, Handler

(* The caches are filled from the row, which is written once.              *)
LEMMA NextCaches == Inv /\ [Next]_vars => CachesFollowRow'
  <1> SUFFICES ASSUME Inv, [Next]_vars PROVE CachesFollowRow'
    OBVIOUS
  <1> USE RegistrationAssumption DEF Inv, TypeOK, CachesFollowRow, Progress, Holding, Goto, Return
  <1>1. ASSUME NEW x \in Callers, Start(x) PROVE CachesFollowRow'
    BY <1>1 DEF Start
  <1>2. ASSUME NEW x \in Callers, Check(x) PROVE CachesFollowRow'
    BY <1>2 DEF Check, Believe
  <1>3. ASSUME NEW x \in Callers, Ask(x) PROVE CachesFollowRow'
    BY <1>3 DEF Ask
  <1>4. ASSUME NEW x \in Callers, AskFails(x) PROVE CachesFollowRow'
    BY <1>4 DEF AskFails
  <1>5. ASSUME NEW x \in Callers, Fill(x) PROVE CachesFollowRow'
    BY <1>5 DEF Fill, Believe
  <1>6. ASSUME NEW x \in Callers, Claim(x) PROVE CachesFollowRow'
    BY <1>6 DEF Claim
  <1>7. ASSUME NEW x \in Callers, Activate(x) PROVE CachesFollowRow'
    BY <1>7 DEF Activate
  <1>8. ASSUME NEW x \in Callers, Insert(x) PROVE CachesFollowRow'
    BY <1>8 DEF Insert
  <1>9. ASSUME NEW x \in Callers, Fail(x) PROVE CachesFollowRow'
    BY <1>9 DEF Fail
  <1>10. ASSUME NEW x \in Callers, CacheExistence(x) PROVE CachesFollowRow'
    BY <1>10 DEF CacheExistence
  <1>11. ASSUME NEW x \in Callers, CacheOwner(x) PROVE CachesFollowRow'
    BY <1>11 DEF CacheOwner
  <1>12. ASSUME NEW x \in Callers, Created(x) PROVE CachesFollowRow'
    BY <1>12 DEF Created
  <1>13. ASSUME NEW x \in Callers, Release(x) PROVE CachesFollowRow'
    BY <1>13 DEF Release
  <1>14. CASE LookUpOwner
    BY <1>14 DEF LookUpOwner, call
  <1>15. CASE Restart
    BY <1>15 DEF Restart
  <1>16. CASE UNCHANGED vars
    BY <1>16 DEF vars, call
  <1> QED
    BY <1>1, <1>2, <1>3, <1>4, <1>5, <1>6, <1>7, <1>8,
       <1>9, <1>10, <1>11, <1>12, <1>13, <1>14, <1>15, <1>16
       DEF Next, Handler

(* An answer is given when it is true; the row it is about stays.          *)
LEMMA NextAnswers == Inv /\ [Next]_vars => AnswersJustified'
  <1> SUFFICES ASSUME Inv, [Next]_vars PROVE AnswersJustified'
    OBVIOUS
  <1> USE RegistrationAssumption DEF Inv, TypeOK, CachesFollowRow, AnswersJustified, Progress, Holding, Goto, Return
  <1>1. ASSUME NEW x \in Callers, Start(x) PROVE AnswersJustified'
    BY <1>1 DEF Start
  <1>2. ASSUME NEW x \in Callers, Check(x) PROVE AnswersJustified'
    BY <1>2 DEF Check, Believe
  <1>3. ASSUME NEW x \in Callers, Ask(x) PROVE AnswersJustified'
    BY <1>3 DEF Ask
  <1>4. ASSUME NEW x \in Callers, AskFails(x) PROVE AnswersJustified'
    BY <1>4 DEF AskFails
  <1>5. ASSUME NEW x \in Callers, Fill(x) PROVE AnswersJustified'
    BY <1>5 DEF Fill, Believe
  <1>6. ASSUME NEW x \in Callers, Claim(x) PROVE AnswersJustified'
    BY <1>6 DEF Claim
  <1>7. ASSUME NEW x \in Callers, Activate(x) PROVE AnswersJustified'
    BY <1>7 DEF Activate
  <1>8. ASSUME NEW x \in Callers, Insert(x) PROVE AnswersJustified'
    <2>1. UNCHANGED answer /\ (row' = row \/ row = Nobody)
      BY <1>8 DEF Insert
    <2> QED
      BY <2>1
  <1>9. ASSUME NEW x \in Callers, Fail(x) PROVE AnswersJustified'
    BY <1>9 DEF Fail
  <1>10. ASSUME NEW x \in Callers, CacheExistence(x) PROVE AnswersJustified'
    BY <1>10 DEF CacheExistence
  <1>11. ASSUME NEW x \in Callers, CacheOwner(x) PROVE AnswersJustified'
    BY <1>11 DEF CacheOwner
  <1>12. ASSUME NEW x \in Callers, Created(x) PROVE AnswersJustified'
    BY <1>12 DEF Created
  <1>13. ASSUME NEW x \in Callers, Release(x) PROVE AnswersJustified'
    BY <1>13 DEF Release
  <1>14. CASE LookUpOwner
    BY <1>14 DEF LookUpOwner, call
  <1>15. CASE Restart
    BY <1>15 DEF Restart
  <1>16. CASE UNCHANGED vars
    BY <1>16 DEF vars, call
  <1> QED
    BY <1>1, <1>2, <1>3, <1>4, <1>5, <1>6, <1>7, <1>8,
       <1>9, <1>10, <1>11, <1>12, <1>13, <1>14, <1>15, <1>16
       DEF Next, Handler

(* The row is written by a call for which JIA has accepted.                *)
LEMMA NextActivated == Inv /\ [Next]_vars => RegisteredIsActivated'
  <1> SUFFICES ASSUME Inv, [Next]_vars PROVE RegisteredIsActivated'
    OBVIOUS
  <1> USE RegistrationAssumption DEF Inv, TypeOK, RegisteredIsActivated, Progress, Holding, Goto, Return
  <1>1. ASSUME NEW x \in Callers, Start(x) PROVE RegisteredIsActivated'
    BY <1>1 DEF Start
  <1>2. ASSUME NEW x \in Callers, Check(x) PROVE RegisteredIsActivated'
    BY <1>2 DEF Check, Believe
  <1>3. ASSUME NEW x \in Callers, Ask(x) PROVE RegisteredIsActivated'
    BY <1>3 DEF Ask
  <1>4. ASSUME NEW x \in Callers, AskFails(x) PROVE RegisteredIsActivated'
    BY <1>4 DEF AskFails
  <1>5. ASSUME NEW x \in Callers, Fill(x) PROVE RegisteredIsActivated'
    BY <1>5 DEF Fill, Believe
  <1>6. ASSUME NEW x \in Callers, Claim(x) PROVE RegisteredIsActivated'
    BY <1>6 DEF Claim
  <1>7. ASSUME NEW x \in Callers, Activate(x) PROVE RegisteredIsActivated'
    BY <1>7 DEF Activate
  <1>8. ASSUME NEW x \in Callers, Insert(x) PROVE RegisteredIsActivated'
    BY <1>8 DEF Insert
  <1>9. ASSUME NEW x \in Callers, Fail(x) PROVE RegisteredIsActivated'
    BY <1>9 DEF Fail
  <1>10. ASSUME NEW x \in Callers, CacheExistence(x) PROVE RegisteredIsActivated'
    BY <1>10 DEF CacheExistence
  <1>11. ASSUME NEW x \in Callers, CacheOwner(x) PROVE RegisteredIsActivated'
    BY <1>11 DEF CacheOwner
  <1>12. ASSUME NEW x \in Callers, Created(x) PROVE RegisteredIsActivated'
    BY <1>12 DEF Created
  <1>13. ASSUME NEW x \in Callers, Release(x) PROVE RegisteredIsActivated'
    BY <1>13 DEF Release
  <1>14. CASE LookUpOwner
    BY <1>14 DEF LookUpOwner, call
  <1>15. CASE Restart
    BY <1>15 DEF Restart
  <1>16. CASE UNCHANGED vars
    BY <1>16 DEF vars, call
  <1> QED
    BY <1>1, <1>2, <1>3, <1>4, <1>5, <1>6, <1>7, <1>8,
       <1>9, <1>10, <1>11, <1>12, <1>13, <1>14, <1>15, <1>16
       DEF Next, Handler

(* What a handler relies on stays true until it has used it.               *)
LEMMA NextProgress == Inv /\ [Next]_vars => Progress'
  <1> SUFFICES ASSUME Inv, [Next]_vars PROVE Progress'
    OBVIOUS
  <1> USE RegistrationAssumption DEF Inv, TypeOK, Progress, Holding, Goto, Return
  <1>1. ASSUME NEW x \in Callers, Start(x) PROVE Progress'
    BY <1>1 DEF Start
  <1>2. ASSUME NEW x \in Callers, Check(x) PROVE Progress'
    <2>1. UNCHANGED <<row, saw, activated>>
      BY <1>2 DEF Check
    <2>2. PICK l : /\ pc' = [pc EXCEPT ![x] = l]
                   /\ l \in {"idle", "ask", "claim"}
                   /\ l = "claim" => x \in Registrars
      <3>1. CASE known = "absent"
        BY <1>2, <3>1 DEF Check
      <3>2. CASE known # "absent"
        <4>1. Believe(x, known)
          BY <1>2, <3>2 DEF Check
        <4> QED
          BY ONLY <4>1 DEF Believe, Goto, Return
      <3> QED
        BY <3>1, <3>2
    <2> QED
      BY <2>1, <2>2
  <1>3. ASSUME NEW x \in Callers, Ask(x) PROVE Progress'
    BY <1>3 DEF Ask
  <1>4. ASSUME NEW x \in Callers, AskFails(x) PROVE Progress'
    BY <1>4 DEF AskFails
  <1>5. ASSUME NEW x \in Callers, Fill(x) PROVE Progress'
    <2>1. UNCHANGED <<row, saw, activated>> /\ Believe(x, saw[x])
      BY <1>5 DEF Fill
    <2>2. \/ pc' = [pc EXCEPT ![x] = "idle"]
          \/ x \in Registrars /\ pc' = [pc EXCEPT ![x] = "claim"]
      BY ONLY <2>1 DEF Believe, Goto, Return
    <2> QED
      BY <2>1, <2>2
  <1>6. ASSUME NEW x \in Callers, Claim(x) PROVE Progress'
    <2>1. UNCHANGED <<row, saw, activated>> /\ x \in Registrars
      BY <1>6 DEF Claim
    <2>2. \/ pc' = [pc EXCEPT ![x] = "activate"]
          \/ pc' = [pc EXCEPT ![x] = "idle"]
      BY <1>6 DEF Claim
    <2> QED
      BY <2>1, <2>2
  <1>7. ASSUME NEW x \in Callers, Activate(x) PROVE Progress'
    BY <1>7 DEF Activate
  <1>8. ASSUME NEW x \in Callers, Insert(x) PROVE Progress'
    <2>1. x \in Registrars /\ UNCHANGED <<saw, activated>>
      BY <1>8 DEF Insert
    <2>2. CASE row = Nobody
      <3>1. \A y \in Callers : /\ pc[y] # "refused"
                               /\ pc[y] \notin {"exists", "owner", "created"}
        BY <2>2
      <3>2. row' = x /\ pc' = [pc EXCEPT ![x] = "exists"] /\ row' # Nobody
        BY <1>8, <2>1, <2>2 DEF Insert, Callers
      <3> QED
        BY <2>1, <3>1, <3>2
    <2>3. CASE row # Nobody
      <3>1. pc' = [pc EXCEPT ![x] = "refused"] /\ UNCHANGED row
        BY <1>8, <2>3 DEF Insert
      <3> QED
        BY <2>1, <2>3, <3>1
    <2> QED
      BY <2>2, <2>3
  <1>9. ASSUME NEW x \in Callers, Fail(x) PROVE Progress'
    BY <1>9 DEF Fail
  <1>10. ASSUME NEW x \in Callers, CacheExistence(x) PROVE Progress'
    BY <1>10 DEF CacheExistence
  <1>11. ASSUME NEW x \in Callers, CacheOwner(x) PROVE Progress'
    BY <1>11 DEF CacheOwner
  <1>12. ASSUME NEW x \in Callers, Created(x) PROVE Progress'
    BY <1>12 DEF Created
  <1>13. ASSUME NEW x \in Callers, Release(x) PROVE Progress'
    BY <1>13 DEF Release
  <1>14. CASE LookUpOwner
    BY <1>14 DEF LookUpOwner, call
  <1>15. CASE Restart
    BY <1>15 DEF Restart
  <1>16. CASE UNCHANGED vars
    BY <1>16 DEF vars, call
  <1> QED
    BY <1>1, <1>2, <1>3, <1>4, <1>5, <1>6, <1>7, <1>8,
       <1>9, <1>10, <1>11, <1>12, <1>13, <1>14, <1>15, <1>16
       DEF Next, Handler

(* Inv is an invariant of the specification.                               *)
LEMMA InvHolds == Spec => []Inv
  <1>1. Inv /\ [Next]_vars => Inv'
    BY NextType, NextMarker, NextCaches, NextAnswers, NextActivated,
       NextProgress DEF Inv
  <1> QED
    BY InitInv, <1>1, PTL DEF Spec

-----------------------------------------------------------------------------
(* The variables of Registration keep their types.                         *)
THEOREM RegistrationTypeCorrect == Spec => []TypeOK
  BY InvHolds, PTL DEF Inv

(* isuActivateInFlight holds the uuid exactly while a single call is       *)
(* activating it.                                                          *)
THEOREM RegistrationMarkerHeld == Spec => []MarkerHeld
  BY InvHolds, PTL DEF Inv

(* A cached "exists" and a cached owner agree with the table isu.          *)
THEOREM RegistrationCachesFollowRow == Spec => []CachesFollowRow
  BY InvHolds, PTL DEF Inv

(* 201 goes to the owner of the row only, 202 only to posts of a           *)
(* registered ISU, and no restart takes that back.                         *)
THEOREM RegistrationAnswersJustified == Spec => []AnswersJustified
  BY InvHolds, PTL DEF Inv

(* No row without an activation that JIA has accepted.                     *)
THEOREM RegistrationIsActivated == Spec => []RegisteredIsActivated
  BY InvHolds, PTL DEF Inv

(* Who answers 409 has found the row, a cache that agrees with it, or the  *)
(* marker of another call.                                                 *)
LEMMA ConflictHasCause ==
    ASSUME Inv, [Next]_vars, NEW x \in Registrars,
           answer[x] # "conflict", answer'[x] = "conflict"
    PROVE  row # Nobody \/ \E y \in Callers \ {x} : pc[y] \in Holding
  <1> USE DEF Inv, TypeOK, Goto, Return
  <1>0. x \in Callers
    BY DEF Callers
  <1>1. CASE Check(x)
    <2>1. known = "yes"
      BY <1>0, <1>1 DEF Check, Believe
    <2> QED
      BY <2>1 DEF CachesFollowRow
  <1>2. CASE Fill(x)
    <2>1. pc[x] = "fill" /\ saw[x] = "yes"
      BY <1>0, <1>2 DEF Fill, Believe
    <2> QED
      BY <1>0, <2>1 DEF Progress
  <1>3. CASE Claim(x)
    <2>1. marker = "taken" /\ pc[x] = "claim"
      BY <1>0, <1>3 DEF Claim
    <2>2. PICK y \in Callers : pc[y] \in Holding
      BY <2>1 DEF MarkerHeld
    <2>3. y # x
      BY <2>1, <2>2 DEF Holding
    <2> QED
      BY <2>2, <2>3
  <1>4. CASE Release(x)
    <2>1. pc[x] = "refused"
      BY <1>0, <1>4 DEF Release
    <2> QED
      BY <1>0, <2>1 DEF Progress
  <1>5. ASSUME NEW z \in Callers, Start(z) PROVE FALSE
    BY <1>0, <1>5 DEF Start
  <1>6. ASSUME NEW z \in Callers, z # x, Handler(z) PROVE FALSE
    <2>1. ASSUME NEW code, answer' = [answer EXCEPT ![z] = code] PROVE FALSE
      BY <1>0, <1>6, <2>1
    <2>2. CASE Check(z) \/ Fill(z)
      BY <1>6, <2>1, <2>2 DEF Check, Fill, Believe
    <2>3. CASE \/ Ask(z) \/ AskFails(z) \/ Claim(z) \/ Activate(z) \/ Insert(z)
               \/ Fail(z) \/ CacheExistence(z) \/ CacheOwner(z) \/ Created(z)
               \/ Release(z)
      BY <2>1, <2>3 DEF Ask, AskFails, Claim, Activate, Insert, Fail,
                        CacheExistence, CacheOwner, Created, Release
    <2> QED
      BY <1>6, <2>2, <2>3 DEF Handler
  <1>7. CASE \/ Ask(x) \/ AskFails(x) \/ Activate(x) \/ Insert(x) \/ Fail(x)
             \/ CacheExistence(x) \/ CacheOwner(x) \/ Created(x)
    <2>1. answer' = answer \/ answer'[x] \in {"error", "created"}
      BY <1>0, <1>7 DEF Ask, AskFails, Activate, Insert, Fail, CacheExistence,
                        CacheOwner, Created
    <2> QED
      BY <2>1
  <1>8. CASE LookUpOwner \/ Restart \/ UNCHANGED vars
    BY <1>8 DEF LookUpOwner, Restart, vars, call
  <1> QED
    BY <1>1, <1>2, <1>3, <1>4, <1>5, <1>6, <1>7, <1>8 DEF Next, Handler

(* 409 is answered only for an ISU that is registered or being registered  *)
(* by another call.                                                        *)
THEOREM RegistrationConflictIsReal == Spec => ConflictIsReal
  <1>1. Inv /\ [Next]_vars =>
          [\A x \in Registrars :
              answer[x] # "conflict" /\ answer'[x] = "conflict" =>
                  \/ row # Nobody
                  \/ \E y \in Callers \ {x} : pc[y] \in Holding]_vars
    BY ConflictHasCause
  <1> QED
    BY <1>1, InvHolds, PTL DEF Spec, ConflictIsReal
=============================================================================
