----------------------------- MODULE Job_proofs -----------------------------
(***************************************************************************)
(* What holds of any calls on a job: a spawn holds suspend_lock from the   *)
(* assignment of its child to its end, so that no walk meets the child in  *)
(* between; what ever ran is in the job, so that closing it takes all.     *)
(***************************************************************************)
EXTENDS Job, TLAPS

USE CallsAssumption

\* Who holds the lock, and what a walk that holds it has listed: no child whose
\* spawn may still let it run.
LockInv ==
  /\ \A l \in Spawns : pc[l] \in {"assigned", "pinned", "resumed", "armed"} => owner = l
  /\ \A w \in Walks : pc[w] = "walking" =>
       /\ owner = w
       /\ aim[w].listed \subseteq members
       /\ \A l \in Spawns \cap aim[w].listed : pc[l] \in {"joined", "failing", "failed"}

\* How far a spawn came says what its child is.
SpawnInv ==
  \A l \in Spawns :
    /\ pc[l] \in Places \ {"walking", "walked", "polling", "sparing", "killing", "over"}
    /\ pc[l] \in {"idle", "refused"} => life[l] = "none"
    /\ pc[l] \in {"idle", "refused", "created"} => l \notin members /\ l \notin early
    /\ pc[l] = "assigned" => l \in members /\ l \notin early
    /\ pc[l] = "pinned" => l \in members /\ l \notin early /\ l \in masked
    /\ pc[l] \in {"resumed", "armed", "joined"} =>
         /\ l \in members /\ l \in ran /\ l \notin early
         /\ l \in Pinned => l \in masked
    /\ pc[l] = "failed" => life[l] # "live"

\* Outside of the job there are only children that were never let run.
ReachInv ==
  /\ \A l \in Spawns : l \notin members => l \notin ran /\ (life[l] = "live" => held[l] > 0)
  /\ \A k \in Offspring : life[k] = "live" \/ k \in ran => k \in members

\* The latch is set exactly if a spare is in force, and the job is closed by it.
CloseInv ==
  /\ word.by = Nobody <=> spare = Nobody
  /\ CloseIsJust

JobInv == TypeOK /\ LockInv /\ SpawnInv /\ ReachInv /\ CloseInv

-----------------------------------------------------------------------------
\* Every variable keeps to its values.
LEMMA TypeStep == ASSUME TypeOK, [Next]_vars PROVE TypeOK'
<1> USE DEF TypeOK, Places, Joins, Procs, Moves, procVars, latchVars, stopVars
<1>1. ASSUME NEW l \in Spawns, Creates(l) PROVE TypeOK'
  BY <1>1 DEF Creates
<1>2. ASSUME NEW l \in Spawns, Assigns(l) PROVE TypeOK'
  BY <1>2 DEF Assigns
<1>3. ASSUME NEW l \in Spawns, SetsAffinity(l) PROVE TypeOK'
  BY <1>3 DEF SetsAffinity
<1>4. ASSUME NEW l \in Spawns, Resumes(l) PROVE TypeOK'
  BY <1>4 DEF Resumes, Ready
<1>5. ASSUME NEW l \in Spawns, KillsChild(l) PROVE TypeOK'
  BY <1>5 DEF KillsChild, Ended, Live
<1>6. ASSUME NEW a \in Adoptions, Adopts(a) PROVE TypeOK'
  BY <1>6 DEF Adopts
<1>7. ASSUME NEW j \in Joins, Rearms(j) PROVE TypeOK'
  BY <1>7 DEF Rearms
<1>8. ASSUME NEW j \in Joins, Returns(j) PROVE TypeOK'
  BY <1>8 DEF Returns
<1>9. ASSUME NEW k \in Offspring, Forks(k) PROVE TypeOK'
  BY <1>9 DEF Forks
<1>10. ASSUME NEW p \in Procs, Exits(p) PROVE TypeOK'
  BY <1>10 DEF Exits, Ended, Live
<1>11. ASSUME NEW w \in Walks, WalkLists(w) PROVE TypeOK'
  BY <1>11 DEF WalkLists, Live
<1>12. ASSUME NEW w \in Walks, WalkVisits(w) PROVE TypeOK'
  <2>1. PICK ps \in SUBSET Live(aim[w].listed) : WalkReaches(w, ps)
    BY <1>12 DEF WalkVisits
  <2>2. held' \in [Procs -> Nat]
    <3>1. \A n \in Nat : n + 1 \in Nat /\ (n # 0 => n - 1 \in Nat)
      OBVIOUS
    <3>2. \A p \in Procs : (IF p \notin ps THEN held[p]
                            ELSE IF aim[w].suspend THEN held[p] + 1
                            ELSE IF held[p] = 0 THEN 0 ELSE held[p] - 1) \in Nat
      BY <3>1
    <3> QED
      BY <2>1, <3>2, Zenon DEF WalkReaches
  <2>3. ran' \subseteq Procs /\ early' \subseteq Procs
    BY <2>1 DEF WalkReaches, Live
  <2> QED
    BY <1>12, <2>2, <2>3 DEF WalkVisits
<1>13. ASSUME NEW s \in Stops, StopBegins(s) PROVE TypeOK'
  BY <1>13 DEF StopBegins
<1>14. ASSUME NEW s \in Stops, Polls(s) PROVE TypeOK'
  BY <1>14 DEF Polls
<1>15. ASSUME NEW s \in Stops, KillsAll(s) PROVE TypeOK'
  BY <1>15 DEF KillsAll, Ended, Live
<1>16. ASSUME NEW s \in Stops, Requests(s) PROVE TypeOK'
  BY <1>16 DEF Requests, Taken
<1>17. CASE DropJob
  BY <1>17 DEF DropJob, Ended, Live
<1>18. CASE HostDies
  BY <1>18 DEF HostDies, Ended, Live
<1>19. CASE UNCHANGED vars
  BY <1>19 DEF vars, procVars, latchVars, stopVars
<1> QED
  BY <1>1, <1>2, <1>3, <1>4, <1>5, <1>6, <1>7, <1>8, <1>9, <1>10, <1>11, <1>12, <1>13, <1>14, <1>15, <1>16, <1>17, <1>18, <1>19 DEF Next

\* suspend_lock is with the spawn from the assignment on.
LEMMA LockStep == ASSUME TypeOK, SpawnInv, LockInv, [Next]_vars PROVE LockInv'
<1> USE DEF TypeOK, LockInv, SpawnInv, Joins, Procs, Moves, procVars, latchVars, stopVars
<1>1. ASSUME NEW l \in Spawns, Creates(l) PROVE LockInv'
  BY <1>1 DEF Creates
<1>2. ASSUME NEW l \in Spawns, Assigns(l) PROVE LockInv'
  BY <1>2 DEF Assigns
<1>3. ASSUME NEW l \in Spawns, SetsAffinity(l) PROVE LockInv'
  BY <1>3 DEF SetsAffinity
<1>4. ASSUME NEW l \in Spawns, Resumes(l) PROVE LockInv'
  BY <1>4 DEF Resumes, Ready
<1>5. ASSUME NEW l \in Spawns, KillsChild(l) PROVE LockInv'
  BY <1>5 DEF KillsChild, Ended, Live
<1>6. ASSUME NEW a \in Adoptions, Adopts(a) PROVE LockInv'
  BY <1>6 DEF Adopts
<1>7. ASSUME NEW j \in Joins, Rearms(j) PROVE LockInv'
  BY <1>7 DEF Rearms
<1>8. ASSUME NEW j \in Joins, Returns(j) PROVE LockInv'
  BY <1>8 DEF Returns
<1>9. ASSUME NEW k \in Offspring, Forks(k) PROVE LockInv'
  BY <1>9 DEF Forks
<1>10. ASSUME NEW p \in Procs, Exits(p) PROVE LockInv'
  BY <1>10 DEF Exits, Ended, Live
<1>11. ASSUME NEW w \in Walks, WalkLists(w) PROVE LockInv'
  <2>1. /\ owner = Nobody /\ owner' = w /\ pc' = [pc EXCEPT ![w] = "walking"]
        /\ UNCHANGED members /\ aim'[w].listed \subseteq members
    BY <1>11 DEF WalkLists, Live
  <2>2. \A v \in Walks : pc'[v] = "walking" => v = w
    BY <2>1
  <2>3. \A l \in Spawns : pc'[l] = pc[l] /\ pc[l] \notin {"assigned", "pinned", "resumed", "armed"}
    BY <2>1
  <2>4. \A l \in Spawns \cap members : pc[l] \in {"joined", "failing", "failed"}
    BY <2>3 DEF Places
  <2> QED
    BY <2>1, <2>2, <2>3, <2>4
<1>12. ASSUME NEW w \in Walks, WalkVisits(w) PROVE LockInv'
  BY <1>12 DEF WalkVisits, WalkReaches, Live
<1>13. ASSUME NEW s \in Stops, StopBegins(s) PROVE LockInv'
  BY <1>13 DEF StopBegins
<1>14. ASSUME NEW s \in Stops, Polls(s) PROVE LockInv'
  BY <1>14 DEF Polls
<1>15. ASSUME NEW s \in Stops, KillsAll(s) PROVE LockInv'
  BY <1>15 DEF KillsAll, Ended, Live
<1>16. ASSUME NEW s \in Stops, Requests(s) PROVE LockInv'
  BY <1>16 DEF Requests, Taken
<1>17. CASE DropJob
  BY <1>17 DEF DropJob, Ended, Live
<1>18. CASE HostDies
  BY <1>18 DEF HostDies, Ended, Live
<1>19. CASE UNCHANGED vars
  BY <1>19 DEF vars, procVars, latchVars, stopVars
<1> QED
  BY <1>1, <1>2, <1>3, <1>4, <1>5, <1>6, <1>7, <1>8, <1>9, <1>10, <1>11, <1>12, <1>13, <1>14, <1>15, <1>16, <1>17, <1>18, <1>19 DEF Next

\* A spawn's place keeps saying what its child is.
LEMMA SpawnStep == ASSUME TypeOK, LockInv, SpawnInv, ReachInv, [Next]_vars PROVE SpawnInv'
<1> USE DEF TypeOK, LockInv, SpawnInv, ReachInv, Places, Joins, Procs, Moves, procVars, latchVars, stopVars
<1>1. ASSUME NEW l \in Spawns, Creates(l) PROVE SpawnInv'
  BY <1>1 DEF Creates
<1>2. ASSUME NEW l \in Spawns, Assigns(l) PROVE SpawnInv'
  BY <1>2 DEF Assigns
<1>3. ASSUME NEW l \in Spawns, SetsAffinity(l) PROVE SpawnInv'
  BY <1>3 DEF SetsAffinity
<1>4. ASSUME NEW l \in Spawns, Resumes(l) PROVE SpawnInv'
  BY <1>4 DEF Resumes, Ready
<1>5. ASSUME NEW l \in Spawns, KillsChild(l) PROVE SpawnInv'
  BY <1>5 DEF KillsChild, Ended, Live
<1>6. ASSUME NEW a \in Adoptions, Adopts(a) PROVE SpawnInv'
  BY <1>6 DEF Adopts
<1>7. ASSUME NEW j \in Joins, Rearms(j) PROVE SpawnInv'
  BY <1>7 DEF Rearms
<1>8. ASSUME NEW j \in Joins, Returns(j) PROVE SpawnInv'
  BY <1>8 DEF Returns
<1>9. ASSUME NEW k \in Offspring, Forks(k) PROVE SpawnInv'
  BY <1>9 DEF Forks
<1>10. ASSUME NEW p \in Procs, Exits(p) PROVE SpawnInv'
  BY <1>10 DEF Exits, Ended, Live
<1>11. ASSUME NEW w \in Walks, WalkLists(w) PROVE SpawnInv'
  BY <1>11 DEF WalkLists, Live
<1>12. ASSUME NEW w \in Walks, WalkVisits(w) PROVE SpawnInv'
  BY <1>12 DEF WalkVisits, WalkReaches, Live
<1>13. ASSUME NEW s \in Stops, StopBegins(s) PROVE SpawnInv'
  BY <1>13 DEF StopBegins
<1>14. ASSUME NEW s \in Stops, Polls(s) PROVE SpawnInv'
  BY <1>14 DEF Polls
<1>15. ASSUME NEW s \in Stops, KillsAll(s) PROVE SpawnInv'
  BY <1>15 DEF KillsAll, Ended, Live
<1>16. ASSUME NEW s \in Stops, Requests(s) PROVE SpawnInv'
  BY <1>16 DEF Requests, Taken
<1>17. CASE DropJob
  BY <1>17 DEF DropJob, Ended, Live
<1>18. CASE HostDies
  BY <1>18 DEF HostDies, Ended, Live
<1>19. CASE UNCHANGED vars
  BY <1>19 DEF vars, procVars, latchVars, stopVars
<1> QED
  BY <1>1, <1>2, <1>3, <1>4, <1>5, <1>6, <1>7, <1>8, <1>9, <1>10, <1>11, <1>12, <1>13, <1>14, <1>15, <1>16, <1>17, <1>18, <1>19 DEF Next

\* What runs is in the job.
LEMMA ReachStep == ASSUME TypeOK, LockInv, SpawnInv, ReachInv, [Next]_vars PROVE ReachInv'
<1> USE DEF TypeOK, LockInv, SpawnInv, ReachInv, Joins, Procs, Moves, procVars, latchVars, stopVars
<1>1. ASSUME NEW l \in Spawns, Creates(l) PROVE ReachInv'
  BY <1>1 DEF Creates
<1>2. ASSUME NEW l \in Spawns, Assigns(l) PROVE ReachInv'
  BY <1>2 DEF Assigns
<1>3. ASSUME NEW l \in Spawns, SetsAffinity(l) PROVE ReachInv'
  BY <1>3 DEF SetsAffinity
<1>4. ASSUME NEW l \in Spawns, Resumes(l) PROVE ReachInv'
  BY <1>4 DEF Resumes, Ready
<1>5. ASSUME NEW l \in Spawns, KillsChild(l) PROVE ReachInv'
  BY <1>5 DEF KillsChild, Ended, Live
<1>6. ASSUME NEW a \in Adoptions, Adopts(a) PROVE ReachInv'
  BY <1>6 DEF Adopts
<1>7. ASSUME NEW j \in Joins, Rearms(j) PROVE ReachInv'
  BY <1>7 DEF Rearms
<1>8. ASSUME NEW j \in Joins, Returns(j) PROVE ReachInv'
  BY <1>8 DEF Returns
<1>9. ASSUME NEW k \in Offspring, Forks(k) PROVE ReachInv'
  BY <1>9 DEF Forks
<1>10. ASSUME NEW p \in Procs, Exits(p) PROVE ReachInv'
  BY <1>10 DEF Exits, Ended, Live
<1>11. ASSUME NEW w \in Walks, WalkLists(w) PROVE ReachInv'
  BY <1>11 DEF WalkLists, Live
<1>12. ASSUME NEW w \in Walks, WalkVisits(w) PROVE ReachInv'
  <2>1. PICK ps \in SUBSET Live(aim[w].listed) : WalkReaches(w, ps)
    BY <1>12 DEF WalkVisits
  <2>2. ps \subseteq members
    BY <1>12, <2>1 DEF WalkVisits, Live
  <2>3. \A p \in Procs \ ps : held'[p] = held[p]
    BY <2>1 DEF WalkReaches
  <2>4. ran' \subseteq ran \cup ps
    BY <2>1 DEF WalkReaches
  <2> QED
    BY <1>12, <2>2, <2>3, <2>4 DEF WalkVisits
<1>13. ASSUME NEW s \in Stops, StopBegins(s) PROVE ReachInv'
  BY <1>13 DEF StopBegins
<1>14. ASSUME NEW s \in Stops, Polls(s) PROVE ReachInv'
  BY <1>14 DEF Polls
<1>15. ASSUME NEW s \in Stops, KillsAll(s) PROVE ReachInv'
  BY <1>15 DEF KillsAll, Ended, Live
<1>16. ASSUME NEW s \in Stops, Requests(s) PROVE ReachInv'
  BY <1>16 DEF Requests, Taken
<1>17. CASE DropJob
  BY <1>17 DEF DropJob, Ended, Live
<1>18. CASE HostDies
  BY <1>18 DEF HostDies, Ended, Live
<1>19. CASE UNCHANGED vars
  BY <1>19 DEF vars, procVars, latchVars, stopVars
<1> QED
  BY <1>1, <1>2, <1>3, <1>4, <1>5, <1>6, <1>7, <1>8, <1>9, <1>10, <1>11, <1>12, <1>13, <1>14, <1>15, <1>16, <1>17, <1>18, <1>19 DEF Next

\* The latch follows the spare, and the end is just.
LEMMA CloseStep == ASSUME JobInv, [Next]_vars PROVE CloseInv'
<1> USE DEF JobInv, TypeOK, SpawnInv, ReachInv, CloseInv, CloseIsJust, Joins, Procs, Moves, Open, Live, procVars, latchVars, stopVars
<1>1. ASSUME NEW l \in Spawns, Creates(l) PROVE CloseInv'
  BY <1>1 DEF Creates
<1>2. ASSUME NEW l \in Spawns, Assigns(l) PROVE CloseInv'
  BY <1>2 DEF Assigns
<1>3. ASSUME NEW l \in Spawns, SetsAffinity(l) PROVE CloseInv'
  BY <1>3 DEF SetsAffinity
<1>4. ASSUME NEW l \in Spawns, Resumes(l) PROVE CloseInv'
  BY <1>4 DEF Resumes, Ready
<1>5. ASSUME NEW l \in Spawns, KillsChild(l) PROVE CloseInv'
  BY <1>5 DEF KillsChild, Ended, Live
<1>6. ASSUME NEW a \in Adoptions, Adopts(a) PROVE CloseInv'
  BY <1>6 DEF Adopts
<1>7. ASSUME NEW j \in Joins, Rearms(j) PROVE CloseInv'
  BY <1>7 DEF Rearms
<1>8. ASSUME NEW j \in Joins, Returns(j) PROVE CloseInv'
  BY <1>8 DEF Returns
<1>9. ASSUME NEW k \in Offspring, Forks(k) PROVE CloseInv'
  BY <1>9 DEF Forks
<1>10. ASSUME NEW p \in Procs, Exits(p) PROVE CloseInv'
  BY <1>10 DEF Exits, Ended, Live
<1>11. ASSUME NEW w \in Walks, WalkLists(w) PROVE CloseInv'
  BY <1>11 DEF WalkLists, Live
<1>12. ASSUME NEW w \in Walks, WalkVisits(w) PROVE CloseInv'
  BY <1>12 DEF WalkVisits, WalkReaches, Live
<1>13. ASSUME NEW s \in Stops, StopBegins(s) PROVE CloseInv'
  BY <1>13 DEF StopBegins
<1>14. ASSUME NEW s \in Stops, Polls(s) PROVE CloseInv'
  BY <1>14 DEF Polls
<1>15. ASSUME NEW s \in Stops, KillsAll(s) PROVE CloseInv'
  BY <1>15 DEF KillsAll, Ended, Live
<1>16. ASSUME NEW s \in Stops, Requests(s) PROVE CloseInv'
  BY <1>16 DEF Requests, Taken
<1>17. CASE DropJob
  <2>1. \A l \in Spawns : life[l] = "live" => l \in members
    BY <1>17 DEF DropJob, Quiet, Places
  <2>2. \A p \in Spawns \cup Offspring : life[p] = "live" => p \in members
    BY <2>1
  <2>3. closed' \in {"killed", "unspared"} => \A p \in Spawns \cup Offspring : life'[p] # "live"
    BY <1>17, <2>2 DEF DropJob, Ended
  <2> QED
    BY <1>17, <2>3 DEF DropJob
<1>18. CASE HostDies
  BY <1>18 DEF HostDies, Ended, Live
<1>19. CASE UNCHANGED vars
  BY <1>19 DEF vars, procVars, latchVars, stopVars
<1> QED
  BY <1>1, <1>2, <1>3, <1>4, <1>5, <1>6, <1>7, <1>8, <1>9, <1>10, <1>11, <1>12, <1>13, <1>14, <1>15, <1>16, <1>17, <1>18, <1>19 DEF Next

LEMMA JobInit == Init => JobInv
<1> SUFFICES ASSUME Init PROVE JobInv
  OBVIOUS
<1> USE DEF Init, Joins, Procs, Places
<1>1. TypeOK
  BY DEF TypeOK
<1>2. LockInv /\ SpawnInv /\ ReachInv
  BY DEF LockInv, SpawnInv, ReachInv
<1>3. CloseInv
  BY DEF CloseInv, CloseIsJust
<1> QED
  BY <1>1, <1>2, <1>3 DEF JobInv

\* JobInv is an inductive invariant of every job.
THEOREM JobCorrect == Spec => []JobInv
<1>1. JobInv /\ [Next]_vars => JobInv'
  BY TypeStep, LockStep, SpawnStep, ReachStep, CloseStep DEF JobInv
<1> QED
  BY JobInit, <1>1, PTL DEF Spec

\* Types of the calls, the job and its latch (sys/windows.rs).
THEOREM TypeCorrect == Spec => []TypeOK
  BY JobCorrect, PTL DEF JobInv

\* suspend_lock keeps every walk away from a child between its assignment and the
\* resumption by its own spawn, which sets its affinity first.
THEOREM EarlyRunCorrect == Spec => []NoEarlyRun
<1>1. JobInv => NoEarlyRun
  BY DEF JobInv, SpawnInv, NoEarlyRun
<1> QED
  BY JobCorrect, <1>1, PTL

\* Closing the job, by Drop or by the death of the host, takes what ran in it, and
\* spares it exactly if a shutdown said so last.
THEOREM CloseCorrect == Spec => []CloseIsJust
<1>1. JobInv => CloseIsJust
  BY DEF JobInv, CloseInv
<1> QED
  BY JobCorrect, <1>1, PTL
=============================================================================
