--------------------------- MODULE Cgroup_proofs ---------------------------
(* The types of Cgroup, whom a sweep signals, what a hard stop that reports no *)
(* error has done, whom a rollback kills and what an adoption may leave behind, *)
(* for every set of spawns, processes, numbers, calls and scenes.              *)
(*                                                                             *)
(* Everything in this backend goes by number, so the invariant says when a     *)
(* number still means one process: numbers of processes that exist are theirs  *)
(* alone (KernelInv), a launching child is not reaped, so the claim of its     *)
(* leaf is its own (LaunchInv), and a member is found in a directory of the    *)
(* registry (RegInv). The other parts say what a step of a sweep, a rollback   *)
(* or an adoption has established, before the next one relies on it.           *)
EXTENDS Cgroup, TLAPS

\* A number belongs to one of the processes that exist; a process is in a leaf
\* only if it descends from the leaf's spawn.
KernelInv ==
  /\ \A p \in Procs : Exists(p) => pid[p] \in Pids
  /\ \A p, q \in Procs : Exists(p) /\ Exists(q) /\ pid[p] = pid[q] => p = q
  /\ \A p \in Procs : st[p] = "none" => cg[p] = "out"
  /\ \A p \in Procs : cg[p] \in Launches => of[p] = cg[p]
  /\ \A p \in Procs : cg[p] # "out" => p \in ever

\* A launch is over with its spawn: what was opened is registered, if it has to be.
Settled(l) == launch[l] \notin {"idle", "open", "forked", "failing"}

\* A spawn's leaf answers to the spawn's number until a rollback looks it up.
LaunchInv ==
  \A l \in Launches :
    /\ launch[l] \in {"idle", "open"} => st[l] = "none" /\ ~had[l]
    /\ launch[l] = "idle" => ~slot[l]
    /\ launch[l] \in {"forked", "joined", "armed", "aimed", "undo"} => Exists(l)
    /\ launch[l] \in {"forked", "failing"} /\ had[l] => slot[l]
    /\ ~had[l] => \A p \in Procs : cg[p] # l
    /\ launch[l] \in {"joined", "armed"} /\ had[l] =>
         claim[l] = pid[l] /\ \A m \in Launches \ {l} : claim[m] # pid[l]
    /\ launch[l] = "aimed" /\ had[l] => aim[l] = l \/ (aim[l] = None /\ In(l) = {})

\* A leaf with a process in it exists, and once its launch is over it is registered.
RegInv ==
  \A l \in Launches :
    /\ In(l) # {} => l \in dirs
    /\ In(l) # {} /\ Settled(l) => l \in live
    /\ l \in live => Settled(l)
    /\ slot[l] /\ ~Settled(l) => l \in dirs

\* What a rollback has killed is its spawn's, and leaves nobody to fork another.
RollInv ==
  /\ \A l \in Launches : \A p \in rolled[l] : st[p] # "none"
  /\ RollbackHitsItsSpawn

\* While the pins are confirmed, a pinned process whose number was listed is one
\* that was a member.
HitInv ==
  /\ hit \subseteq ever
  /\ \A k \in Callers : call[k].pc = "confirm" =>
       \A p \in call[k].pins :
         /\ st[p] # "none"
         /\ call[k].reading /\ Runs(p) /\ pid[p] \in call[k].seen => p \in ever

\* The last read has found every member it owes, or has its leaf still to read.
SweepInv ==
  \A k \in Callers :
    /\ call[k].result # "none" => call[k].pc = "over"
    /\ \A p \in call[k].before :
         /\ st[p] # "none"
         /\ cg[p] \in Launches => Settled(cg[p])
         /\ call[k].result = "ok" => st[p] # "alive" \/ cg[p] = "out"
         /\ call[k].pc = "final" /\ call[k].reading =>
              \/ st[p] # "alive" \/ cg[p] = "out"
              \/ pid[p] \in call[k].seen \/ cg[p] \in call[k].todo

\* A frozen job has a sweep that is to thaw it, or one that knows it could not.
FreezeInv ==
  frozen => \E k \in Callers :
              \/ call[k].pc \in {"list", "confirm", "drain", "thaw"} /\ call[k].froze
              \/ call[k].pc = "final" /\ call[k].stuck
              \/ call[k].pc = "over" /\ call[k].result = "err"

\* What an adoption moved has the number of what it named, which is gone if it is
\* another process.
AdoptInv ==
  /\ \A a \in Adoptions :
       LET r == adopt[a]
       IN /\ r.pc # "over" => r.result = "none"
          /\ r.pc \in {"idle", "anchored"} => r.moved = None
          /\ r.pc \in {"written", "recycled", "evict"} => r.moved # None
          /\ r.pc = "anchored" \/ r.moved # None =>
               r.named # None /\ st[r.named] # "none" /\ pid[r.named] = r.num
          /\ r.moved # None => st[r.moved] # "none" /\ pid[r.moved] = r.num
          /\ r.moved \notin {None, r.named} => ~Exists(r.named)
  /\ AdoptionIsHonest

CgroupInv == /\ TypeOK /\ KernelInv /\ LaunchInv /\ RegInv /\ RollInv
             /\ HitInv /\ SweepInv /\ FreezeInv /\ AdoptInv

-----------------------------------------------------------------------------
\* A signal leaves every process a state it can be in.
LEMMA KilledIs ==
  ASSUME TypeOK, NEW P
  PROVE  /\ Killed(P) \in [Procs -> {"none", "alive", "killed", "zombie", "gone"}]
         /\ \A p \in Procs : Killed(P)[p] = IF p \in P /\ st[p] = "alive" THEN "killed" ELSE st[p]
  BY DEF TypeOK, Killed

\* A call that goes on has the state of a call.
LEMMA GoesType ==
  ASSUME TypeOK, NEW k \in Callers, NEW c \in Calls, Goes(k, c)
  PROVE  call' \in [Callers -> Calls]
  BY DEF TypeOK, Goes

\* So has an adoption.
LEMMA StepsType ==
  ASSUME TypeOK, NEW a \in Adoptions, NEW r \in Adopts, Steps(a, r)
  PROVE  adopt' \in [Adoptions -> Adopts]
  BY DEF TypeOK, Steps

\* A sweep leaves its read without what it read.
LEMMA ToIs ==
  ASSUME TypeOK, NEW k \in Callers,
         NEW c \in {"idle", "list", "confirm", "drain", "thaw", "final", "over"}
  PROVE  /\ To(k, c) \in Calls /\ call[k] \in Calls
         /\ To(k, c).pc = c /\ To(k, c).reading = FALSE
         /\ To(k, c).seen = {} /\ To(k, c).todo = {}
         /\ To(k, c).pins = call[k].pins /\ To(k, c).pass = call[k].pass
         /\ To(k, c).froze = call[k].froze /\ To(k, c).stuck = call[k].stuck
         /\ To(k, c).result = call[k].result /\ To(k, c).before = call[k].before
<1>1. call[k] \in Calls
  BY DEF TypeOK
<1> QED
  BY <1>1 DEF To, Calls

\* The next pass lists again, or the sweep goes on to thaw.
LEMMA NextPassIs ==
  ASSUME TypeOK, NEW k \in Callers
  PROVE  /\ NextPass(k) \in Calls
         /\ NextPass(k).pc \in {"list", "thaw"} /\ NextPass(k).reading = FALSE
         /\ NextPass(k).froze = call[k].froze /\ NextPass(k).stuck = call[k].stuck
         /\ NextPass(k).result = call[k].result /\ NextPass(k).before = call[k].before
<1>1. /\ To(k, "list") \in Calls /\ To(k, "thaw") \in Calls
      /\ To(k, "list").pass = call[k].pass /\ call[k].pass \in 0..Passes
  BY ToIs DEF Calls
<1>2. CASE call[k].pass < Passes
  <2>1. call[k].pass + 1 \in 0..Passes
    BY <1>1, <1>2, CgroupAssumption
  <2>2. NextPass(k) = [To(k, "list") EXCEPT !.pass = call[k].pass + 1]
    BY <1>1, <1>2 DEF NextPass
  <2>3. /\ To(k, "list").pc = "list" /\ To(k, "list").reading = FALSE
        /\ To(k, "list").froze = call[k].froze /\ To(k, "list").stuck = call[k].stuck
        /\ To(k, "list").result = call[k].result /\ To(k, "list").before = call[k].before
    BY ToIs
  <2> QED
    BY <1>1, <2>1, <2>2, <2>3 DEF Calls
<1>3. CASE ~(call[k].pass < Passes)
  BY <1>3, ToIs DEF NextPass
<1> QED
  BY <1>2, <1>3

\* A claim takes its number from the other leaves, and is one.
LEMMA ClaimedIs ==
  ASSUME TypeOK, NEW l \in Launches, NEW n \in Pids \cup {0}
  PROVE  /\ Claimed(l, n) \in [Launches -> Pids \cup {0}]
         /\ \A m \in Launches :
              Claimed(l, n)[m] = IF m = l THEN n ELSE IF claim[m] = n THEN 0 ELSE claim[m]
  BY DEF TypeOK, Claimed

\* A leaf that is registered changes the tree within its directories.
LEMMA RegisterType ==
  ASSUME TypeOK, NEW l \in Launches, NEW n \in Pids \cup {0}, Register(l, n)
  PROVE  /\ dirs' \subseteq Dirs /\ live' \subseteq Launches
         /\ claim' \in [Launches -> Pids \cup {0}]
<1>1. claim' \in [Launches -> Pids \cup {0}]
  BY ClaimedIs DEF Register
<1> QED
  BY <1>1 DEF Register, Released, Empties, TypeOK

\* The steps of a sweep change the processes, the freezer, the call and whom it hit.
LEMMA KillType ==
  ASSUME TypeOK, Unchanged4Kill, call' \in [Callers -> Calls], frozen' \in BOOLEAN,
         st' \in [Procs -> {"none", "alive", "killed", "zombie", "gone"}], hit' \subseteq Procs
  PROVE  TypeOK'
  BY DEF TypeOK, Unchanged4Kill, treeVars, launchVars, latchVars


\* What a directory lists are numbers.
LEMMA ListedIs ==
  ASSUME TypeOK, KernelInv, NEW d
  PROVE  /\ Listed(d) \subseteq Pids
         /\ \A p \in In(d) : pid[p] \in Listed(d) /\ Exists(p)
  BY DEF KernelInv, Listed, In, Exists, Runs


\* What the steps of an adoption make of it is an adoption's state.
LEMMA AdoptIs ==
  ASSUME TypeOK, NEW a \in Adoptions
  PROVE  /\ \A r \in {"ok", "err", "notmember", "evicted", "stuck"} :
              [adopt[a] EXCEPT !.pc = "over", !.result = r] \in Adopts
         /\ \A c \in {"recycled", "evict"} : [adopt[a] EXCEPT !.pc = c] \in Adopts
         /\ \A p \in Procs : [adopt[a] EXCEPT !.pc = "written", !.moved = p] \in Adopts
         /\ \A p \in Procs, n \in Pids \cup {0} :
              [adopt[a] EXCEPT !.pc = "anchored", !.num = n, !.named = p] \in Adopts
<1>1. adopt[a] \in Adopts
  BY DEF TypeOK
<1> QED
  BY <1>1 DEF Adopts


\* Every variable keeps to its values.
LEMMA TypeStep == ASSUME TypeOK, KernelInv, [Next]_vars PROVE TypeOK'
<1> USE CgroupAssumption DEF TypeOK, Callers, Procs, Dirs, kernelVars, treeVars, launchVars, latchVars
<1>1. ASSUME NEW q \in Others, Stranger(q) PROVE TypeOK'
  BY <1>1 DEF Stranger, Born, Free
<1>2. ASSUME NEW p \in Procs, NEW q \in Others, Forks(p, q) PROVE TypeOK'
  BY <1>2 DEF Forks, Born, Free, Stopped
<1>3. ASSUME NEW p \in Procs, Exits(p) PROVE TypeOK'
  BY <1>3 DEF Exits
<1>4. ASSUME NEW p \in Procs, Reaped(p) PROVE TypeOK'
  BY <1>4 DEF Reaped
<1>5. ASSUME NEW l \in Launches, OpenLeaf(l) PROVE TypeOK'
  BY <1>5 DEF OpenLeaf, Unchanged4Launch
<1>6. ASSUME NEW l \in Launches, Spawned(l) PROVE TypeOK'
  BY <1>6 DEF Spawned, Unchanged4Launch, Born, Free
<1>7. ASSUME NEW l \in Launches, SpawnFails(l) PROVE TypeOK'
  BY <1>7 DEF SpawnFails, Unchanged4Launch
<1>8. ASSUME NEW l \in Launches, Commits(l) PROVE TypeOK'
  <2>1. pid[l] \in Pids \cup {0} /\ Unchanged4Launch
    BY <1>8 DEF Commits
  <2>2. /\ dirs' \subseteq Dirs /\ live' \subseteq Launches
        /\ claim' \in [Launches -> Pids \cup {0}]
    BY <1>8, <2>1, RegisterType DEF Commits
  <2> QED
    BY <1>8, <2>1, <2>2 DEF Commits, Unchanged4Launch
<1>9. ASSUME NEW l \in Launches, SlotDropped(l) PROVE TypeOK'
  <2>1. /\ dirs' \subseteq Dirs /\ live' \subseteq Launches
        /\ claim' \in [Launches -> Pids \cup {0}]
    BY <1>9, RegisterType DEF SlotDropped
  <2> QED
    BY <1>9, <2>1 DEF SlotDropped, Unchanged4Launch
<1>10. ASSUME NEW l \in Launches, Arms(l) PROVE TypeOK'
  BY <1>10 DEF Arms, Unchanged4Launch
<1>11. ASSUME NEW l \in Launches, Succeeds(l) PROVE TypeOK'
  BY <1>11 DEF Succeeds, Unchanged4Launch
<1>12. ASSUME NEW l \in Launches, RollsBack(l) PROVE TypeOK'
  BY <1>12 DEF RollsBack, Unchanged4Launch
<1>13. ASSUME NEW l \in Launches, RollbackKills(l) PROVE TypeOK'
  <2>1. st' \in [Procs -> {"none", "alive", "killed", "zombie", "gone"}]
    BY <1>13, KilledIs DEF RollbackKills
  <2>2. rolled' \in [Launches -> SUBSET Procs]
    BY <1>13 DEF RollbackKills, In
  <2>3. dirs' \subseteq dirs /\ live' \subseteq live
    BY <1>13 DEF RollbackKills, Released
  <2>4. /\ launch' = [launch EXCEPT ![l] = "undo"] /\ Unchanged4Launch
        /\ UNCHANGED <<pid, cg, of, ever, claim, slot, had, aim, held, latchVars>>
    BY <1>13 DEF RollbackKills
  <2> QED
    BY <2>1, <2>2, <2>3, <2>4 DEF Unchanged4Launch
<1>14. ASSUME NEW l \in Launches, Undone(l) PROVE TypeOK'
  BY <1>14 DEF Undone, Unchanged4Launch, Killed
<1>15. ASSUME NEW k \in Callers, Starts(k) PROVE TypeOK'
  <2>1. call[k] \in Calls /\ Owed \subseteq Procs
    BY DEF Owed
  <2>2. CASE scene.kill
    <3>1. [call[k] EXCEPT !.pc = "over", !.result = "ok", !.before = Owed] \in Calls
      BY <2>1 DEF Calls
    <3> QED
      BY <1>15, <2>2, <3>1, KilledIs, GoesType, KillType DEF Starts
  <2>3. CASE ~scene.kill
    <3>1. 1 \in 0..Passes
      OBVIOUS
    <3>2. \A f \in BOOLEAN : [call[k] EXCEPT !.pc = "list", !.pass = 1, !.froze = f,
                                             !.before = Owed] \in Calls
      BY <2>1, <3>1 DEF Calls
    <3> QED
      BY <1>15, <2>3, <3>2, GoesType, KillType DEF Starts
  <2> QED
    BY <2>2, <2>3
<1>16. ASSUME NEW k \in Callers, Reads(k) PROVE TypeOK'
  <2>1. call[k] \in Calls
    OBVIOUS
  <2>2. [call[k] EXCEPT !.reading = TRUE, !.todo = live, !.seen = Listed("job")] \in Calls
    BY <2>1, ListedIs DEF Calls
  <2> QED
    BY <1>16, <2>2, GoesType, KillType DEF Reads
<1>17. ASSUME NEW k \in Callers, ReadFails(k) PROVE TypeOK'
  <2>1. \A c \in {"drain", "over"} : To(k, c) \in Calls
    BY ToIs
  <2>2. /\ [To(k, "drain") EXCEPT !.pins = {}] \in Calls
        /\ [To(k, "over") EXCEPT !.result = "err"] \in Calls
    BY <2>1 DEF Calls
  <2> QED
    BY <1>17, <2>2, NextPassIs, GoesType, KillType DEF ReadFails
<1>18. ASSUME NEW k \in Callers, Pins(k) PROVE TypeOK'
  <2>1. \A c \in {"drain", "confirm"} : To(k, c) \in Calls
    BY ToIs
  <2>2. \A c \in {"drain", "confirm"}, P \in SUBSET Procs : [To(k, c) EXCEPT !.pins = P] \in Calls
    BY <2>1 DEF Calls
  <2>3. UNION {Holders(n) : n \in call[k].seen} \subseteq Procs
    BY DEF Holders
  <2>4. PICK pinned \in SUBSET Procs :
          Goes(k, [To(k, IF pinned = {} THEN "drain" ELSE "confirm") EXCEPT !.pins = pinned])
    BY <1>18, <2>3 DEF Pins
  <2> QED
    BY <1>18, <2>2, <2>4, GoesType, KillType DEF Pins
<1>19. ASSUME NEW k \in Callers, Delivers(k) PROVE TypeOK'
  <2>1. To(k, "drain") \in Calls
    BY ToIs
  <2>2. [To(k, "drain") EXCEPT !.pins = {}] \in Calls
    BY <2>1 DEF Calls
  <2>3. hit' \subseteq Procs
    BY <1>19, ToIs DEF Delivers, Confirmed, Calls
  <2> QED
    BY <1>19, <2>2, <2>3, KilledIs, GoesType, KillType DEF Delivers
<1>20. ASSUME NEW k \in Callers, ChecksDrain(k) PROVE TypeOK'
  BY <1>20, ToIs, NextPassIs, GoesType, KillType DEF ChecksDrain
<1>21. ASSUME NEW k \in Callers, Thaws(k) PROVE TypeOK'
  <2>1. To(k, "final") \in Calls /\ call[k] \in Calls
    BY ToIs
  <2>2. \A s \in BOOLEAN : [To(k, "final") EXCEPT !.stuck = s] \in Calls
    BY <2>1 DEF Calls
  <2>3. call[k].froze \in BOOLEAN
    BY <2>1 DEF Calls
  <2> QED
    BY <1>21, <2>1, <2>2, <2>3, GoesType, KillType DEF Thaws
<1>22. ASSUME NEW k \in Callers, Answers(k) PROVE TypeOK'
  <2>1. To(k, "over") \in Calls
    BY ToIs
  <2>2. [To(k, "over") EXCEPT !.result = Verdict(k)] \in Calls
    BY <2>1 DEF Calls, Verdict
  <2> QED
    BY <1>22, <2>2, GoesType, KillType DEF Answers
<1>23. ASSUME NEW k \in Callers, NEW l \in Launches, ReadsLeaf(k, l) PROVE TypeOK'
  <2>1. call[k] \in Calls
    OBVIOUS
  <2>2. [call[k] EXCEPT !.todo = @ \ {l}, !.seen = @ \cup Listed(l)] \in Calls
    BY <2>1, ListedIs DEF Calls
  <2> QED
    BY <1>23, <2>2, GoesType, KillType DEF ReadsLeaf
<1>24. ASSUME NEW a \in Adoptions, Anchors(a) PROVE TypeOK'
  <2>1. PICK p \in Procs : Steps(a, [adopt[a] EXCEPT !.pc = "anchored", !.num = pid[p], !.named = p])
    BY <1>24 DEF Anchors
  <2>2. pid[p] \in Pids \cup {0}
    OBVIOUS
  <2>3. [adopt[a] EXCEPT !.pc = "anchored", !.num = pid[p], !.named = p] \in Adopts
    BY <2>2, AdoptIs
  <2> QED
    BY <1>24, <2>1, <2>3, StepsType DEF Anchors, Unchanged4Adopt
<1>25. ASSUME NEW a \in Adoptions, Moves(a) PROVE TypeOK'
  <2>2. adopt' \in [Adoptions -> Adopts]
    BY <1>25, AdoptIs, StepsType DEF Moves, Adopted, Holders
  <2>3. cg' \in [Procs -> Dirs \cup {"out"}] /\ ever' \subseteq Procs
    <3>1. \A p \in Procs : [cg EXCEPT ![p] = "job"] \in [Procs -> Dirs \cup {"out"}]
      OBVIOUS
    <3>2. \/ UNCHANGED <<cg, ever>>
          \/ \E p \in Procs : cg' = [cg EXCEPT ![p] = "job"] /\ ever' = ever \cup {p}
      BY <1>25 DEF Moves, Holders
    <3> QED
      BY <3>1, <3>2
  <2>4. call' \in [Callers -> Calls]
    <3>1. \A k \in Callers, P \in SUBSET Procs : [call[k] EXCEPT !.before = P] \in Calls
      BY DEF Calls
    <3>2. \A k \in Callers : call[k].before \in SUBSET Procs
      BY DEF Calls
    <3>3. CASE UNCHANGED call
      BY <3>3
    <3>4. ASSUME NEW p \in Procs,
                 call' = [k \in Callers |-> [call[k] EXCEPT
                            !.before = IF cg[p] = "job" THEN @ ELSE @ \ {p}]]
          PROVE  call' \in [Callers -> Calls]
      <4>1. \A k \in Callers : (IF cg[p] = "job" THEN call[k].before ELSE call[k].before \ {p})
                                 \in SUBSET Procs
        BY <3>2
      <4> QED
        BY <3>1, <3>4, <4>1
    <3> QED
      BY <1>25, <3>3, <3>4 DEF Moves, Holders
  <2> QED
    BY <1>25, <2>2, <2>3, <2>4 DEF Moves, Unchanged4Adopt
<1>26. ASSUME NEW a \in Adoptions, Rereads(a) PROVE TypeOK'
  <2>2. adopt' \in [Adoptions -> Adopts]
    BY <1>26, AdoptIs, StepsType DEF Rereads, Adopted
  <2> QED
    BY <1>26, <2>2 DEF Rereads, Unchanged4Adopt
<1>27. ASSUME NEW a \in Adoptions, Looks(a) PROVE TypeOK'
  <2>2. adopt' \in [Adoptions -> Adopts]
    BY <1>27, AdoptIs, StepsType DEF Looks, Adopted
  <2> QED
    BY <1>27, <2>2 DEF Looks, Unchanged4Adopt
<1>28. ASSUME NEW a \in Adoptions, Evicts(a) PROVE TypeOK'
  <2>2. adopt' \in [Adoptions -> Adopts]
    BY <1>28, AdoptIs, StepsType DEF Evicts, Adopted
  <2>3. cg' \in [Procs -> Dirs \cup {"out"}]
    BY <1>28 DEF Evicts
  <2> QED
    BY <1>28, <2>2, <2>3 DEF Evicts, Unchanged4Adopt
<1>29. CASE DropStarts
  BY <1>29 DEF DropStarts, Unchanged4Drop
<1>30. CASE DropReclaims
  BY <1>30 DEF DropReclaims, Released, Empties, Unchanged4Drop
<1>31. CASE DropRemoves
  BY <1>31 DEF DropRemoves, Removable, Unchanged4Drop
<1>32. CASE OtherEnqueues
  BY <1>32 DEF OtherEnqueues, Unchanged4Drop
<1>33. CASE ReclaimPass
  <2>1. dirs' \subseteq dirs /\ live' \subseteq live
    BY <1>33 DEF ReclaimPass
  <2> QED
    BY <1>33, <2>1 DEF ReclaimPass, Unchanged4Drop
<1>34. CASE UNCHANGED vars
  BY <1>34 DEF vars
<1> QED
  BY <1>1, <1>2, <1>3, <1>4, <1>5, <1>6, <1>7, <1>8, <1>9, <1>10, <1>11,
     <1>12, <1>13, <1>14, <1>15, <1>16, <1>17, <1>18, <1>19, <1>20, <1>21,
     <1>22, <1>23, <1>24, <1>25, <1>26, <1>27, <1>28, <1>29, <1>30, <1>31,
     <1>32, <1>33, <1>34 DEF Next

\* A hard stop begins with a kill, or with its first pass.
LEMMA StartsIs ==
  ASSUME TypeOK, NEW k \in Callers, Starts(k)
  PROVE  /\ UNCHANGED <<pid, cg, of, ever>>
         /\ \/ /\ scene.kill /\ st' = Killed(Members) /\ UNCHANGED frozen
               /\ call' = [call EXCEPT ![k] = [call[k] EXCEPT !.pc = "over", !.result = "ok",
                                                              !.before = Owed]]
            \/ /\ ~scene.kill /\ UNCHANGED st
               /\ \E f \in BOOLEAN :
                    /\ frozen' = (frozen \/ f)
                    /\ call' = [call EXCEPT ![k] = [call[k] EXCEPT !.pc = "list", !.pass = 1,
                                                      !.froze = f, !.before = Owed]]
  BY DEF Starts, Goes, Unchanged4Kill


\* Numbers stay apart, and leaves hold their own spawns.
LEMMA KernelStep == ASSUME TypeOK, KernelInv, [Next]_vars PROVE KernelInv'
<1> USE CgroupAssumption DEF TypeOK, KernelInv, Exists, Runs, Procs, Dirs, kernelVars, treeVars, launchVars, latchVars
<1>1. ASSUME NEW q \in Others, Stranger(q) PROVE KernelInv'
  BY <1>1 DEF Stranger, Born, Free
<1>2. ASSUME NEW p \in Procs, NEW q \in Others, Forks(p, q) PROVE KernelInv'
  BY <1>2 DEF Forks, Born, Free, Stopped
<1>3. ASSUME NEW p \in Procs, Exits(p) PROVE KernelInv'
  BY <1>3 DEF Exits
<1>4. ASSUME NEW p \in Procs, Reaped(p) PROVE KernelInv'
  BY <1>4 DEF Reaped
<1>5. ASSUME NEW l \in Launches, OpenLeaf(l) PROVE KernelInv'
  BY <1>5 DEF OpenLeaf, Unchanged4Launch
<1>6. ASSUME NEW l \in Launches, Spawned(l) PROVE KernelInv'
  BY <1>6 DEF Spawned, Unchanged4Launch, Born, Free
<1>7. ASSUME NEW l \in Launches, SpawnFails(l) PROVE KernelInv'
  BY <1>7 DEF SpawnFails, Unchanged4Launch
<1>8. ASSUME NEW l \in Launches, Commits(l) PROVE KernelInv'
  BY <1>8 DEF Commits, Unchanged4Launch, Register, Claimed, Released, Empties
<1>9. ASSUME NEW l \in Launches, SlotDropped(l) PROVE KernelInv'
  BY <1>9 DEF SlotDropped, Unchanged4Launch, Register, Claimed, Released, Empties
<1>10. ASSUME NEW l \in Launches, Arms(l) PROVE KernelInv'
  BY <1>10 DEF Arms, Unchanged4Launch
<1>11. ASSUME NEW l \in Launches, Succeeds(l) PROVE KernelInv'
  BY <1>11 DEF Succeeds, Unchanged4Launch
<1>12. ASSUME NEW l \in Launches, RollsBack(l) PROVE KernelInv'
  BY <1>12 DEF RollsBack, Unchanged4Launch
<1>13. ASSUME NEW l \in Launches, RollbackKills(l) PROVE KernelInv'
  BY <1>13 DEF RollbackKills, Unchanged4Launch, Killed, Released, Empties
<1>14. ASSUME NEW l \in Launches, Undone(l) PROVE KernelInv'
  BY <1>14 DEF Undone, Unchanged4Launch, Killed
<1>15. ASSUME NEW k \in Callers, Starts(k) PROVE KernelInv'
  <2>1. UNCHANGED <<pid, cg, of, ever>> /\ (UNCHANGED st \/ st' = Killed(Members))
    BY <1>15, StartsIs
  <2> QED
    BY <2>1, KilledIs
<1>16. ASSUME NEW k \in Callers, Reads(k) PROVE KernelInv'
  BY <1>16 DEF Reads, Unchanged4Kill, Goes, To, Listed
<1>17. ASSUME NEW k \in Callers, ReadFails(k) PROVE KernelInv'
  BY <1>17 DEF ReadFails, Unchanged4Kill, Goes, To, NextPass
<1>18. ASSUME NEW k \in Callers, Pins(k) PROVE KernelInv'
  BY <1>18 DEF Pins, Unchanged4Kill, Goes, To, HasRead, Holders
<1>19. ASSUME NEW k \in Callers, Delivers(k) PROVE KernelInv'
  BY <1>19 DEF Delivers, Unchanged4Kill, Goes, To, HasRead, Confirmed, Killed
<1>20. ASSUME NEW k \in Callers, ChecksDrain(k) PROVE KernelInv'
  BY <1>20 DEF ChecksDrain, Unchanged4Kill, Goes, To, HasRead, NextPass
<1>21. ASSUME NEW k \in Callers, Thaws(k) PROVE KernelInv'
  BY <1>21 DEF Thaws, Unchanged4Kill, Goes, To
<1>22. ASSUME NEW k \in Callers, Answers(k) PROVE KernelInv'
  BY <1>22 DEF Answers, Unchanged4Kill, Goes, To, HasRead, Verdict
<1>23. ASSUME NEW k \in Callers, NEW l \in Launches, ReadsLeaf(k, l) PROVE KernelInv'
  BY <1>23 DEF ReadsLeaf, Listed, Unchanged4Kill, Goes, To
<1>24. ASSUME NEW a \in Adoptions, Anchors(a) PROVE KernelInv'
  BY <1>24 DEF Anchors, Unchanged4Adopt, Steps, Adopted
<1>25. ASSUME NEW a \in Adoptions, Moves(a) PROVE KernelInv'
  <2>1. UNCHANGED <<st, pid, of>>
    BY <1>25 DEF Moves, Unchanged4Adopt
  <2>2. CASE UNCHANGED <<cg, ever>>
    BY <2>1, <2>2
  <2>3. ASSUME NEW p \in Procs, Exists(p), cg' = [cg EXCEPT ![p] = "job"],
               ever' = ever \cup {p}
        PROVE  KernelInv'
    BY <2>1, <2>3
  <2> QED
    BY <1>25, <2>2, <2>3 DEF Moves, Holders
<1>26. ASSUME NEW a \in Adoptions, Rereads(a) PROVE KernelInv'
  BY <1>26 DEF Rereads, Unchanged4Adopt, Steps, Adopted, Recycled, Holders
<1>27. ASSUME NEW a \in Adoptions, Looks(a) PROVE KernelInv'
  BY <1>27 DEF Looks, Unchanged4Adopt, Steps, Adopted, Listed
<1>28. ASSUME NEW a \in Adoptions, Evicts(a) PROVE KernelInv'
  BY <1>28 DEF Evicts, Unchanged4Adopt, Steps, Adopted, Holders
<1>29. CASE DropStarts
  BY <1>29 DEF DropStarts, Unchanged4Drop
<1>30. CASE DropReclaims
  BY <1>30 DEF DropReclaims, Released, Empties, Unchanged4Drop
<1>31. CASE DropRemoves
  BY <1>31 DEF DropRemoves, Removable, Unchanged4Drop
<1>32. CASE OtherEnqueues
  BY <1>32 DEF OtherEnqueues, Unchanged4Drop
<1>33. CASE ReclaimPass
  BY <1>33 DEF ReclaimPass, Empties, Unchanged4Drop
<1>34. CASE UNCHANGED vars
  BY <1>34 DEF vars
<1> QED
  BY <1>1, <1>2, <1>3, <1>4, <1>5, <1>6, <1>7, <1>8, <1>9, <1>10, <1>11,
     <1>12, <1>13, <1>14, <1>15, <1>16, <1>17, <1>18, <1>19, <1>20, <1>21,
     <1>22, <1>23, <1>24, <1>25, <1>26, <1>27, <1>28, <1>29, <1>30, <1>31,
     <1>32, <1>33, <1>34 DEF Next

\* What a step may do to a process: a number, a spawn and a membership are for
\* good, nobody comes back, and only an adoption moves who was born.
Ages(p) ==
  /\ st[p] # "none" => /\ st'[p] # "none" /\ pid'[p] = pid[p] /\ of'[p] = of[p]
                       /\ cg'[p] \in {cg[p], "job", "out"}
  /\ Runs(p)' => Runs(p) \/ st[p] = "none"
  /\ Exists(p)' => Exists(p) \/ st[p] = "none"
  /\ st'[p] = "alive" => st[p] \in {"alive", "none"}
  /\ p \in ever => p \in ever'

\* Every step lets processes age.
LEMMA AgesStep == ASSUME TypeOK, KernelInv, [Next]_vars PROVE \A x \in Procs : Ages(x)
<1> USE CgroupAssumption DEF TypeOK, Ages, Exists, Runs, Procs, kernelVars, treeVars, launchVars, latchVars
<1>1. ASSUME NEW q \in Others, Stranger(q) PROVE \A x \in Procs : Ages(x)
  BY <1>1 DEF Stranger, Born, Free
<1>2. ASSUME NEW p \in Procs, NEW q \in Others, Forks(p, q) PROVE \A x \in Procs : Ages(x)
  BY <1>2 DEF Forks, Born, Free, Stopped
<1>3. ASSUME NEW p \in Procs, Exits(p) PROVE \A x \in Procs : Ages(x)
  BY <1>3 DEF Exits
<1>4. ASSUME NEW p \in Procs, Reaped(p) PROVE \A x \in Procs : Ages(x)
  BY <1>4 DEF Reaped
<1>5. ASSUME NEW l \in Launches, OpenLeaf(l) PROVE \A x \in Procs : Ages(x)
  BY <1>5 DEF OpenLeaf, Unchanged4Launch
<1>6. ASSUME NEW l \in Launches, Spawned(l) PROVE \A x \in Procs : Ages(x)
  BY <1>6 DEF Spawned, Unchanged4Launch, Born, Free
<1>7. ASSUME NEW l \in Launches, SpawnFails(l) PROVE \A x \in Procs : Ages(x)
  BY <1>7 DEF SpawnFails, Unchanged4Launch
<1>8. ASSUME NEW l \in Launches, Commits(l) PROVE \A x \in Procs : Ages(x)
  BY <1>8 DEF Commits, Unchanged4Launch, Register, Claimed, Released, Empties
<1>9. ASSUME NEW l \in Launches, SlotDropped(l) PROVE \A x \in Procs : Ages(x)
  BY <1>9 DEF SlotDropped, Unchanged4Launch, Register, Claimed, Released, Empties
<1>10. ASSUME NEW l \in Launches, Arms(l) PROVE \A x \in Procs : Ages(x)
  BY <1>10 DEF Arms, Unchanged4Launch
<1>11. ASSUME NEW l \in Launches, Succeeds(l) PROVE \A x \in Procs : Ages(x)
  BY <1>11 DEF Succeeds, Unchanged4Launch
<1>12. ASSUME NEW l \in Launches, RollsBack(l) PROVE \A x \in Procs : Ages(x)
  BY <1>12 DEF RollsBack, Unchanged4Launch
<1>13. ASSUME NEW l \in Launches, RollbackKills(l) PROVE \A x \in Procs : Ages(x)
  BY <1>13 DEF RollbackKills, Unchanged4Launch, Killed, Released, Empties
<1>14. ASSUME NEW l \in Launches, Undone(l) PROVE \A x \in Procs : Ages(x)
  BY <1>14 DEF Undone, Unchanged4Launch, Killed
<1>15. ASSUME NEW k \in Callers, Starts(k) PROVE \A x \in Procs : Ages(x)
  <2>1. UNCHANGED <<pid, cg, of, ever>> /\ (UNCHANGED st \/ st' = Killed(Members))
    BY <1>15, StartsIs
  <2> QED
    BY <2>1, KilledIs
<1>16. ASSUME NEW k \in Callers, Reads(k) PROVE \A x \in Procs : Ages(x)
  BY <1>16 DEF Reads, Unchanged4Kill, Goes, To, Listed
<1>17. ASSUME NEW k \in Callers, ReadFails(k) PROVE \A x \in Procs : Ages(x)
  BY <1>17 DEF ReadFails, Unchanged4Kill, Goes, To, NextPass
<1>18. ASSUME NEW k \in Callers, Pins(k) PROVE \A x \in Procs : Ages(x)
  BY <1>18 DEF Pins, Unchanged4Kill, Goes, To, HasRead, Holders
<1>19. ASSUME NEW k \in Callers, Delivers(k) PROVE \A x \in Procs : Ages(x)
  BY <1>19 DEF Delivers, Unchanged4Kill, Goes, To, HasRead, Confirmed, Killed
<1>20. ASSUME NEW k \in Callers, ChecksDrain(k) PROVE \A x \in Procs : Ages(x)
  BY <1>20 DEF ChecksDrain, Unchanged4Kill, Goes, To, HasRead, NextPass
<1>21. ASSUME NEW k \in Callers, Thaws(k) PROVE \A x \in Procs : Ages(x)
  BY <1>21 DEF Thaws, Unchanged4Kill, Goes, To
<1>22. ASSUME NEW k \in Callers, Answers(k) PROVE \A x \in Procs : Ages(x)
  BY <1>22 DEF Answers, Unchanged4Kill, Goes, To, HasRead, Verdict
<1>23. ASSUME NEW k \in Callers, NEW l \in Launches, ReadsLeaf(k, l) PROVE \A x \in Procs : Ages(x)
  BY <1>23 DEF ReadsLeaf, Listed, Unchanged4Kill, Goes, To
<1>24. ASSUME NEW a \in Adoptions, Anchors(a) PROVE \A x \in Procs : Ages(x)
  BY <1>24 DEF Anchors, Unchanged4Adopt, Steps, Adopted
<1>25. ASSUME NEW a \in Adoptions, Moves(a) PROVE \A x \in Procs : Ages(x)
  BY <1>25 DEF Moves, Unchanged4Adopt, Steps, Adopted, Holders
<1>26. ASSUME NEW a \in Adoptions, Rereads(a) PROVE \A x \in Procs : Ages(x)
  BY <1>26 DEF Rereads, Unchanged4Adopt, Steps, Adopted, Recycled, Holders
<1>27. ASSUME NEW a \in Adoptions, Looks(a) PROVE \A x \in Procs : Ages(x)
  BY <1>27 DEF Looks, Unchanged4Adopt, Steps, Adopted, Listed
<1>28. ASSUME NEW a \in Adoptions, Evicts(a) PROVE \A x \in Procs : Ages(x)
  BY <1>28 DEF Evicts, Unchanged4Adopt, Steps, Adopted, Holders
<1>29. CASE DropStarts
  BY <1>29 DEF DropStarts, Unchanged4Drop
<1>30. CASE DropReclaims
  BY <1>30 DEF DropReclaims, Released, Empties, Unchanged4Drop
<1>31. CASE DropRemoves
  BY <1>31 DEF DropRemoves, Removable, Unchanged4Drop
<1>32. CASE OtherEnqueues
  BY <1>32 DEF OtherEnqueues, Unchanged4Drop
<1>33. CASE ReclaimPass
  BY <1>33 DEF ReclaimPass, Empties, Unchanged4Drop
<1>34. CASE UNCHANGED vars
  BY <1>34 DEF vars
<1> QED
  BY <1>1, <1>2, <1>3, <1>4, <1>5, <1>6, <1>7, <1>8, <1>9, <1>10, <1>11,
     <1>12, <1>13, <1>14, <1>15, <1>16, <1>17, <1>18, <1>19, <1>20, <1>21,
     <1>22, <1>23, <1>24, <1>25, <1>26, <1>27, <1>28, <1>29, <1>30, <1>31,
     <1>32, <1>33, <1>34 DEF Next

\* The steps by whose they are, and what each leaves alone.
Living == \E p \in Procs : Exits(p) \/ Reaped(p) \/ \E q \in Others : Stranger(q) \/ Forks(p, q)
Launching(l) == \/ OpenLeaf(l) \/ Spawned(l) \/ SpawnFails(l) \/ Commits(l) \/ SlotDropped(l)
                \/ Arms(l) \/ Succeeds(l) \/ RollsBack(l) \/ RollbackKills(l) \/ Undone(l)
Sweeping(k) == \/ Starts(k) \/ Reads(k) \/ ReadFails(k) \/ Pins(k) \/ Delivers(k)
               \/ ChecksDrain(k) \/ Thaws(k) \/ Answers(k)
               \/ \E l \in Launches : ReadsLeaf(k, l)
Adopting(a) == Anchors(a) \/ Moves(a) \/ Rereads(a) \/ Looks(a) \/ Evicts(a)
Dropping == DropStarts \/ DropReclaims \/ DropRemoves \/ OtherEnqueues \/ ReclaimPass

LEMMA StepsByActor ==
  ASSUME [Next]_vars
  PROVE  \/ Living \/ Dropping \/ UNCHANGED vars
         \/ \E l \in Launches : Launching(l)
         \/ \E k \in Callers : Sweeping(k)
         \/ \E a \in Adoptions : Adopting(a)
<1> USE DEF Next, Living, Dropping, Launching, Sweeping, Adopting
<1>1. ASSUME NEW q \in Others, Stranger(q) \/ \E p \in Procs : Forks(p, q) PROVE Living
  BY <1>1 DEF Procs
<1> QED
  BY <1>1

LEMMA LivingFrame ==
  ASSUME Living
  PROVE  UNCHANGED <<scene, frozen, treeVars, launchVars, latchVars, call, adopt, drop, request, hit>>
  BY DEF Living, Stranger, Forks, Exits, Reaped

LEMMA LaunchFrame ==
  ASSUME NEW l \in Launches, Launching(l)
  PROVE  UNCHANGED <<scene, frozen, call, adopt, drop, request, hit>>
  BY DEF Launching, Unchanged4Launch, OpenLeaf, Spawned, SpawnFails, Commits, SlotDropped, Arms,
         Succeeds, RollsBack, RollbackKills, Undone

LEMMA SweepFrame ==
  ASSUME NEW k \in Callers, Sweeping(k)
  PROVE  UNCHANGED <<scene, pid, cg, of, ever, treeVars, launchVars, latchVars, adopt, drop, request>>
  BY DEF Sweeping, Unchanged4Kill, Starts, Reads, ReadsLeaf, ReadFails, Pins, Delivers, ChecksDrain,
         Thaws, Answers

LEMMA AdoptFrame ==
  ASSUME NEW a \in Adoptions, Adopting(a)
  PROVE  /\ UNCHANGED <<scene, st, pid, of, frozen, treeVars, launchVars, drop, request, hit>>
         /\ Moves(a) \/ UNCHANGED <<call, ever>>
  BY DEF Adopting, Unchanged4Adopt, Anchors, Moves, Rereads, Looks, Evicts

LEMMA DropFrame ==
  ASSUME Dropping
  PROVE  UNCHANGED <<scene, kernelVars, frozen, claim, launchVars, latchVars, call, adopt, hit>>
  BY DEF Dropping, Unchanged4Drop, DropStarts, DropReclaims, DropRemoves, OtherEnqueues, ReclaimPass

\* What the write of an adoption does: it moves one process that runs, and no
\* sweep under way owes it a kill unless it was among the job's own members.
LEMMA MovesIs ==
  ASSUME TypeOK, NEW a \in Adoptions, Moves(a)
  PROVE  \/ UNCHANGED <<cg, ever, call>>
         \/ \E p \in Procs :
              /\ Runs(p) /\ pid[p] = adopt[a].num
              /\ cg' = [cg EXCEPT ![p] = "job"] /\ ever' = ever \cup {p}
              /\ Steps(a, [adopt[a] EXCEPT !.pc = "written", !.moved = p])
              /\ \A k \in Callers :
                   /\ call'[k].pc = call[k].pc /\ call'[k].reading = call[k].reading
                   /\ call'[k].todo = call[k].todo /\ call'[k].seen = call[k].seen
                   /\ call'[k].pins = call[k].pins /\ call'[k].froze = call[k].froze
                   /\ call'[k].stuck = call[k].stuck /\ call'[k].result = call[k].result
                   /\ call'[k].before = IF cg[p] = "job" THEN call[k].before
                                        ELSE call[k].before \ {p}
<1>1. \A k \in Callers : call[k] \in Calls
  BY DEF TypeOK
<1>2. CASE UNCHANGED <<cg, ever, call>>
  BY <1>2
<1>3. ASSUME NEW p \in Procs, Runs(p), pid[p] = adopt[a].num,
             cg' = [cg EXCEPT ![p] = "job"], ever' = ever \cup {p},
             Steps(a, [adopt[a] EXCEPT !.pc = "written", !.moved = p]),
             call' = [k \in Callers |-> [call[k] EXCEPT
                        !.before = IF cg[p] = "job" THEN @ ELSE @ \ {p}]]
      PROVE  \A k \in Callers :
               /\ call'[k].pc = call[k].pc /\ call'[k].reading = call[k].reading
               /\ call'[k].todo = call[k].todo /\ call'[k].seen = call[k].seen
               /\ call'[k].pins = call[k].pins /\ call'[k].froze = call[k].froze
               /\ call'[k].stuck = call[k].stuck /\ call'[k].result = call[k].result
               /\ call'[k].before = IF cg[p] = "job" THEN call[k].before
                                    ELSE call[k].before \ {p}
  BY <1>1, <1>3 DEF Calls
<1> QED
  BY <1>2, <1>3 DEF Moves, Holders

\* A sweep changes its own call only.
LEMMA SweepGoes ==
  ASSUME TypeOK, NEW k \in Callers, Sweeping(k)
  PROVE  \A m \in Callers \ {k} : call'[m] = call[m]
<1>1. ASSUME NEW c, Goes(k, c) PROVE \A m \in Callers \ {k} : call'[m] = call[m]
  BY <1>1 DEF Goes, TypeOK
<1> QED
  BY <1>1 DEF Sweeping, Starts, Reads, ReadsLeaf, ReadFails, Pins, Delivers, ChecksDrain, Thaws, Answers

\* What a call becomes, and what it is.
LEMMA GoesIs ==
  ASSUME TypeOK, NEW k \in Callers
  PROVE  /\ \A c : Goes(k, c) => call'[k] = c
         /\ call[k] \in Calls
  BY DEF Goes, TypeOK

\* A sweep's freeze, its answer and whom it owes a kill.
Keeps(k) ==
  /\ call'[k].froze = call[k].froze /\ call'[k].stuck = call[k].stuck
  /\ call'[k].result = call[k].result /\ call'[k].before = call[k].before

\* One fact for each step of a sweep: what it makes of the call.
LEMMA StartsMakes ==
  ASSUME TypeOK, NEW k \in Callers, Starts(k)
  PROVE  /\ call[k].pc = "idle" /\ call'[k].before = Owed
         /\ call'[k].reading = call[k].reading /\ UNCHANGED hit
         /\ \/ /\ st' = Killed(Members) /\ UNCHANGED frozen
               /\ call'[k].pc = "over" /\ call'[k].result = "ok"
            \/ /\ UNCHANGED st /\ frozen' = (frozen \/ call'[k].froze)
               /\ call'[k].pc = "list" /\ call'[k].result = call[k].result
<1>1. call[k] \in Calls /\ call[k].pc = "idle" /\ UNCHANGED hit
  BY GoesIs DEF Starts
<1>2. CASE /\ st' = Killed(Members) /\ UNCHANGED frozen
           /\ call' = [call EXCEPT ![k] = [call[k] EXCEPT !.pc = "over", !.result = "ok",
                                                          !.before = Owed]]
  <2>1. call'[k] = [call[k] EXCEPT !.pc = "over", !.result = "ok", !.before = Owed]
    BY <1>2 DEF TypeOK
  <2>2. /\ call'[k].before = Owed /\ call'[k].reading = call[k].reading
        /\ call'[k].pc = "over" /\ call'[k].result = "ok"
    BY <1>1, <2>1 DEF Calls
  <2> QED
    BY <1>1, <1>2, <2>2
<1>3. ASSUME NEW f \in BOOLEAN, UNCHANGED st, frozen' = (frozen \/ f),
             call' = [call EXCEPT ![k] = [call[k] EXCEPT !.pc = "list", !.pass = 1,
                                                         !.froze = f, !.before = Owed]]
      PROVE  /\ call'[k].before = Owed /\ call'[k].reading = call[k].reading
             /\ frozen' = (frozen \/ call'[k].froze)
             /\ call'[k].pc = "list" /\ call'[k].result = call[k].result
  <2>1. call'[k] = [call[k] EXCEPT !.pc = "list", !.pass = 1, !.froze = f, !.before = Owed]
    BY <1>3 DEF TypeOK
  <2>2. /\ call'[k].before = Owed /\ call'[k].reading = call[k].reading
        /\ call'[k].froze = f /\ call'[k].pc = "list" /\ call'[k].result = call[k].result
    BY <1>1, <2>1 DEF Calls
  <2> QED
    BY <1>3, <2>2
<1> QED
  BY <1>1, <1>2, <1>3, StartsIs

LEMMA ReadsMakes ==
  ASSUME TypeOK, NEW k \in Callers, Reads(k)
  PROVE  /\ UNCHANGED <<st, frozen, hit>> /\ Keeps(k)
         /\ call'[k].pc = call[k].pc /\ call'[k].pins = call[k].pins /\ call'[k].reading
         /\ call[k].pc \in {"list", "confirm", "drain", "final"}
         /\ call'[k].todo = live /\ call'[k].seen = Listed("job")
<1>1. /\ call[k] \in Calls
      /\ call'[k] = [call[k] EXCEPT !.reading = TRUE, !.todo = live, !.seen = Listed("job")]
  BY GoesIs DEF Reads
<1> QED
  BY <1>1 DEF Calls, Keeps, Reads

LEMMA ReadsLeafMakes ==
  ASSUME TypeOK, NEW k \in Callers, NEW l \in Launches, ReadsLeaf(k, l)
  PROVE  /\ UNCHANGED <<st, frozen, hit>> /\ Keeps(k)
         /\ call'[k].pc = call[k].pc /\ call'[k].pins = call[k].pins
         /\ call'[k].reading /\ call[k].reading
         /\ call'[k].todo = call[k].todo \ {l}
         /\ call'[k].seen = call[k].seen \cup Listed(l)
<1>1. /\ call[k] \in Calls
      /\ call'[k] = [call[k] EXCEPT !.todo = call[k].todo \ {l},
                                    !.seen = call[k].seen \cup Listed(l)]
  BY GoesIs DEF ReadsLeaf
<1> QED
  BY <1>1 DEF Calls, Keeps, ReadsLeaf

\* The steps that leave a read without a signal.
LEMMA LeavesMakes ==
  ASSUME TypeOK, NEW k \in Callers, ReadFails(k) \/ ChecksDrain(k)
  PROVE  /\ UNCHANGED <<st, frozen, hit>> /\ ~call'[k].reading
         /\ call'[k].froze = call[k].froze /\ call'[k].stuck = call[k].stuck
         /\ call'[k].before = call[k].before
         /\ \/ /\ call'[k].pc \in {"list", "drain", "thaw"} /\ call'[k].result = call[k].result
               /\ call[k].pc \in {"list", "confirm", "drain"}
            \/ call[k].pc = "final" /\ call'[k].pc = "over" /\ call'[k].result = "err"
<1>1. ASSUME NEW c \in {"drain", "over", "thaw"}
      PROVE  /\ To(k, c) \in Calls /\ To(k, c).pc = c /\ To(k, c).reading = FALSE
             /\ To(k, c).froze = call[k].froze /\ To(k, c).stuck = call[k].stuck
             /\ To(k, c).result = call[k].result /\ To(k, c).before = call[k].before
  <2>1. c \in {"idle", "list", "confirm", "drain", "thaw", "final", "over"}
    OBVIOUS
  <2> QED
    BY <2>1, ToIs
<1>2. CASE call'[k] = [To(k, "drain") EXCEPT !.pins = {}] /\ call[k].pc \in {"list", "confirm"}
  BY <1>1, <1>2 DEF Calls, ReadFails, ChecksDrain
<1>3. CASE call'[k] = NextPass(k) /\ call[k].pc = "drain"
  BY <1>3, NextPassIs DEF ReadFails, ChecksDrain
<1>4. CASE call'[k] = [To(k, "over") EXCEPT !.result = "err"] /\ call[k].pc = "final"
  BY <1>1, <1>4 DEF Calls, ReadFails, ChecksDrain
<1>5. CASE call'[k] = To(k, "thaw") /\ call[k].pc = "drain"
  BY <1>1, <1>5 DEF ReadFails, ChecksDrain
<1> QED
  BY <1>2, <1>3, <1>4, <1>5, GoesIs DEF ReadFails, ChecksDrain, HasRead

LEMMA PinsMakes ==
  ASSUME TypeOK, NEW k \in Callers, Pins(k)
  PROVE  /\ UNCHANGED <<st, frozen, hit>> /\ ~call'[k].reading /\ Keeps(k)
         /\ call[k].pc = "list" /\ call'[k].pc \in {"drain", "confirm"}
         /\ call'[k].pins \subseteq {p \in Procs : Exists(p)}
<1>1. ASSUME NEW c \in {"drain", "confirm"}
      PROVE  /\ To(k, c) \in Calls /\ To(k, c).pc = c /\ To(k, c).reading = FALSE
             /\ To(k, c).froze = call[k].froze /\ To(k, c).stuck = call[k].stuck
             /\ To(k, c).result = call[k].result /\ To(k, c).before = call[k].before
  <2>1. c \in {"idle", "list", "confirm", "drain", "thaw", "final", "over"}
    OBVIOUS
  <2> QED
    BY <2>1, ToIs
<1>2. UNION {Holders(n) : n \in call[k].seen} \subseteq {p \in Procs : Exists(p)}
  BY DEF Holders
<1>3. PICK P \in SUBSET {p \in Procs : Exists(p)} :
        Goes(k, [To(k, IF P = {} THEN "drain" ELSE "confirm") EXCEPT !.pins = P])
  BY <1>2 DEF Pins
<1>4. call'[k] = [To(k, IF P = {} THEN "drain" ELSE "confirm") EXCEPT !.pins = P]
  BY <1>3, GoesIs
<1> QED
  BY <1>1, <1>4 DEF Calls, Keeps, Pins, HasRead

LEMMA DeliversMakes ==
  ASSUME TypeOK, NEW k \in Callers, Delivers(k)
  PROVE  /\ UNCHANGED frozen /\ ~call'[k].reading /\ Keeps(k)
         /\ call[k].pc = "confirm" /\ call[k].reading /\ call'[k].pc = "drain"
         /\ st' = Killed(Confirmed(k)) /\ hit' = hit \cup {p \in Confirmed(k) : Runs(p)}
<1>1. /\ To(k, "drain") \in Calls /\ To(k, "drain").pc = "drain" /\ ~To(k, "drain").reading
      /\ To(k, "drain").froze = call[k].froze /\ To(k, "drain").stuck = call[k].stuck
      /\ To(k, "drain").result = call[k].result /\ To(k, "drain").before = call[k].before
  BY ToIs
<1>2. call'[k] = [To(k, "drain") EXCEPT !.pins = {}]
  BY GoesIs DEF Delivers
<1> QED
  BY <1>1, <1>2 DEF Calls, Keeps, Delivers, HasRead

LEMMA ThawsMakes ==
  ASSUME TypeOK, NEW k \in Callers, Thaws(k)
  PROVE  /\ UNCHANGED <<st, hit>> /\ ~call'[k].reading
         /\ call[k].pc = "thaw" /\ call'[k].pc = "final"
         /\ call'[k].result = call[k].result /\ call'[k].before = call[k].before
         /\ \/ ~frozen'
            \/ UNCHANGED frozen /\ (frozen /\ call[k].froze => call'[k].stuck)
<1>1. /\ To(k, "final") \in Calls /\ To(k, "final").pc = "final" /\ ~To(k, "final").reading
      /\ To(k, "final").result = call[k].result /\ To(k, "final").before = call[k].before
  BY ToIs
<1>2. CASE frozen' = FALSE /\ Goes(k, To(k, "final"))
  BY <1>1, <1>2, GoesIs DEF Thaws
<1>3. ASSUME NEW s \in {frozen, call[k].froze}, UNCHANGED frozen,
             Goes(k, [To(k, "final") EXCEPT !.stuck = s])
      PROVE  /\ ~call'[k].reading /\ call'[k].pc = "final" /\ call'[k].stuck = s
             /\ call'[k].result = call[k].result /\ call'[k].before = call[k].before
  <2>1. call'[k] = [To(k, "final") EXCEPT !.stuck = s]
    BY <1>3, GoesIs
  <2> QED
    BY <1>1, <2>1 DEF Calls
<1> QED
  BY <1>2, <1>3 DEF Thaws

LEMMA AnswersMakes ==
  ASSUME TypeOK, NEW k \in Callers, Answers(k)
  PROVE  /\ UNCHANGED <<st, frozen, hit>> /\ ~call'[k].reading
         /\ HasRead(k, "final") /\ call'[k].pc = "over" /\ call'[k].result = Verdict(k)
         /\ call'[k].before = call[k].before
<1>1. /\ To(k, "over") \in Calls /\ To(k, "over").pc = "over" /\ ~To(k, "over").reading
      /\ To(k, "over").before = call[k].before
  BY ToIs
<1>2. call'[k] = [To(k, "over") EXCEPT !.result = Verdict(k)]
  BY GoesIs DEF Answers
<1> QED
  BY <1>1, <1>2 DEF Calls, Answers

\* A number that a directory lists, held by a process, is a member's.
LEMMA ListedIsMember ==
  ASSUME TypeOK, KernelInv, NEW d \in Dirs, NEW p \in Procs, Exists(p), pid[p] \in Listed(d)
  PROVE  p \in In(d) /\ p \in ever
<1>1. PICK q \in In(d) : pid[q] = pid[p]
  BY DEF Listed
<1>2. q \in Procs /\ Exists(q) /\ cg[q] = d
  BY <1>1 DEF In, Runs, Exists
<1> QED
  BY <1>1, <1>2, CgroupAssumption DEF KernelInv, Dirs, Procs

\* Only confirmed members are signalled.
LEMMA HitStep == ASSUME TypeOK, KernelInv, HitInv, [Next]_vars PROVE HitInv'
<1> DEFINE Confirming(k) ==
      call[k].pc = "confirm" =>
        \A p \in call[k].pins :
          /\ st[p] # "none"
          /\ call[k].reading /\ Runs(p) /\ pid[p] \in call[k].seen => p \in ever
<1>1. /\ \A x \in Procs : Ages(x)
      /\ \A k \in Callers : call[k].pins \subseteq Procs
      /\ hit \subseteq Procs
  BY AgesStep DEF TypeOK, Calls
<1>2. CASE UNCHANGED <<call, hit>>
  BY <1>1, <1>2 DEF HitInv, Ages
<1>3. ASSUME NEW a \in Adoptions, Moves(a) PROVE HitInv'
  <2>1. /\ UNCHANGED <<st, pid, hit>>
        /\ \A k \in Callers : /\ call'[k].pc = call[k].pc /\ call'[k].reading = call[k].reading
                              /\ call'[k].seen = call[k].seen /\ call'[k].pins = call[k].pins
    BY <1>3, MovesIs, AdoptFrame DEF Adopting
  <2> QED
    BY <1>1, <2>1 DEF HitInv, Ages, Runs
<1>4. ASSUME NEW k \in Callers, Sweeping(k) PROVE HitInv'
  <2>1. /\ UNCHANGED <<pid, ever, cg>>
        /\ \A m \in Callers \ {k} : call'[m] = call[m]
    BY <1>4, SweepFrame, SweepGoes
  <2>2. \A m \in Callers \ {k} : Confirming(m)'
    BY <1>1, <2>1 DEF HitInv, Ages
  <2>3. CASE call'[k].pc # "confirm" /\ UNCHANGED hit
    BY <2>1, <2>2, <2>3 DEF HitInv
  <2>4. CASE Starts(k)
    BY <2>3, <2>4, StartsMakes
  <2>5. CASE ReadFails(k) \/ ChecksDrain(k)
    BY <2>3, <2>5, LeavesMakes
  <2>6. CASE Thaws(k)
    BY <2>3, <2>6, ThawsMakes
  <2>7. CASE Answers(k)
    BY <2>3, <2>7, AnswersMakes
  <2>8. CASE Reads(k)
    <3>1. /\ UNCHANGED <<st, hit>>
          /\ call'[k].pc = call[k].pc /\ call'[k].pins = call[k].pins
          /\ call'[k].seen = Listed("job")
      BY <2>8, ReadsMakes
    <3>2. \A p \in Procs : Runs(p) /\ pid[p] \in Listed("job") => p \in ever
      BY ListedIsMember DEF Dirs, Runs, Exists
    <3>3. Confirming(k)'
      BY <1>1, <2>1, <3>1, <3>2 DEF HitInv, Runs
    <3> QED
      BY <2>1, <2>2, <3>1, <3>3 DEF HitInv
  <2>9. ASSUME NEW l \in Launches, ReadsLeaf(k, l) PROVE HitInv'
    <3>1. /\ UNCHANGED <<st, hit>> /\ call[k].reading
          /\ call'[k].pc = call[k].pc /\ call'[k].pins = call[k].pins
          /\ call'[k].seen = call[k].seen \cup Listed(l)
      BY <2>9, ReadsLeafMakes
    <3>2. \A p \in Procs : Runs(p) /\ pid[p] \in Listed(l) => p \in ever
      BY ListedIsMember DEF Dirs, Runs, Exists
    <3>3. Confirming(k)'
      BY <1>1, <2>1, <3>1, <3>2 DEF HitInv, Runs
    <3> QED
      BY <2>1, <2>2, <3>1, <3>3 DEF HitInv
  <2>10. CASE Pins(k)
    <3>1. /\ UNCHANGED <<st, hit>> /\ ~call'[k].reading
          /\ call'[k].pins \subseteq {p \in Procs : Exists(p)}
      BY <2>10, PinsMakes
    <3>2. Confirming(k)'
      BY <3>1 DEF Exists
    <3> QED
      BY <2>1, <2>2, <3>1, <3>2 DEF HitInv
  <2>11. CASE Delivers(k)
    <3>1. /\ call'[k].pc = "drain" /\ call[k].pc = "confirm" /\ call[k].reading
          /\ hit' = hit \cup {p \in Confirmed(k) : Runs(p)}
      BY <2>11, DeliversMakes
    <3>2. hit' \subseteq ever
      BY <3>1 DEF HitInv, Confirmed
    <3> QED
      BY <2>1, <2>2, <3>1, <3>2 DEF HitInv
  <2> QED
    BY <1>4, <2>4, <2>5, <2>6, <2>7, <2>8, <2>9, <2>10, <2>11 DEF Sweeping
<1>5. ASSUME NEW a \in Adoptions, Adopting(a) PROVE HitInv'
  BY <1>2, <1>3, <1>5, AdoptFrame
<1> QED
  BY <1>2, <1>4, <1>5, StepsByActor, LivingFrame, DropFrame, LaunchFrame DEF vars

\* Who has frozen the job is to thaw it, or says so.
LEMMA FreezeStep == ASSUME TypeOK, SweepInv, FreezeInv, [Next]_vars PROVE FreezeInv'
<1> DEFINE Answering(k) == \/ call[k].pc \in {"list", "confirm", "drain", "thaw"} /\ call[k].froze
                           \/ call[k].pc = "final" /\ call[k].stuck
                           \/ call[k].pc = "over" /\ call[k].result = "err"
<1>1. CASE UNCHANGED <<frozen, call>>
  BY <1>1 DEF FreezeInv
<1>2. ASSUME NEW a \in Adoptions, Moves(a) PROVE FreezeInv'
  BY <1>2, MovesIs, AdoptFrame DEF FreezeInv, Adopting
<1>3. ASSUME NEW k \in Callers, Sweeping(k) PROVE FreezeInv'
  <2>1. \A m \in Callers \ {k} : call'[m] = call[m]
    BY <1>3, SweepGoes
  <2>2. CASE UNCHANGED frozen /\ (frozen /\ Answering(k) => Answering(k)')
    <3>1. \A m \in Callers : frozen /\ Answering(m) => Answering(m)'
      BY <2>1, <2>2
    <3>2. frozen => \E m \in Callers : Answering(m)
      BY Zenon DEF FreezeInv
    <3>3. frozen' => \E m \in Callers : Answering(m)'
      BY <2>2, <3>1, <3>2
    <3> QED
      BY <3>3, Zenon DEF FreezeInv
  <2>3. CASE Starts(k)
    <3>1. call[k].pc = "idle"
      BY <2>3, StartsMakes
    <3>2. CASE UNCHANGED frozen
      BY <2>1, <3>1, <3>2 DEF FreezeInv
    <3>3. CASE frozen' = (frozen \/ call'[k].froze) /\ call'[k].pc = "list"
      BY <2>1, <3>1, <3>3 DEF FreezeInv
    <3> QED
      BY <2>3, <3>2, <3>3, StartsMakes
  <2>4. CASE Reads(k)
    BY <2>2, <2>4, ReadsMakes DEF Keeps
  <2>5. ASSUME NEW l \in Launches, ReadsLeaf(k, l) PROVE FreezeInv'
    BY <2>2, <2>5, ReadsLeafMakes DEF Keeps
  <2>6. CASE ReadFails(k) \/ ChecksDrain(k)
    BY <2>2, <2>6, LeavesMakes
  <2>7. CASE Pins(k)
    BY <2>2, <2>7, PinsMakes DEF Keeps
  <2>8. CASE Delivers(k)
    BY <2>2, <2>8, DeliversMakes DEF Keeps
  <2>9. CASE Thaws(k)
    <3>1. CASE ~frozen'
      BY <3>1 DEF FreezeInv
    <3> QED
      BY <2>2, <2>9, <3>1, ThawsMakes
  <2>10. CASE Answers(k)
    BY <2>2, <2>10, AnswersMakes DEF Verdict, HasRead
  <2> QED
    BY <1>3, <2>3, <2>4, <2>5, <2>6, <2>7, <2>8, <2>9, <2>10 DEF Sweeping
<1>4. ASSUME NEW a \in Adoptions, Adopting(a) PROVE FreezeInv'
  BY <1>1, <1>2, <1>4, AdoptFrame
<1> QED
  BY <1>1, <1>3, <1>4, StepsByActor, LivingFrame, DropFrame, LaunchFrame DEF vars


\* A signal changes neither who runs nor who exists.
LEMMA KilledKeeps ==
  ASSUME TypeOK, NEW P, UNCHANGED st \/ st' = Killed(P)
  PROVE  \A p \in Procs : /\ Exists(p)' <=> Exists(p)
                          /\ Runs(p)' <=> Runs(p)
                          /\ st'[p] = "none" <=> st[p] = "none"
                          /\ st'[p] = "alive" => st[p] = "alive"
  BY KilledIs DEF Exists, Runs

LEMMA SweepKeeps ==
  ASSUME TypeOK, NEW k \in Callers, Sweeping(k)
  PROVE  \A p \in Procs : /\ Exists(p)' <=> Exists(p)
                          /\ Runs(p)' <=> Runs(p)
                          /\ st'[p] = "none" <=> st[p] = "none"
                          /\ st'[p] = "alive" => st[p] = "alive"
<1>1. UNCHANGED st \/ \E P : st' = Killed(P)
  BY StartsMakes, ReadsMakes, ReadsLeafMakes, LeavesMakes, PinsMakes, DeliversMakes, ThawsMakes,
     AnswersMakes DEF Sweeping
<1> QED
  BY <1>1, KilledKeeps

\* Who is in a directory after a step that only ages processes was there, or is
\* the child of one that runs there.
LEMMA LivingKeeps ==
  ASSUME TypeOK, KernelInv, Living
  PROVE  /\ \A l \in Launches : st'[l] = "none" <=> st[l] = "none"
         /\ \A l \in Launches : Exists(l) /\ launch[l] \notin {"ok", "undone"} => Exists(l)'
         /\ \A d \in Dirs : In(d)' # {} => In(d) # {}
         /\ \A d \in Dirs : (\E p \in Procs : cg'[p] = d) => \E p \in Procs : cg[p] = d
         /\ \A d \in Dirs : (\E p \in Procs : cg'[p] = d /\ st'[p] = "alive")
                              => \E p \in Procs : cg[p] = d /\ st[p] = "alive"
<1> DEFINE Goal ==
      /\ \A l \in Launches : st'[l] = "none" <=> st[l] = "none"
      /\ \A l \in Launches : Exists(l) /\ launch[l] \notin {"ok", "undone"} => Exists(l)'
      /\ \A d \in Dirs : In(d)' # {} => In(d) # {}
      /\ \A d \in Dirs : (\E p \in Procs : cg'[p] = d) => \E p \in Procs : cg[p] = d
      /\ \A d \in Dirs : (\E p \in Procs : cg'[p] = d /\ st'[p] = "alive")
                           => \E p \in Procs : cg[p] = d /\ st[p] = "alive"
<1> USE CgroupAssumption DEF TypeOK, KernelInv, In, Runs, Exists, Procs, Dirs
<1>1. ASSUME NEW q \in Others, Stranger(q) PROVE Goal
  BY <1>1 DEF Stranger, Born, Free
<1>2. ASSUME NEW p \in Procs, NEW q \in Others, Forks(p, q) PROVE Goal
  BY <1>2 DEF Forks, Born, Free, Stopped
<1>3. ASSUME NEW p \in Procs, Exits(p) PROVE Goal
  BY <1>3 DEF Exits
<1>4. ASSUME NEW p \in Procs, Reaped(p) PROVE Goal
  BY <1>4 DEF Reaped
<1> QED
  BY <1>1, <1>2, <1>3, <1>4 DEF Living

\* An adoption moves processes into the job's own directory, or out of the job.
LEMMA AdoptKeeps ==
  ASSUME TypeOK, NEW a \in Adoptions, Adopting(a)
  PROVE  \A p \in Procs : cg'[p] \in {cg[p], "job", "out"}
<1>1. CASE Moves(a)
  BY <1>1, MovesIs DEF TypeOK
<1>2. CASE Evicts(a)
  BY <1>2 DEF Evicts, TypeOK
<1>3. CASE Anchors(a) \/ Rereads(a) \/ Looks(a)
  BY <1>3 DEF Anchors, Rereads, Looks
<1> QED
  BY <1>1, <1>2, <1>3 DEF Adopting


\* The claim of a launching child's leaf stays its own.
LEMMA LaunchStep ==
  ASSUME TypeOK, KernelInv, LaunchInv, RegInv, [Next]_vars PROVE LaunchInv'
<1> DEFINE Goal == LaunchInv'
<1> USE CgroupAssumption
<1>1. CASE Living
  <2>1. UNCHANGED <<treeVars, launchVars>>
    BY <1>1, LivingFrame
  <2>2. /\ \A l \in Launches : st'[l] = "none" <=> st[l] = "none"
        /\ \A l \in Launches : Exists(l) /\ launch[l] \notin {"ok", "undone"} => Exists(l)'
        /\ \A l \in Launches : In(l)' # {} => In(l) # {}
        /\ \A l \in Launches : (\E p \in Procs : cg'[p] = l) => \E p \in Procs : cg[p] = l
    BY <1>1, LivingKeeps DEF Dirs
  <2>3. \A l \in Launches : st[l] # "none" => pid'[l] = pid[l]
    BY AgesStep DEF Ages, Procs
  <2>4. \A l \in Launches : Exists(l) => st[l] # "none"
    BY DEF Exists
  <2> QED
    BY <2>1, <2>2, <2>3, <2>4 DEF LaunchInv, treeVars, launchVars
<1>2. ASSUME NEW k \in Callers, Sweeping(k) PROVE Goal
  <2>1. UNCHANGED <<pid, cg, treeVars, launchVars>>
    BY <1>2, SweepFrame
  <2>2. \A p \in Procs : /\ Exists(p)' <=> Exists(p)
                         /\ Runs(p)' <=> Runs(p)
                         /\ st'[p] = "none" <=> st[p] = "none"
    BY <1>2, SweepKeeps
  <2>3. \A l \in Launches : In(l)' = In(l)
    BY <2>1, <2>2 DEF In
  <2> QED
    BY <2>1, <2>2, <2>3 DEF LaunchInv, treeVars, launchVars, Procs
<1>3. ASSUME NEW a \in Adoptions, Adopting(a) PROVE Goal
  <2>1. UNCHANGED <<st, pid, treeVars, launchVars>>
    BY <1>3, AdoptFrame
  <2>2. \A p \in Procs : cg'[p] \in {cg[p], "job", "out"}
    BY <1>3, AdoptKeeps
  <2>3. \A l \in Launches, p \in Procs : cg'[p] = l => cg[p] = l
    BY <2>2 DEF Procs
  <2>4. \A l \in Launches : In(l)' \subseteq In(l)
    BY <2>1, <2>3 DEF In, Runs
  <2> QED
    BY <2>1, <2>3, <2>4 DEF LaunchInv, treeVars, launchVars, Exists
<1>4. CASE Dropping \/ UNCHANGED vars
  <2>1. UNCHANGED <<kernelVars, claim, launchVars>>
    BY <1>4, DropFrame DEF vars, treeVars
  <2> QED
    BY <2>1 DEF LaunchInv, kernelVars, launchVars, In, Runs, Exists
<1> USE DEF TypeOK, KernelInv, LaunchInv, RegInv, Settled, Procs, Dirs, In, Runs, Exists,
            launchVars, treeVars, kernelVars
<1>5. ASSUME NEW m \in Launches, OpenLeaf(m) PROVE Goal
  BY <1>5 DEF OpenLeaf
<1>6. ASSUME NEW m \in Launches, Spawned(m) PROVE Goal
  BY <1>6 DEF Spawned, Born, Free
<1>7. ASSUME NEW m \in Launches, SpawnFails(m) PROVE Goal
  BY <1>7 DEF SpawnFails
<1>8. ASSUME NEW m \in Launches, Commits(m) PROVE Goal
  BY <1>8 DEF Commits, Register, Claimed
<1>9. ASSUME NEW m \in Launches, SlotDropped(m) PROVE Goal
  BY <1>9 DEF SlotDropped, Register, Claimed
<1>10. ASSUME NEW m \in Launches, Arms(m) PROVE Goal
  BY <1>10 DEF Arms
<1>11. ASSUME NEW m \in Launches, Succeeds(m) PROVE Goal
  BY <1>11 DEF Succeeds
<1>12. ASSUME NEW m \in Launches, RollsBack(m) PROVE Goal
  BY <1>12 DEF RollsBack
<1>13. ASSUME NEW m \in Launches, RollbackKills(m) PROVE Goal
  BY <1>13 DEF RollbackKills, Killed
<1>14. ASSUME NEW m \in Launches, Undone(m) PROVE Goal
  BY <1>14 DEF Undone, Killed
<1> QED
  BY <1>1, <1>2, <1>3, <1>4, <1>5, <1>6, <1>7, <1>8, <1>9, <1>10, <1>11, <1>12, <1>13, <1>14,
     StepsByActor DEF Launching

\* A process in a leaf keeps the leaf, and the registry.
LEMMA RegStep ==
  ASSUME TypeOK, KernelInv, LaunchInv, RegInv, [Next]_vars PROVE RegInv'
<1> DEFINE Goal == RegInv'
<1> USE CgroupAssumption
<1>1. CASE Living
  <2>1. UNCHANGED <<treeVars, launchVars>>
    BY <1>1, LivingFrame
  <2>2. \A l \in Launches : In(l)' # {} => In(l) # {}
    BY <1>1, LivingKeeps DEF Dirs
  <2> QED
    BY <2>1, <2>2 DEF RegInv, treeVars, launchVars, Settled
<1>2. ASSUME NEW k \in Callers, Sweeping(k) PROVE Goal
  <2>1. UNCHANGED <<pid, cg, treeVars, launchVars>>
    BY <1>2, SweepFrame
  <2>2. \A p \in Procs : Runs(p)' <=> Runs(p)
    BY <1>2, SweepKeeps
  <2>3. \A l \in Launches : In(l)' = In(l)
    BY <2>1, <2>2 DEF In
  <2> QED
    BY <2>1, <2>3 DEF RegInv, treeVars, launchVars, Settled
<1>3. ASSUME NEW a \in Adoptions, Adopting(a) PROVE Goal
  <2>1. UNCHANGED <<st, pid, treeVars, launchVars>>
    BY <1>3, AdoptFrame
  <2>2. \A l \in Launches, p \in Procs : cg'[p] = l => cg[p] = l
    BY <1>3, AdoptKeeps DEF Procs
  <2>3. \A l \in Launches : In(l)' \subseteq In(l)
    BY <2>1, <2>2 DEF In, Runs
  <2> QED
    BY <2>1, <2>3 DEF RegInv, treeVars, launchVars, Settled
<1> USE DEF TypeOK, KernelInv, LaunchInv, RegInv, Settled, Procs, Dirs, In, Runs, Exists,
            launchVars, treeVars, kernelVars
<1>4. ASSUME NEW m \in Launches, OpenLeaf(m) PROVE Goal
  BY <1>4 DEF OpenLeaf
<1>5. ASSUME NEW m \in Launches, Spawned(m) PROVE Goal
  BY <1>5 DEF Spawned, Born, Free
<1>6. ASSUME NEW m \in Launches, SpawnFails(m) PROVE Goal
  BY <1>6 DEF SpawnFails
<1>7. ASSUME NEW m \in Launches, Commits(m) PROVE Goal
  BY <1>7 DEF Commits, Register, Released, Empties
<1>8. ASSUME NEW m \in Launches, SlotDropped(m) PROVE Goal
  BY <1>8 DEF SlotDropped, Register, Released, Empties
<1>9. ASSUME NEW m \in Launches, Arms(m) PROVE Goal
  BY <1>9 DEF Arms
<1>10. ASSUME NEW m \in Launches, Succeeds(m) PROVE Goal
  BY <1>10 DEF Succeeds
<1>11. ASSUME NEW m \in Launches, RollsBack(m) PROVE Goal
  BY <1>11 DEF RollsBack
<1>12. ASSUME NEW m \in Launches, RollbackKills(m) PROVE Goal
  BY <1>12, KilledKeeps DEF RollbackKills, Released, Empties
<1>13. ASSUME NEW m \in Launches, Undone(m) PROVE Goal
  <2>1. /\ launch' = [launch EXCEPT ![m] = "undone"] /\ launch[m] = "undo"
        /\ UNCHANGED <<dirs, live, slot, cg>> /\ st' = Killed({m})
    BY <1>13 DEF Undone
  <2>2. \A p \in Procs : Runs(p)' <=> Runs(p)
    BY <2>1, KilledIs
  <2>3. \A l \in Launches : Settled(l)' <=> Settled(l)
    BY <2>1
  <2> HIDE DEF TypeOK, KernelInv, LaunchInv, Settled, Runs, Exists
  <2>4. \A l \in Launches : In(l)' = In(l)
    BY <2>1, <2>2
  <2> HIDE DEF In
  <2> QED
    BY <2>1, <2>3, <2>4
<1>14. CASE DropStarts \/ OtherEnqueues
  BY <1>14 DEF DropStarts, OtherEnqueues, Unchanged4Drop
<1>15. CASE DropReclaims
  BY <1>15 DEF DropReclaims, Released, Empties, Unchanged4Drop
<1>16. CASE DropRemoves
  BY <1>16 DEF DropRemoves, Removable, Unchanged4Drop
<1>17. CASE ReclaimPass
  BY <1>17 DEF ReclaimPass, Empties, Unchanged4Drop
<1>18. CASE UNCHANGED vars
  BY <1>18 DEF vars
<1> QED
  BY <1>1, <1>2, <1>3, <1>4, <1>5, <1>6, <1>7, <1>8, <1>9, <1>10, <1>11, <1>12, <1>13, <1>14,
     <1>15, <1>16, <1>17, <1>18, StepsByActor DEF Launching, Dropping

\* What a rollback has killed stays as it is: nobody comes back, and the dead do
\* not fork.
LEMMA RollStep ==
  ASSUME TypeOK, KernelInv, LaunchInv, RegInv, RollInv, [Next]_vars PROVE RollInv'
<1> DEFINE Swept(l) == had[l] /\ launch[l] \in {"undo", "undone"} =>
                         /\ \A p \in rolled[l] : of[p] = l
                         /\ scene.kill => \A p \in Procs : of[p] = l /\ cg[p] = l => st[p] # "alive"
           RolledBorn(l) == \A p \in rolled[l] : st[p] # "none"
<1> USE CgroupAssumption
<1>1. /\ \A x \in Procs : Ages(x)
      /\ \A l \in Launches : rolled[l] \subseteq Procs
  BY AgesStep DEF TypeOK
<1>2. CASE Living
  <2>1. UNCHANGED <<scene, launchVars>>
    BY <1>2, LivingFrame
  <2>2. \A l \in Launches : (\E p \in Procs : cg'[p] = l /\ st'[p] = "alive")
                              => \E p \in Procs : cg[p] = l /\ st[p] = "alive"
    BY <1>2, LivingKeeps DEF Dirs
  <2>3. \A l \in Launches, p \in Procs : cg[p] = l => of[p] = l
    BY DEF KernelInv
  <2> QED
    BY <1>1, <2>1, <2>2, <2>3 DEF RollInv, RollbackHitsItsSpawn, launchVars, Ages
<1>3. ASSUME UNCHANGED <<scene, launchVars, of>>,
             \A p \in Procs : st'[p] = "alive" => st[p] = "alive",
             \A l \in Launches, p \in Procs : cg'[p] = l => cg[p] = l
      PROVE  RollInv'
  BY <1>1, <1>3 DEF RollInv, RollbackHitsItsSpawn, launchVars, Ages
<1>4. ASSUME NEW k \in Callers, Sweeping(k) PROVE RollInv'
  BY <1>3, <1>4, SweepFrame, SweepKeeps
<1>5. ASSUME NEW a \in Adoptions, Adopting(a) PROVE RollInv'
  <2>1. \A l \in Launches, p \in Procs : cg'[p] = l => cg[p] = l
    BY <1>5, AdoptKeeps DEF Procs
  <2> QED
    BY <1>3, <1>5, <2>1, AdoptFrame
<1>6. CASE Dropping \/ UNCHANGED vars
  BY <1>3, <1>6, DropFrame DEF vars, kernelVars
<1>7. ASSUME NEW m \in Launches, Launching(m), ~RollbackKills(m), ~Spawned(m) PROVE RollInv'
  <2>1. /\ UNCHANGED <<scene, of, cg, had, rolled>>
        /\ \A l \in Launches : launch'[l] \in {"undo", "undone"} => launch[l] \in {"undo", "undone"}
    BY <1>7, LaunchFrame DEF Launching, OpenLeaf, SpawnFails, Commits, SlotDropped, Arms, Succeeds,
                             RollsBack, Undone, kernelVars, TypeOK
  <2>2. \A p \in Procs : st'[p] = "alive" => st[p] = "alive"
    BY <1>7, KilledIs DEF Launching, OpenLeaf, SpawnFails, Commits, SlotDropped, Arms, Succeeds,
                          RollsBack, Undone, kernelVars
  <2> QED
    BY <1>1, <2>1, <2>2 DEF RollInv, RollbackHitsItsSpawn, Ages
<1>8. ASSUME NEW m \in Launches, Spawned(m) PROVE RollInv'
  <2>1. /\ launch[m] = "open" /\ launch'[m] \in {"forked", "failing"} /\ st[m] = "none"
        /\ \A l \in Launches \ {m} : launch'[l] = launch[l] /\ had'[l] = had[l]
        /\ UNCHANGED <<scene, rolled>>
        /\ \A p \in Procs \ {m} : st'[p] = st[p] /\ cg'[p] = cg[p] /\ of'[p] = of[p]
        /\ of'[m] = m
    BY <1>8 DEF Spawned, Born, Unchanged4Launch, TypeOK, Procs
  <2> QED
    BY <1>1, <2>1 DEF RollInv, RollbackHitsItsSpawn, Ages
<1>9. ASSUME NEW m \in Launches, RollbackKills(m) PROVE RollInv'
  <2>1. /\ UNCHANGED <<scene, of, cg, had>> /\ launch[m] = "aimed"
        /\ \A l \in Launches \ {m} : launch'[l] = launch[l] /\ rolled'[l] = rolled[l]
        /\ launch'[m] = "undo"
    BY <1>9 DEF RollbackKills, Unchanged4Launch, TypeOK
  <2>2. \A l \in Launches \ {m} : Swept(l)' /\ RolledBorn(l)'
    <3>1. \A p \in Procs : st'[p] = "alive" => st[p] = "alive"
      BY <1>9, KilledIs DEF RollbackKills
    <3> QED
      BY <1>1, <2>1, <3>1 DEF RollInv, RollbackHitsItsSpawn, Ages
  <2>3. CASE aim[m] \in dirs /\ scene.kill
    <3>1. /\ st' = Killed(In(aim[m]))
          /\ rolled'[m] = {p \in In(aim[m]) : st[p] = "alive"}
      BY <1>9, <2>3 DEF RollbackKills, TypeOK
    <3>2. RolledBorn(m)'
      BY <1>1, <3>1 DEF Ages, In
    <3>3. had[m] => aim[m] = m
      BY <2>1, <2>3 DEF LaunchInv, TypeOK, Dirs, None, Procs
    <3>4. Swept(m)'
      BY <2>1, <3>1, <3>3, KilledIs DEF In, Runs, KernelInv
    <3> QED
      BY <2>2, <3>2, <3>4 DEF RollInv, RollbackHitsItsSpawn
  <2>4. CASE ~(aim[m] \in dirs /\ scene.kill)
    <3>1. PICK P \in SUBSET {p \in Procs : of[p] = m} :
            st' = Killed(P) /\ rolled'[m] = {p \in P : st[p] = "alive"}
      BY <1>9, <2>4 DEF RollbackKills, TypeOK
    <3>2. RolledBorn(m)'
      BY <1>1, <3>1 DEF Ages
    <3>3. had[m] /\ scene.kill => In(m) = {}
      BY <2>1, <2>4 DEF LaunchInv, RegInv
    <3>4. Swept(m)'
      BY <2>1, <3>1, <3>3, KilledIs DEF In, Runs
    <3> QED
      BY <2>2, <3>2, <3>4 DEF RollInv, RollbackHitsItsSpawn
  <2> QED
    BY <2>3, <2>4
<1> QED
  BY <1>2, <1>4, <1>5, <1>6, <1>7, <1>8, <1>9, StepsByActor

\* A launch that is settled stays settled, and nobody who was born changes the
\* directory but by an adoption.
LEMMA SettledStays ==
  ASSUME TypeOK, [Next]_vars
  PROVE  /\ \A l \in Launches : Settled(l) => Settled(l)'
         /\ \/ \E a \in Adoptions : Adopting(a)
            \/ \A p \in Procs : st[p] # "none" => cg'[p] = cg[p]
<1>1. CASE Living
  BY <1>1, LivingFrame DEF Settled, launchVars, TypeOK, Living, Stranger, Forks, Exits, Reaped, Born
<1>2. ASSUME NEW m \in Launches, Launching(m)
      PROVE  /\ \A l \in Launches : Settled(l) => Settled(l)'
             /\ \A p \in Procs : st[p] # "none" => cg'[p] = cg[p]
  <2>1. \A l \in Launches : Settled(l) => Settled(l)'
    BY <1>2 DEF Settled, TypeOK, Launching, OpenLeaf, Spawned, SpawnFails, Commits, SlotDropped,
                Arms, Succeeds, RollsBack, RollbackKills, Undone
  <2>2. \A p \in Procs : st[p] # "none" => cg'[p] = cg[p]
    BY <1>2 DEF TypeOK, Launching, OpenLeaf, Spawned, SpawnFails, Commits, SlotDropped, Born,
                Arms, Succeeds, RollsBack, RollbackKills, Undone, kernelVars
  <2> QED
    BY <2>1, <2>2
<1>3. CASE (\E k \in Callers : Sweeping(k)) \/ Dropping \/ UNCHANGED vars
  BY <1>3, SweepFrame, DropFrame DEF vars, kernelVars, launchVars, Settled
<1>4. CASE \E a \in Adoptions : Adopting(a)
  BY <1>4, AdoptFrame DEF launchVars, Settled
<1> QED
  BY <1>1, <1>2, <1>3, <1>4, StepsByActor

\* A read misses nobody that is owed a kill.
LEMMA SweepStep ==
  ASSUME TypeOK, KernelInv, LaunchInv, RegInv, SweepInv, [Next]_vars PROVE SweepInv'
<1> USE DEF Settled
<1> DEFINE Safe(p)    == st[p] # "alive" \/ cg[p] = "out"
           Owes(k, p) == /\ st[p] # "none"
                         /\ cg[p] \in Launches => Settled(cg[p])
                         /\ call[k].result = "ok" => Safe(p)
                         /\ call[k].pc = "final" /\ call[k].reading =>
                              Safe(p) \/ pid[p] \in call[k].seen \/ cg[p] \in call[k].todo
           Sound(k)   == /\ call[k].result # "none" => call[k].pc = "over"
                         /\ \A p \in call[k].before : Owes(k, p)
<1>1. /\ \A x \in Procs : Ages(x)
      /\ \A l \in Launches : Settled(l) => Settled(l)'
      /\ \A k \in Callers : call[k].before \subseteq Procs
  BY AgesStep, SettledStays DEF TypeOK, Calls
<1>2. \A k \in Callers : Sound(k)
  BY DEF SweepInv
<1>3. SUFFICES \A k \in Callers : Sound(k)'
  BY DEF SweepInv
<1>4. ASSUME \A p \in Procs : st[p] # "none" => cg'[p] \in {cg[p], "out"},
             NEW k \in Callers, call'[k] = call[k]
      PROVE  Sound(k)'
  <2>1. ASSUME NEW p \in call[k].before PROVE Owes(k, p)'
    <3>1. /\ p \in Procs /\ Owes(k, p) /\ Ages(p) /\ cg'[p] \in {cg[p], "out"}
      BY <1>1, <1>2, <1>4, <2>1
    <3>2. Safe(p) => Safe(p)'
      BY <3>1 DEF Ages
    <3>3. cg'[p] \in Launches => Settled(cg[p])'
      BY <1>1, <3>1, CgroupAssumption DEF Procs
    <3> QED
      BY <1>4, <3>1, <3>2, <3>3 DEF Ages
  <2> QED
    BY <1>2, <1>4, <2>1
<1>5. CASE UNCHANGED call /\ \A p \in Procs : st[p] # "none" => cg'[p] \in {cg[p], "out"}
  BY <1>4, <1>5
<1>6. ASSUME NEW a \in Adoptions, Adopting(a) PROVE \A k \in Callers : Sound(k)'
  <2>1. CASE Moves(a)
    <3>1. CASE UNCHANGED <<cg, ever, call>>
      BY <1>4, <3>1
    <3>2. ASSUME NEW q \in Procs, cg' = [cg EXCEPT ![q] = "job"], NEW k \in Callers,
                 /\ call'[k].pc = call[k].pc /\ call'[k].reading = call[k].reading
                 /\ call'[k].todo = call[k].todo /\ call'[k].seen = call[k].seen
                 /\ call'[k].result = call[k].result
                 /\ call'[k].before = IF cg[q] = "job" THEN call[k].before
                                      ELSE call[k].before \ {q}
          PROVE  Sound(k)'
      <4>1. ASSUME NEW p \in call'[k].before PROVE Owes(k, p)'
        <5>1. p \in Procs /\ Owes(k, p) /\ Ages(p) /\ cg'[p] = cg[p]
          BY <1>1, <1>2, <3>2, <4>1 DEF TypeOK
        <5>2. UNCHANGED st
          BY <1>6, AdoptFrame
        <5>3. cg'[p] \in Launches => Settled(cg[p])'
          BY <1>1, <5>1
        <5> QED
          BY <3>2, <5>1, <5>2, <5>3 DEF Ages
      <4> QED
        BY <1>2, <3>2, <4>1
    <3> QED
      BY <2>1, <3>1, <3>2, MovesIs
  <2>2. CASE ~Moves(a)
    <3>1. /\ UNCHANGED call
          /\ \A p \in Procs : cg'[p] \in {cg[p], "out"}
      BY <1>6, <2>2, AdoptFrame DEF Adopting, Anchors, Rereads, Looks, Evicts, TypeOK
    <3> QED
      BY <1>5, <3>1
  <2> QED
    BY <2>1, <2>2
<1>7. ASSUME NEW k \in Callers, Sweeping(k) PROVE \A m \in Callers : Sound(m)'
  <2>1. UNCHANGED <<cg, pid, launchVars>> /\ \A m \in Callers \ {k} : call'[m] = call[m]
    BY <1>7, SweepFrame, SweepGoes
  <2>2. \A m \in Callers \ {k} : Sound(m)'
    BY <1>4, <2>1
  <2>3. \A p \in call[k].before :
          /\ p \in Procs /\ Owes(k, p) /\ st'[p] # "none"
          /\ cg'[p] \in Launches => Settled(cg[p])'
          /\ Safe(p) => Safe(p)'
    BY <1>1, <1>2, <2>1 DEF Ages
  <2>4. CASE /\ call'[k].before = call[k].before
             /\ call'[k].result = call[k].result /\ call[k].pc # "over"
             /\ ~call'[k].reading
    BY <1>2, <2>2, <2>3, <2>4
  <2>5. CASE Starts(k)
    <3>1. /\ Owed \subseteq Procs /\ call'[k].before = Owed
          /\ call[k].pc = "idle" /\ call'[k].pc # "final"
      BY <2>5, StartsMakes DEF Owed
    <3>2. ASSUME NEW p \in Owed
          PROVE  /\ st'[p] # "none"
                 /\ cg'[p] \in Launches => Settled(cg[p])'
                 /\ call'[k].result = "ok" => Safe(p)'
      <4>1. /\ p \in Procs /\ st[p] = "alive" /\ cg[p] # "out"
            /\ cg[p] \in Launches => Settled(cg[p])
        <5>1. p \in Procs /\ st[p] = "alive"
              /\ cg[p] \in {"job"} \cup {l \in Launches : launch[l] \notin {"forked", "failing"}}
          BY <3>2 DEF Owed
        <5>2. ASSUME cg[p] \in Launches PROVE launch[cg[p]] \notin {"idle", "open"}
          BY <5>1, <5>2 DEF LaunchInv
        <5> QED
          BY <5>1, <5>2, CgroupAssumption DEF Procs
      <4>2. st'[p] # "none" /\ (cg'[p] \in Launches => Settled(cg[p])')
        BY <1>1, <2>1, <4>1 DEF Ages
      <4>3. call'[k].result = "ok" => st' = Killed(Members)
        BY <1>2, <2>5, <3>1, StartsMakes
      <4>4. st' = Killed(Members) => st'[p] # "alive"
        BY <4>1, KilledIs DEF Members, Runs
      <4> QED
        BY <4>2, <4>3, <4>4
    <3>3. call'[k].result # "none" => call'[k].pc = "over"
      BY <1>2, <2>5, <3>1, StartsMakes
    <3> QED
      BY <2>2, <3>1, <3>2, <3>3
  <2>6. CASE Reads(k)
    <3>1. /\ call'[k].before = call[k].before /\ call'[k].result = call[k].result
          /\ call'[k].pc = call[k].pc /\ UNCHANGED st
          /\ call'[k].todo = live /\ call'[k].seen = Listed("job")
      BY <2>6, ReadsMakes DEF Keeps
    <3>2. ASSUME NEW p \in call[k].before, ~Safe(p)
          PROVE  pid[p] \in Listed("job") \/ cg[p] \in live
      <4>1. /\ p \in In(cg[p]) /\ cg[p] \in Dirs
            /\ cg[p] \in Launches => Settled(cg[p])
        BY <2>3, <3>2 DEF In, Runs, TypeOK
      <4>2. CASE cg[p] = "job"
        BY <4>1, <4>2, ListedIs
      <4>3. CASE cg[p] \in Launches
        BY <4>1, <4>3 DEF RegInv
      <4> QED
        BY <4>1, <4>2, <4>3 DEF Dirs
    <3> QED
      BY <1>2, <2>1, <2>2, <2>3, <3>1, <3>2
  <2>7. ASSUME NEW l \in Launches, ReadsLeaf(k, l) PROVE \A m \in Callers : Sound(m)'
    <3>1. /\ call'[k].before = call[k].before /\ call'[k].result = call[k].result
          /\ call'[k].pc = call[k].pc /\ UNCHANGED st /\ call[k].reading
          /\ call'[k].todo = call[k].todo \ {l} /\ call'[k].seen = call[k].seen \cup Listed(l)
      BY <2>7, ReadsLeafMakes DEF Keeps
    <3>2. ASSUME NEW p \in call[k].before, ~Safe(p), cg[p] = l PROVE pid[p] \in Listed(l)
      <4>1. p \in In(l)
        BY <2>3, <3>2 DEF In, Runs
      <4> QED
        BY <4>1, ListedIs
    <3> QED
      BY <1>2, <2>1, <2>2, <2>3, <3>1, <3>2
  <2>8. CASE ReadFails(k) \/ ChecksDrain(k)
    <3>1. CASE call'[k].result = call[k].result /\ call[k].pc \in {"list", "confirm", "drain"}
      BY <2>2, <2>4, <2>8, <3>1, LeavesMakes
    <3>2. CASE call'[k].result = "err" /\ call'[k].pc = "over"
      BY <2>2, <2>3, <2>8, <3>2, LeavesMakes
    <3> QED
      BY <2>8, <3>1, <3>2, LeavesMakes
  <2>9. CASE Pins(k)
    BY <2>2, <2>4, <2>9, PinsMakes DEF Keeps
  <2>10. CASE Delivers(k)
    BY <2>2, <2>4, <2>10, DeliversMakes DEF Keeps
  <2>11. CASE Thaws(k)
    BY <2>2, <2>4, <2>11, ThawsMakes
  <2>12. CASE Answers(k)
    <3>1. /\ call'[k].before = call[k].before /\ call'[k].pc = "over" /\ ~call'[k].reading
          /\ call[k].pc = "final" /\ call[k].reading /\ call[k].todo = {}
          /\ call'[k].result = "ok" => call[k].seen = {}
      BY <2>12, AnswersMakes DEF HasRead, Verdict
    <3> QED
      BY <2>2, <2>3, <3>1
  <2> QED
    BY <1>7, <2>5, <2>6, <2>7, <2>8, <2>9, <2>10, <2>11, <2>12 DEF Sweeping
<1>8. CASE Living \/ Dropping \/ UNCHANGED vars \/ \E l \in Launches : Launching(l)
  <2>1. UNCHANGED call
    BY <1>8, LivingFrame, DropFrame, LaunchFrame DEF vars
  <2>2. (\E a \in Adoptions : Adopting(a)) \/ \A p \in Procs : st[p] # "none" => cg'[p] = cg[p]
    BY SettledStays
  <2> QED
    BY <1>5, <1>6, <2>1, <2>2
<1> QED
  BY <1>6, <1>7, <1>8, StepsByActor

\* One fact for each step of an adoption: what it makes of it.
LEMMA StepsIs ==
  ASSUME TypeOK, NEW a \in Adoptions, NEW r, Steps(a, r)
  PROVE  adopt'[a] = r /\ \A b \in Adoptions \ {a} : adopt'[b] = adopt[b]
  BY DEF Steps, TypeOK

LEMMA AdoptedMakes ==
  ASSUME TypeOK, NEW a \in Adoptions,
         NEW r \in {"ok", "err", "notmember", "evicted", "stuck"}, Adopted(a, r)
  PROVE  /\ adopt'[a].pc = "over" /\ adopt'[a].result = r /\ adopt'[a].num = adopt[a].num
         /\ adopt'[a].named = adopt[a].named /\ adopt'[a].moved = adopt[a].moved
         /\ \A b \in Adoptions \ {a} : adopt'[b] = adopt[b]
<1>1. adopt[a] \in Adopts
  BY DEF TypeOK
<1>2. adopt'[a] = [adopt[a] EXCEPT !.pc = "over", !.result = r]
  BY StepsIs DEF Adopted
<1>3. \A b \in Adoptions \ {a} : adopt'[b] = adopt[b]
  BY StepsIs DEF Adopted
<1> QED
  BY <1>1, <1>2, <1>3 DEF Adopts

LEMMA AnchorsMakes ==
  ASSUME TypeOK, NEW a \in Adoptions, Anchors(a)
  PROVE  /\ UNCHANGED <<st, pid, cg>>
         /\ adopt[a].pc = "idle" /\ adopt'[a].pc = "anchored"
         /\ adopt'[a].moved = adopt[a].moved /\ adopt'[a].result = adopt[a].result
         /\ adopt'[a].named \in Procs /\ Exists(adopt'[a].named)
         /\ adopt'[a].num = pid[adopt'[a].named]
         /\ \A b \in Adoptions \ {a} : adopt'[b] = adopt[b]
<1>1. adopt[a] \in Adopts
  BY DEF TypeOK
<1>2. PICK p \in Procs :
        Exists(p) /\ Steps(a, [adopt[a] EXCEPT !.pc = "anchored", !.num = pid[p], !.named = p])
  BY DEF Anchors
<1>3. /\ adopt'[a] = [adopt[a] EXCEPT !.pc = "anchored", !.num = pid[p], !.named = p]
      /\ \A b \in Adoptions \ {a} : adopt'[b] = adopt[b]
  BY <1>2, StepsIs
<1> QED
  BY <1>1, <1>2, <1>3 DEF Adopts, Anchors, Unchanged4Adopt

LEMMA MovesMakes ==
  ASSUME TypeOK, NEW a \in Adoptions, Moves(a)
  PROVE  /\ UNCHANGED <<st, pid>> /\ adopt[a].pc = "anchored"
         /\ \A b \in Adoptions \ {a} : adopt'[b] = adopt[b]
         /\ adopt'[a].named = adopt[a].named /\ adopt'[a].num = adopt[a].num
         /\ \/ UNCHANGED cg /\ adopt'[a].pc = "over" /\ adopt'[a].moved = adopt[a].moved
            \/ \E p \in Procs :
                 /\ Runs(p) /\ pid[p] = adopt[a].num /\ cg' = [cg EXCEPT ![p] = "job"]
                 /\ adopt'[a].pc = "written" /\ adopt'[a].moved = p
                 /\ adopt'[a].result = adopt[a].result
<1>1. adopt[a] \in Adopts /\ adopt[a].pc = "anchored" /\ UNCHANGED <<st, pid>>
  BY DEF TypeOK, Moves, Unchanged4Adopt
<1>2. CASE UNCHANGED cg /\ (Adopted(a, "ok") \/ Adopted(a, "err"))
  BY <1>1, <1>2, AdoptedMakes
<1>3. ASSUME NEW p \in Procs, Runs(p), pid[p] = adopt[a].num, cg' = [cg EXCEPT ![p] = "job"],
             Steps(a, [adopt[a] EXCEPT !.pc = "written", !.moved = p])
      PROVE  /\ adopt'[a].named = adopt[a].named /\ adopt'[a].num = adopt[a].num
             /\ adopt'[a].pc = "written" /\ adopt'[a].moved = p
             /\ adopt'[a].result = adopt[a].result
             /\ \A b \in Adoptions \ {a} : adopt'[b] = adopt[b]
  <2>1. /\ adopt'[a] = [adopt[a] EXCEPT !.pc = "written", !.moved = p]
        /\ \A b \in Adoptions \ {a} : adopt'[b] = adopt[b]
    BY <1>3, StepsIs
  <2> QED
    BY <1>1, <2>1 DEF Adopts
<1> QED
  BY <1>1, <1>2, <1>3 DEF Moves, Holders

\* The steps after the write: an adoption that ends without a refusal leaves no
\* stranger of its own.
LEMMA EndsMakes ==
  ASSUME TypeOK, NEW a \in Adoptions, Rereads(a) \/ Looks(a) \/ Evicts(a)
  PROVE  /\ UNCHANGED <<st, pid>> /\ adopt[a].pc \in {"written", "recycled", "evict"}
         /\ \A p \in Procs : cg'[p] \in {cg[p], "out"}
         /\ \A b \in Adoptions \ {a} : adopt'[b] = adopt[b]
         /\ adopt'[a].named = adopt[a].named /\ adopt'[a].num = adopt[a].num
         /\ adopt'[a].moved = adopt[a].moved
         /\ \/ /\ adopt'[a].pc \in {"recycled", "evict"} /\ adopt'[a].result = adopt[a].result
            \/ adopt'[a].pc = "over" /\ adopt'[a].result = "stuck"
            \/ /\ adopt'[a].pc = "over" /\ adopt'[a].result \in {"ok", "notmember", "evicted"}
               /\ \A p \in Procs : pid[p] = adopt[a].num /\ p # adopt[a].named =>
                                     ~(st'[p] = "alive" /\ cg'[p] = "job")
<1>1. /\ adopt[a] \in Adopts /\ UNCHANGED <<st, pid>>
      /\ adopt[a].pc \in {"written", "recycled", "evict"}
  BY DEF TypeOK, Rereads, Looks, Evicts, Unchanged4Adopt
<1>2. ASSUME NEW c \in {"recycled", "evict"}, Steps(a, [adopt[a] EXCEPT !.pc = c])
      PROVE  /\ adopt'[a].named = adopt[a].named /\ adopt'[a].num = adopt[a].num
             /\ adopt'[a].moved = adopt[a].moved /\ adopt'[a].result = adopt[a].result
             /\ adopt'[a].pc = c
             /\ \A b \in Adoptions \ {a} : adopt'[b] = adopt[b]
  <2>1. /\ adopt'[a] = [adopt[a] EXCEPT !.pc = c]
        /\ \A b \in Adoptions \ {a} : adopt'[b] = adopt[b]
    BY <1>2, StepsIs
  <2> QED
    BY <1>1, <2>1 DEF Adopts
<1>3. CASE Rereads(a)
  <2>1. UNCHANGED cg
    BY <1>3 DEF Rereads
  <2>2. CASE Recycled(a)
    BY <1>1, <1>2, <1>3, <2>1, <2>2 DEF Rereads
  <2>3. CASE ~Recycled(a)
    <3>1. Adopted(a, "ok")
      BY <1>3, <2>3 DEF Rereads
    <3>2. \A p \in Procs : pid[p] = adopt[a].num /\ p # adopt[a].named => st[p] # "alive"
      BY <2>3 DEF Recycled, Holders, Exists
    <3> QED
      BY <1>1, <2>1, <3>1, <3>2, AdoptedMakes
  <2> QED
    BY <2>2, <2>3
<1>4. CASE Looks(a)
  <2>1. UNCHANGED cg
    BY <1>4 DEF Looks
  <2>2. CASE Steps(a, [adopt[a] EXCEPT !.pc = "evict"])
    BY <1>1, <1>2, <2>1, <2>2
  <2>3. CASE Adopted(a, "stuck")
    BY <1>1, <2>1, <2>3, AdoptedMakes
  <2>4. CASE Adopted(a, "notmember") /\ adopt[a].num \notin Listed("job")
    <3>1. \A p \in Procs : pid[p] = adopt[a].num => ~(st[p] = "alive" /\ cg[p] = "job")
      BY <2>4 DEF Listed, In, Runs
    <3> QED
      BY <1>1, <2>1, <2>4, <3>1, AdoptedMakes
  <2> QED
    BY <1>4, <2>2, <2>3, <2>4 DEF Looks
<1>5. CASE Evicts(a)
  <2> DEFINE found == {p \in Holders(adopt[a].num) : Runs(p)}
  <2>1. CASE Adopted(a, "stuck") /\ UNCHANGED cg
    BY <1>1, <2>1, AdoptedMakes
  <2>2. CASE Adopted(a, "notmember") /\ UNCHANGED cg /\ found = {}
    <3>1. \A p \in Procs : pid[p] = adopt[a].num => st[p] # "alive"
      BY <2>2 DEF Holders, Runs, Exists
    <3> QED
      BY <1>1, <2>2, <3>1, AdoptedMakes
  <2>3. CASE Adopted(a, "evicted") /\ cg' = [p \in Procs |-> IF p \in found THEN "out" ELSE cg[p]]
    <3>1. \A p \in Procs : pid[p] = adopt[a].num /\ st[p] = "alive" => p \in found
      BY DEF Holders, Runs, Exists
    <3>2. \A p \in Procs : cg'[p] = IF p \in found THEN "out" ELSE cg[p]
      BY <2>3
    <3>3. \A p \in Procs : pid[p] = adopt[a].num => ~(st'[p] = "alive" /\ cg'[p] = "job")
      BY <1>1, <3>1, <3>2
    <3> HIDE DEF found
    <3> QED
      BY <1>1, <2>3, <3>2, <3>3, AdoptedMakes
  <2> QED
    BY <1>5, <2>1, <2>2, <2>3 DEF Evicts
<1> QED
  BY <1>3, <1>4, <1>5

\* Strangers that an adoption moved are accounted for.
LEMMA AdoptStep == ASSUME TypeOK, KernelInv, AdoptInv, [Next]_vars PROVE AdoptInv'
<1> DEFINE Intruder(m) == st[m] = "alive" /\ cg[m] = "job"
           Known(a)  == LET r == adopt[a]
                        IN /\ r.pc # "over" => r.result = "none"
                           /\ r.pc \in {"idle", "anchored"} => r.moved = None
                           /\ r.pc \in {"written", "recycled", "evict"} => r.moved # None
                           /\ r.pc = "anchored" \/ r.moved # None =>
                                r.named # None /\ st[r.named] # "none" /\ pid[r.named] = r.num
                           /\ r.moved # None => st[r.moved] # "none" /\ pid[r.moved] = r.num
                           /\ r.moved \notin {None, r.named} => ~Exists(r.named)
           Closed(a) == adopt[a].result \in {"ok", "notmember", "evicted"}
                        /\ adopt[a].moved \notin {None, adopt[a].named}
           Honest(a) == Closed(a) => ~Intruder(adopt[a].moved) \/ Accounted(adopt[a].moved)
           Vouches(b, m) == /\ adopt[b].moved = m
                            /\ adopt[b].named = m \/ adopt[b].pc # "over" \/ adopt[b].result = "stuck"
<1>1. /\ \A x \in Procs : Ages(x)
      /\ \A a \in Adoptions : /\ adopt[a] \in Adopts /\ adopt'[a] \in Adopts
                              /\ adopt[a].moved \in Procs \cup {None}
                              /\ adopt[a].named \in Procs \cup {None}
  BY AgesStep, TypeStep DEF TypeOK, Adopts
<1>2. \A a \in Adoptions : Known(a) /\ Honest(a)
  BY DEF AdoptInv, AdoptionIsHonest
<1>3. SUFFICES \A a \in Adoptions : Known(a)' /\ Honest(a)'
  BY DEF AdoptInv, AdoptionIsHonest
<1>4. CASE UNCHANGED adopt /\ \A p \in Procs : st[p] # "none" => cg'[p] = cg[p]
  <2>1. ASSUME NEW a \in Adoptions PROVE Known(a)'
    BY <1>1, <1>2, <1>4, <2>1 DEF Ages
  <2>2. ASSUME NEW a \in Adoptions, Closed(a) PROVE Honest(a)'
    <3>1. /\ adopt[a].moved \in Procs /\ st[adopt[a].moved] # "none"
      BY <1>1, <1>2, <2>2
    <3>2. Intruder(adopt[a].moved)' => Intruder(adopt[a].moved)
      BY <1>1, <1>4, <3>1 DEF Ages
    <3>3. Accounted(adopt[a].moved) => Accounted(adopt[a].moved)'
      BY <1>4 DEF Accounted
    <3> QED
      BY <1>2, <2>2, <3>2, <3>3
  <2> QED
    BY <1>4, <2>1, <2>2
<1>5. ASSUME NEW b \in Adoptions, Anchors(b) PROVE \A a \in Adoptions : Known(a)' /\ Honest(a)'
  <2>1. /\ UNCHANGED <<st, pid, cg>> /\ adopt[b].pc = "idle" /\ adopt'[b].pc = "anchored"
        /\ adopt[b].moved = None /\ adopt'[b].moved = None /\ adopt'[b].result = "none"
        /\ adopt'[b].named \in Procs /\ Exists(adopt'[b].named)
        /\ adopt'[b].num = pid[adopt'[b].named]
        /\ \A a \in Adoptions \ {b} : adopt'[a] = adopt[a]
    BY <1>2, <1>5, AnchorsMakes
  <2>2. Known(b)' /\ Honest(b)'
    BY <2>1, CgroupAssumption DEF Exists, None, Procs
  <2>3. ASSUME NEW a \in Adoptions \ {b} PROVE Known(a)' /\ Honest(a)'
    <3>1. Known(a)'
      BY <1>2, <2>1, <2>3 DEF Exists
    <3>2. adopt[a].moved # None /\ Accounted(adopt[a].moved) => Accounted(adopt[a].moved)'
      BY <2>1, <2>3 DEF Accounted
    <3> QED
      BY <1>2, <2>1, <2>3, <3>1, <3>2
  <2> QED
    BY <2>2, <2>3
<1>6. ASSUME NEW b \in Adoptions, Moves(b) PROVE \A a \in Adoptions : Known(a)' /\ Honest(a)'
  <2>1. /\ UNCHANGED <<st, pid>> /\ adopt[b].pc = "anchored" /\ adopt[b].moved = None
        /\ \A a \in Adoptions \ {b} : adopt'[a] = adopt[a]
        /\ adopt'[b].named = adopt[b].named /\ adopt'[b].num = adopt[b].num
    BY <1>2, <1>6, MovesMakes
  <2>2. ASSUME NEW m \in Procs, Accounted(m) PROVE Accounted(m)'
    <3>1. PICK c \in Adoptions : Vouches(c, m)
      BY <2>2 DEF Accounted
    <3>2. c # b
      BY <2>1, <2>2, <3>1, CgroupAssumption DEF None
    <3> QED
      BY <2>1, <3>1, <3>2 DEF Accounted
  <2>3. CASE UNCHANGED cg /\ adopt'[b].pc = "over" /\ adopt'[b].moved = adopt[b].moved
    <3>1. Known(b)' /\ Honest(b)'
      BY <1>2, <2>1, <2>3
    <3>2. ASSUME NEW a \in Adoptions \ {b} PROVE Known(a)' /\ Honest(a)'
      BY <1>1, <1>2, <2>1, <2>2, <2>3, <3>2 DEF Exists
    <3> QED
      BY <3>1, <3>2
  <2>4. ASSUME NEW p \in Procs, Runs(p), pid[p] = adopt[b].num, cg' = [cg EXCEPT ![p] = "job"],
               adopt'[b].pc = "written", adopt'[b].moved = p, adopt'[b].result = adopt[b].result
        PROVE  \A a \in Adoptions : Known(a)' /\ Honest(a)'
    <3>1. Honest(b)'
      BY <1>2, <2>1, <2>4
    <3>2. Known(b)'
      <4>1. st[p] # "none" /\ Exists(p) /\ p # None
        BY <2>4, CgroupAssumption DEF Runs, Exists, None
      <4>2. /\ adopt[b].named \in Procs /\ st[adopt[b].named] # "none"
            /\ pid[adopt[b].named] = adopt[b].num /\ adopt[b].named # None
            /\ adopt[b].result = "none"
        BY <1>1, <1>2, <2>1
      <4>3. p # adopt[b].named => ~Exists(adopt[b].named)
        BY <2>4, <4>1, <4>2 DEF KernelInv
      <4> QED
        BY <2>1, <2>4, <4>1, <4>2, <4>3 DEF Exists
    <3>3. ASSUME NEW a \in Adoptions \ {b} PROVE Known(a)' /\ Honest(a)'
      <4>1. Known(a)'
        BY <1>2, <2>1, <3>3 DEF Exists
      <4>2. ASSUME Closed(a), adopt[a].moved = p PROVE Honest(a)'
        <5>1. Accounted(p)'
          BY <2>4 DEF Accounted
        <5> QED
          BY <2>1, <3>3, <4>2, <5>1
      <4>3. ASSUME Closed(a), adopt[a].moved # p PROVE Honest(a)'
        <5>1. adopt[a].moved \in Procs /\ cg'[adopt[a].moved] = cg[adopt[a].moved]
          BY <1>1, <2>4, <4>3 DEF TypeOK
        <5> QED
          BY <1>2, <2>1, <2>2, <3>3, <4>3, <5>1
      <4> QED
        BY <2>1, <3>3, <4>1, <4>2, <4>3
    <3> QED
      BY <3>1, <3>2, <3>3
  <2> QED
    BY <1>6, <2>3, <2>4, MovesMakes
<1>7. ASSUME NEW b \in Adoptions, Rereads(b) \/ Looks(b) \/ Evicts(b)
      PROVE  \A a \in Adoptions : Known(a)' /\ Honest(a)'
  <2> DEFINE m == adopt[b].moved
  <2>1. /\ UNCHANGED <<st, pid>> /\ adopt[b].pc \in {"written", "recycled", "evict"}
        /\ \A p \in Procs : cg'[p] \in {cg[p], "out"}
        /\ \A a \in Adoptions \ {b} : adopt'[a] = adopt[a]
        /\ adopt'[b].named = adopt[b].named /\ adopt'[b].num = adopt[b].num
        /\ adopt'[b].moved = m
    BY <1>7, EndsMakes
  <2>2. m \in Procs /\ pid[m] = adopt[b].num /\ m # None
    BY <1>1, <1>2, <2>1
  <2>3. /\ adopt'[b].pc \in {"recycled", "evict", "over"}
        /\ adopt'[b].pc # "over" => adopt'[b].result = "none"
        /\ \/ Vouches(b, m)' \/ ~Intruder(m)'
    <3>1. adopt[b].result = "none"
      BY <1>2, <2>1
    <3>2. CASE adopt'[b].pc \in {"recycled", "evict"} /\ adopt'[b].result = adopt[b].result
      BY <2>1, <3>1, <3>2
    <3>3. CASE adopt'[b].pc = "over" /\ adopt'[b].result = "stuck"
      BY <2>1, <3>3
    <3>4. CASE /\ adopt'[b].pc = "over"
               /\ \A p \in Procs : pid[p] = adopt[b].num /\ p # adopt[b].named =>
                                     ~(st'[p] = "alive" /\ cg'[p] = "job")
      BY <2>1, <2>2, <3>4
    <3> QED
      BY <1>7, <3>2, <3>3, <3>4, EndsMakes
  <2>4. ASSUME NEW a \in Adoptions PROVE Known(a)'
    BY <1>2, <2>1, <2>3, <2>4 DEF Exists
  <2>5. \A x \in Procs : Intruder(x)' => Intruder(x)
    BY <2>1
  <2>6. Intruder(m)' => Accounted(m)'
    BY <2>3 DEF Accounted
  <2>7. ASSUME NEW x \in Procs, x # m, Accounted(x) PROVE Accounted(x)'
    BY <2>1, <2>7 DEF Accounted
  <2>8. ASSUME NEW a \in Adoptions PROVE Honest(a)'
    <3>1. CASE a = b
      BY <2>1, <2>6, <3>1
    <3>2. CASE a # b /\ Closed(a)
      <4>1. adopt'[a] = adopt[a] /\ adopt[a].moved \in Procs
        BY <1>1, <2>1, <3>2
      <4>2. CASE adopt[a].moved = m
        BY <2>1, <2>6, <4>1, <4>2 DEF Accounted
      <4>3. CASE adopt[a].moved # m
        BY <1>2, <2>5, <2>7, <3>2, <4>1, <4>3
      <4> QED
        BY <4>2, <4>3
    <3>3. CASE a # b /\ ~Closed(a)
      BY <2>1, <3>3
    <3> QED
      BY <3>1, <3>2, <3>3
  <2> QED
    BY <2>4, <2>8
<1>8. ASSUME NEW b \in Adoptions, Adopting(b) PROVE \A a \in Adoptions : Known(a)' /\ Honest(a)'
  BY <1>5, <1>6, <1>7, <1>8 DEF Adopting
<1>9. CASE Living \/ Dropping \/ UNCHANGED vars \/ (\E l \in Launches : Launching(l))
           \/ \E k \in Callers : Sweeping(k)
  <2>1. UNCHANGED adopt
    BY <1>9, LivingFrame, DropFrame, LaunchFrame, SweepFrame DEF vars
  <2>2. (\E a \in Adoptions : Adopting(a)) \/ \A p \in Procs : st[p] # "none" => cg'[p] = cg[p]
    BY SettledStays
  <2> QED
    BY <1>4, <1>8, <2>1, <2>2
<1> QED
  BY <1>8, <1>9, StepsByActor

\* The invariant holds at the start.
LEMMA CgroupInit == ASSUME Init PROVE CgroupInv
<1> USE CgroupAssumption DEF Init
<1>1. TypeOK
  <2>1. scene \in Scenes /\ spare \in BOOLEAN
    BY DEF SceneSpace
  <2>2. call \in [Callers -> Calls]
    <3>1. 0 \in 0..Passes
      OBVIOUS
    <3> QED
      BY <3>1 DEF Calls
  <2>3. adopt \in [Adoptions -> Adopts]
    BY DEF Adopts
  <2>4. \A S : {} \subseteq S
    OBVIOUS
  <2> QED
    BY <2>1, <2>2, <2>3, <2>4 DEF TypeOK, Dirs
<1>2. KernelInv /\ LaunchInv /\ RegInv
  BY DEF KernelInv, LaunchInv, RegInv, Settled, In, Exists, Runs, Procs
<1>3. RollInv /\ HitInv /\ SweepInv /\ FreezeInv
  BY DEF RollInv, RollbackHitsItsSpawn, HitInv, SweepInv, FreezeInv
<1>4. AdoptInv
  BY DEF AdoptInv, AdoptionIsHonest
<1> QED
  BY <1>1, <1>2, <1>3, <1>4 DEF CgroupInv

\* Every state of every run has the invariant.
THEOREM CgroupCorrect == Spec => []CgroupInv
<1>1. ASSUME CgroupInv, [Next]_vars PROVE CgroupInv'
  BY <1>1, TypeStep, KernelStep, LaunchStep, RegStep, RollStep, HitStep, SweepStep, FreezeStep,
     AdoptStep DEF CgroupInv
<1> QED
  BY <1>1, CgroupInit, PTL DEF Spec

\* The state has the types the model declares; the sweep stays within its passes.
THEOREM TypeCorrect == Spec => []TypeOK
  BY CgroupCorrect, PTL DEF CgroupInv

\* The sweep signals nobody who was never a member, however often the numbers of
\* the dead are handed out again between the reads and the signals.
THEOREM SweepCorrect == Spec => []OnlyMembersSignalled
<1>1. CgroupInv => OnlyMembersSignalled
  BY DEF CgroupInv, HitInv, OnlyMembersSignalled
<1> QED
  BY <1>1, CgroupCorrect, PTL

\* A hard stop that reports no error has killed every member it owed, and a job
\* is frozen only while a sweep is to thaw it or after one that reported an error.
THEOREM KillCorrect == Spec => []KillOkReaches
<1>1. CgroupInv => KillOkReaches
  BY DEF CgroupInv, SweepInv, FreezeInv, KillOkReaches
<1> QED
  BY <1>1, CgroupCorrect, PTL

\* The rollback of a spawn that had a leaf kills that spawn's subtree and nobody
\* else's.
THEOREM RollbackCorrect == Spec => []RollbackHitsItsSpawn
<1>1. CgroupInv => RollbackHitsItsSpawn
  BY DEF CgroupInv, RollInv
<1> QED
  BY <1>1, CgroupCorrect, PTL

\* An adoption that reports no refusal leaves no stranger among the members for
\* which no other adoption accounts.
THEOREM AdoptionCorrect == Spec => []AdoptionIsHonest
<1>1. CgroupInv => AdoptionIsHonest
  BY DEF CgroupInv, AdoptInv
<1> QED
  BY <1>1, CgroupCorrect, PTL
=============================================================================
