------------------------------- MODULE Cgroup -------------------------------
(* The cgroup v2 backend of a group (sys/linux.rs): one directory for the job, *)
(* a leaf below it for every spawn, the registry of the leaves, the launch and *)
(* the rollback of a PTY launch, the adoption of an external process by its    *)
(* number, the hard kill (cgroup.kill, or the frozen sweep of pinned members), *)
(* Drop, and the process-wide reclaimer of the directories Drop leaves behind. *)
(*                                                                             *)
(* A process is an identity; its pid is a number the kernel hands out again    *)
(* once the process was reaped. cgroup.procs lists numbers, the registry keeps *)
(* numbers, a pidfd names an identity. The two reads of the members and each   *)
(* leaf of a read are steps of their own; the pins of a pass are one step, as  *)
(* are its deliveries. Limits, statistics, suspend and resume, and the graceful*)
(* tiers (GroupTeardown) are left out, and so is a spare's own shutdown: the   *)
(* latch is found set or not.                                                  *)
EXTENDS Naturals, FiniteSets

CONSTANTS Launches,   \* the spawns: each names its child and its leaf
          Others,     \* processes that are forked, or born outside
          Pids,       \* the numbers the kernel hands out
          Kills,      \* calls of kill_all
          Adoptions,  \* calls of adopt_external
          Passes,     \* bound: the passes of a sweep (50 in the code)
          Scenes      \* the scenes considered

None    == "none"
Dropper == "dropper"
Callers == Kills \cup {Dropper}
Procs   == Launches \cup Others
Dirs    == {"job"} \cup Launches

\* Who may act, whether cgroup.kill and cgroup.freeze exist (a "flaky" freezer
\* refuses writes now and then), whether reads and pidfds fail, and whether a
\* shutdown left a spare.
SceneSpace == [who : SUBSET (Procs \cup Kills \cup Adoptions \cup {Dropper}),
               kill : BOOLEAN, freezer : {"none", "ok", "flaky"},
               faults : BOOLEAN, spare : BOOLEAN]

ASSUME CgroupAssumption ==
  /\ Pids \subseteq Nat \ {0}
  /\ Passes \in Nat \ {0}
  /\ Scenes \subseteq SceneSpace
  /\ Launches \cap Others = {}
  /\ {"none", "job", "out", "dropper"} \cap (Procs \cup Kills \cup Adoptions) = {}

VARIABLES
  scene,
  st,      \* per process: does it live, was it killed, is it a zombie
  pid,     \* per process: its number
  cg,      \* per process: the cgroup it is in
  of,      \* per process: the spawn it descends from (history)
  frozen,  \* the job's cgroup is frozen
  dirs,    \* the directories that exist
  live,    \* the registry: its leaves
  claim,   \* the registry: the number a leaf answers to, 0 for none
  launch,  \* per spawn: where it stands
  slot,    \* per spawn: its LeafSlot holds a directory
  had,     \* per spawn: its child was routed to a leaf (history)
  aim,     \* per spawn: the leaf its rollback found
  rolled,  \* per spawn: whom its rollback killed (history)
  spare,   \* skip_drop_kill
  clearer, \* who cleared it last
  held,    \* per spawn: the displaced spare it may restore
  call,    \* per kill: the state of the sweep
  adopt,   \* per adoption: its state
  drop,    \* where Drop stands
  request, \* the job's request to the reclaimer
  ever,    \* who was ever a member (history)
  hit      \* whom a sweep signalled (history)

kernelVars  == <<st, pid, cg, of, ever>>
treeVars    == <<dirs, live, claim>>
launchVars  == <<launch, slot, had, aim, rolled, held>>
latchVars   == <<spare, clearer>>
vars == <<scene, kernelVars, frozen, treeVars, launchVars, latchVars, call, adopt,
          drop, request, hit>>

Calls == [pc : {"idle", "list", "confirm", "drain", "thaw", "final", "over"},
          reading : BOOLEAN, todo : SUBSET Launches, seen : SUBSET Pids, pins : SUBSET Procs,
          pass : 0..Passes, froze : BOOLEAN, stuck : BOOLEAN,
          result : {"none", "ok", "err"}, before : SUBSET Procs]

Adopts == [pc : {"idle", "anchored", "written", "recycled", "evict", "over"},
           num : Pids \cup {0}, named : Procs \cup {None}, moved : Procs \cup {None},
           result : {"none", "ok", "err", "notmember", "evicted", "stuck"}]

TypeOK ==
  /\ scene \in Scenes
  /\ st \in [Procs -> {"none", "alive", "killed", "zombie", "gone"}]
  /\ pid \in [Procs -> Pids \cup {0}]
  /\ cg \in [Procs -> Dirs \cup {"out"}]
  /\ of \in [Procs -> Launches \cup {None}]
  /\ frozen \in BOOLEAN
  /\ dirs \subseteq Dirs /\ live \subseteq Launches
  /\ claim \in [Launches -> Pids \cup {0}]
  /\ launch \in [Launches -> {"idle", "open", "forked", "failing", "joined", "armed",
                              "aimed", "undo", "ok", "failed", "undone"}]
  /\ slot \in [Launches -> BOOLEAN] /\ had \in [Launches -> BOOLEAN]
  /\ aim \in [Launches -> Launches \cup {None}]
  /\ rolled \in [Launches -> SUBSET Procs]
  /\ spare \in BOOLEAN /\ clearer \in Launches \cup Adoptions \cup {None}
  /\ held \in [Launches -> BOOLEAN]
  /\ call \in [Callers -> Calls]
  /\ adopt \in [Adoptions -> Adopts]
  /\ drop \in {"no", "kill", "leaves", "parent", "done"}
  /\ request \in {"none", "pending", "sent"}
  /\ ever \subseteq Procs /\ hit \subseteq Procs

Init ==
  /\ scene \in Scenes
  /\ st = [p \in Procs |-> "none"]
  /\ pid = [p \in Procs |-> 0]
  /\ cg = [p \in Procs |-> "out"]
  /\ of = [p \in Procs |-> None]
  /\ frozen = FALSE
  /\ dirs = {"job"} /\ live = {}
  /\ claim = [l \in Launches |-> 0]
  /\ launch = [l \in Launches |-> "idle"]
  /\ slot = [l \in Launches |-> FALSE] /\ had = [l \in Launches |-> FALSE]
  /\ aim = [l \in Launches |-> None]
  /\ rolled = [l \in Launches |-> {}]
  /\ spare = scene.spare /\ clearer = None
  /\ held = [l \in Launches |-> FALSE]
  /\ call = [k \in Callers |-> [pc |-> "idle", reading |-> FALSE, todo |-> {}, seen |-> {},
                                pins |-> {}, pass |-> 0, froze |-> FALSE, stuck |-> FALSE,
                                result |-> "none", before |-> {}]]
  /\ adopt = [a \in Adoptions |-> [pc |-> "idle", num |-> 0, named |-> None, moved |-> None,
                                   result |-> "none"]]
  /\ drop = "no" /\ request = "none"
  /\ ever = {} /\ hit = {}

-----------------------------------------------------------------------------
(* The kernel.                                                                *)

Exists(p) == st[p] \in {"alive", "killed", "zombie"}
Runs(p)   == st[p] \in {"alive", "killed"}
Free      == Pids \ {pid[p] : p \in {q \in Procs : Exists(q)}}
Holders(n) == {p \in Procs : Exists(p) /\ pid[p] = n}

In(d)     == {p \in Procs : cg[p] = d /\ Runs(p)}
Members   == {p \in Procs : cg[p] # "out" /\ Runs(p)}
Listed(d) == {pid[p] : p \in In(d)}
Stopped(p) == frozen /\ cg[p] # "out"

\* The processes of P that live are sent SIGKILL.
Killed(P) == [p \in Procs |-> IF p \in P /\ st[p] = "alive" THEN "killed" ELSE st[p]]

\* rmdir takes a directory that holds nobody.
Empties(D) == {d \in D : In(d) = {}}

\* A process is born in cgroup d, descending from the spawn o.
Born(p, d, o) ==
  /\ st[p] = "none"
  /\ \E n \in Free : pid' = [pid EXCEPT ![p] = n]
  /\ st' = [st EXCEPT ![p] = "alive"]
  /\ cg' = [cg EXCEPT ![p] = d]
  /\ of' = [of EXCEPT ![p] = o]
  /\ ever' = IF d = "out" THEN ever ELSE ever \cup {p}

Stranger(q) ==
  /\ q \in scene.who /\ Born(q, "out", None)
  /\ UNCHANGED <<scene, frozen, treeVars, launchVars, latchVars, call, adopt, drop, request, hit>>

Forks(p, q) ==
  /\ q \in scene.who /\ st[p] = "alive" /\ cg[p] # "out" /\ ~Stopped(p)
  /\ Born(q, cg[p], of[p])
  /\ UNCHANGED <<scene, frozen, treeVars, launchVars, latchVars, call, adopt, drop, request, hit>>

\* A frozen process does not exit by itself, but it dies of SIGKILL.
Exits(p) ==
  /\ st[p] = "killed" \/ (st[p] = "alive" /\ ~Stopped(p))
  /\ st' = [st EXCEPT ![p] = "zombie"]
  /\ UNCHANGED <<scene, pid, cg, of, ever, frozen, treeVars, launchVars, latchVars, call, adopt,
                 drop, request, hit>>

\* The launching thread holds the Child un-reaped until the launch is over, and
\* nobody waits for the child of a launch that failed after its fork.
Reaped(p) ==
  /\ st[p] = "zombie"
  /\ p \in Launches => launch[p] \in {"ok", "undone"}
  /\ st' = [st EXCEPT ![p] = "gone"]
  /\ UNCHANGED <<scene, pid, cg, of, ever, frozen, treeVars, launchVars, latchVars, call, adopt,
                 drop, request, hit>>

-----------------------------------------------------------------------------
(* The registry of the leaves.                                                *)

\* Leaves::reclaim over the entries D: one is released when the kernel lets go
\* of its directory, and only then.
Released(D) ==
  /\ dirs' = dirs \ Empties(D)
  /\ live' = D \ Empties(D)

\* Mutant of Claimed: an older leaf keeps the number.
ClaimedTwice(l, n) == [claim EXCEPT ![l] = n]

\* The new leaf takes its number from the older ones.
Claimed(l, n) ==
  [m \in Launches |-> IF m = l THEN n ELSE IF claim[m] = n THEN 0 ELSE claim[m]]

\* register_leaf. A reclaim pass is paid for when enough leaves have gathered.
Register(l, n) ==
  /\ claim' = Claimed(l, n)
  /\ \/ live' = live \cup {l} /\ UNCHANGED dirs
     \/ Released(live \cup {l})

-----------------------------------------------------------------------------
(* A launch: spawn and spawn_pty.                                             *)

Unchanged4Launch == UNCHANGED <<scene, frozen, call, adopt, drop, request, hit>>

\* open_leaf: a host that refuses the mkdir leaves the spawn without a leaf.
OpenLeaf(l) ==
  /\ l \in scene.who /\ drop = "no" /\ launch[l] = "idle"
  /\ launch' = [launch EXCEPT ![l] = "open"]
  /\ \/ dirs' = dirs \cup {l} /\ slot' = [slot EXCEPT ![l] = TRUE]
     \/ UNCHANGED <<dirs, slot>>
  /\ UNCHANGED <<kernelVars, live, claim, had, aim, rolled, held, latchVars>>
  /\ Unchanged4Launch

\* The child joins in its pre-exec hook. What fails after that fails the launch.
Spawned(l) ==
  /\ launch[l] = "open"
  /\ Born(l, IF slot[l] THEN l ELSE "job", l)
  /\ had' = [had EXCEPT ![l] = slot[l]]
  /\ \E e \in {"forked", "failing"} : launch' = [launch EXCEPT ![l] = e]
  /\ UNCHANGED <<treeVars, slot, aim, rolled, held, latchVars>>
  /\ Unchanged4Launch

SpawnFails(l) ==
  /\ launch[l] = "open"
  /\ launch' = [launch EXCEPT ![l] = "failing"]
  /\ UNCHANGED <<kernelVars, treeVars, slot, had, aim, rolled, held, latchVars>>
  /\ Unchanged4Launch

\* commit. The exec of a frozen child does not happen, and spawn waits for it.
Commits(l) ==
  /\ launch[l] = "forked" /\ ~(st[l] = "alive" /\ Stopped(l))
  /\ launch' = [launch EXCEPT ![l] = "joined"]
  /\ slot' = [slot EXCEPT ![l] = FALSE]
  /\ IF slot[l] THEN Register(l, pid[l]) ELSE UNCHANGED treeVars
  /\ UNCHANGED <<kernelVars, had, aim, rolled, held, latchVars>>
  /\ Unchanged4Launch

\* Mutant of SlotDropped: the directory that rmdir refuses is forgotten.
SlotForgotten(l) ==
  /\ launch[l] = "failing"
  /\ launch' = [launch EXCEPT ![l] = "failed"]
  /\ slot' = [slot EXCEPT ![l] = FALSE]
  /\ IF slot[l] THEN dirs' = dirs \ Empties({l}) /\ UNCHANGED <<live, claim>>
     ELSE UNCHANGED treeVars
  /\ UNCHANGED <<kernelVars, had, aim, rolled, held, latchVars>>
  /\ Unchanged4Launch

\* Drop of LeafSlot: the answer of rmdir decides whether the leaf is registered.
SlotDropped(l) ==
  /\ launch[l] = "failing"
  /\ launch' = [launch EXCEPT ![l] = "failed"]
  /\ slot' = [slot EXCEPT ![l] = FALSE]
  /\ IF ~slot[l] THEN UNCHANGED treeVars
     ELSE IF In(l) = {} THEN dirs' = dirs \ {l} /\ UNCHANGED <<live, claim>>
     ELSE Register(l, 0)
  /\ UNCHANGED <<kernelVars, had, aim, rolled, held, latchVars>>
  /\ Unchanged4Launch

\* skip_drop_kill.clear: the spare is displaced, and held for a rollback.
Arms(l) ==
  /\ launch[l] = "joined"
  /\ launch' = [launch EXCEPT ![l] = "armed"]
  /\ held' = [held EXCEPT ![l] = spare]
  /\ spare' = FALSE /\ clearer' = l
  /\ UNCHANGED <<kernelVars, treeVars, slot, had, aim, rolled>>
  /\ Unchanged4Launch

Succeeds(l) ==
  /\ launch[l] = "armed"
  /\ launch' = [launch EXCEPT ![l] = "ok"]
  /\ UNCHANGED <<kernelVars, treeVars, slot, had, aim, rolled, held, latchVars>>
  /\ Unchanged4Launch

\* The PTY's setup failed: kill_leaf_of looks the number up, and retires it.
RollsBack(l) ==
  /\ launch[l] = "armed"
  /\ launch' = [launch EXCEPT ![l] = "aimed"]
  /\ LET found == {m \in live : claim[m] = pid[l]}
     IN IF found = {} THEN aim' = [aim EXCEPT ![l] = None] /\ UNCHANGED claim
        ELSE \E m \in found : /\ aim' = [aim EXCEPT ![l] = m]
                              /\ claim' = [claim EXCEPT ![m] = 0]
  /\ UNCHANGED <<kernelVars, dirs, live, slot, had, rolled, held, latchVars>>
  /\ Unchanged4Launch

\* Then it writes the leaf's cgroup.kill; if it cannot, the session is killed,
\* which a descendant may have left.
RollbackKills(l) ==
  /\ launch[l] = "aimed"
  /\ launch' = [launch EXCEPT ![l] = "undo"]
  /\ IF aim[l] \in dirs /\ scene.kill
     THEN /\ st' = Killed(In(aim[l]))
          /\ rolled' = [rolled EXCEPT ![l] = {p \in In(aim[l]) : st[p] = "alive"}]
          /\ Released(live)
     ELSE /\ \E P \in SUBSET {p \in Procs : of[p] = l} :
               /\ l \in P
               /\ st' = Killed(P)
               /\ rolled' = [rolled EXCEPT ![l] = {p \in P : st[p] = "alive"}]
          /\ UNCHANGED <<dirs, live>>
  /\ UNCHANGED <<pid, cg, of, ever, claim, slot, had, aim, held, latchVars>>
  /\ Unchanged4Launch

\* The spare is put back unless somebody cleared the latch since; the guard
\* kills the direct child through its handle.
Undone(l) ==
  /\ launch[l] = "undo"
  /\ launch' = [launch EXCEPT ![l] = "undone"]
  /\ spare' = (spare \/ (held[l] /\ clearer = l))
  /\ st' = Killed({l})
  /\ UNCHANGED <<pid, cg, of, ever, treeVars, slot, had, aim, rolled, held, clearer>>
  /\ Unchanged4Launch


-----------------------------------------------------------------------------
(* kill_all, and the hard kill of Drop: Cgroup::kill.                         *)

Unchanged4Kill == UNCHANGED <<scene, pid, cg, of, ever, treeVars, launchVars, latchVars, adopt,
                              drop, request>>
Goes(k, c) == call' = [call EXCEPT ![k] = c]

\* The call leaves its read for another point of the sweep.
To(k, c) == [call[k] EXCEPT !.pc = c, !.reading = FALSE, !.seen = {}, !.todo = {}]

\* Mutant of NextPass: the sweep goes on until the job is drained.
NextPassAlways(k) == [To(k, "list") EXCEPT !.pass = @ + 1]

\* The next pass, or the thaw after the last.
NextPass(k) ==
  IF call[k].pass < Passes THEN [To(k, "list") EXCEPT !.pass = @ + 1] ELSE To(k, "thaw")

\* Whom a hard stop that begins now owes a kill: the members that joined, those
\* of a failed launch included; not those of a launch that is under way.
Owed ==
  LET joined == {"job"} \cup {l \in Launches : launch[l] \notin {"forked", "failing"}}
  IN {p \in Procs : st[p] = "alive" /\ cg[p] \in joined}

\* Where there is no cgroup.kill the job is frozen first, if it can be.
Starts(k) ==
  /\ call[k].pc = "idle" /\ k \in scene.who
  /\ IF k = Dropper THEN drop = "kill" ELSE drop = "no"
  /\ IF scene.kill
     THEN /\ st' = Killed(Members)
          /\ Goes(k, [call[k] EXCEPT !.pc = "over", !.result = "ok", !.before = Owed])
          /\ UNCHANGED frozen
     ELSE /\ \E f \in IF scene.freezer = "none" THEN {FALSE}
                      ELSE IF scene.freezer = "ok" THEN {TRUE} ELSE BOOLEAN :
               /\ frozen' = (frozen \/ f)
               /\ Goes(k, [call[k] EXCEPT !.pc = "list", !.pass = 1, !.froze = f, !.before = Owed])
          /\ UNCHANGED st
  /\ UNCHANGED hit
  /\ Unchanged4Kill

\* members_with: the job's own members and the table, then leaf after leaf. The
\* read is a pass's, its confirmation's, its drain check's or the verdict's.
Reads(k) ==
  /\ call[k].pc \in {"list", "confirm", "drain", "final"} /\ ~call[k].reading
  /\ Goes(k, [call[k] EXCEPT !.reading = TRUE, !.todo = live, !.seen = Listed("job")])
  /\ UNCHANGED <<st, frozen, hit>>
  /\ Unchanged4Kill

\* A leaf that is gone lists nobody.
ReadsLeaf(k, l) ==
  /\ call[k].reading /\ l \in call[k].todo
  /\ Goes(k, [call[k] EXCEPT !.todo = @ \ {l}, !.seen = @ \cup Listed(l)])
  /\ UNCHANGED <<st, frozen, hit>>
  /\ Unchanged4Kill

HasRead(k, c) == call[k].pc = c /\ call[k].reading /\ call[k].todo = {}

\* A read fails: the pass delivers nothing, the job is not known to be drained,
\* or the verdict is an error.
ReadFails(k) ==
  /\ call[k].reading /\ scene.faults
  /\ \/ call[k].pc \in {"list", "confirm"} /\ Goes(k, [To(k, "drain") EXCEPT !.pins = {}])
     \/ call[k].pc = "drain" /\ Goes(k, NextPass(k))
     \/ call[k].pc = "final" /\ Goes(k, [To(k, "over") EXCEPT !.result = "err"])
  /\ UNCHANGED <<st, frozen, hit>>
  /\ Unchanged4Kill

\* pin_member: a pidfd names whoever holds a listed number now, or cannot be had.
Pins(k) ==
  /\ HasRead(k, "list")
  /\ LET found == UNION {Holders(n) : n \in call[k].seen}
     IN \E pinned \in {found} \cup (IF scene.faults THEN {{}} ELSE {}) :
          Goes(k, [To(k, IF pinned = {} THEN "drain" ELSE "confirm") EXCEPT !.pins = pinned])
  /\ UNCHANGED <<st, frozen, hit>>
  /\ Unchanged4Kill

\* Mutant of Confirmed: the pinned processes are not looked up again.
PinnedOnly(k) == call[k].pins

\* Of the pinned, those whose number the second read listed.
Confirmed(k) == {p \in call[k].pins : pid[p] \in call[k].seen}

\* deliver_pinned: a handle reaches its own process or nobody.
Delivers(k) ==
  /\ HasRead(k, "confirm")
  /\ st' = Killed(Confirmed(k))
  /\ hit' = hit \cup {p \in Confirmed(k) : Runs(p)}
  /\ Goes(k, [To(k, "drain") EXCEPT !.pins = {}])
  /\ UNCHANGED frozen
  /\ Unchanged4Kill

\* The sweep ends when the job is drained.
ChecksDrain(k) ==
  /\ HasRead(k, "drain")
  /\ Goes(k, IF call[k].seen = {} THEN To(k, "thaw") ELSE NextPass(k))
  /\ UNCHANGED <<st, frozen, hit>>
  /\ Unchanged4Kill

\* thaw_after_kill_sweep: two writes; if a flaky freezer refuses both, its state
\* is read, and where it cannot be read the sweep's own freeze stands for it.
Thaws(k) ==
  /\ call[k].pc = "thaw"
  /\ \/ /\ frozen' = FALSE
        /\ Goes(k, To(k, "final"))
     \/ /\ scene.freezer = "flaky"
        /\ \E s \in {frozen} \cup (IF scene.faults THEN {call[k].froze} ELSE {}) :
             Goes(k, [To(k, "final") EXCEPT !.stuck = s])
        /\ UNCHANGED frozen
  /\ UNCHANGED <<st, hit>>
  /\ Unchanged4Kill

\* Mutant of Verdict: the last pass is trusted to have killed everybody.
VerdictUnread(k) == IF call[k].stuck THEN "err" ELSE "ok"

Verdict(k) == IF call[k].seen = {} /\ ~call[k].stuck THEN "ok" ELSE "err"

Answers(k) ==
  /\ HasRead(k, "final")
  /\ Goes(k, [To(k, "over") EXCEPT !.result = Verdict(k)])
  /\ UNCHANGED <<st, frozen, hit>>
  /\ Unchanged4Kill

-----------------------------------------------------------------------------
(* adopt_external: the adoption of whoever holds a number.                    *)

Unchanged4Adopt == UNCHANGED <<scene, st, pid, of, frozen, treeVars, launchVars, drop,
                               request, hit>>
Steps(a, r) == adopt' = [adopt EXCEPT ![a] = r]
Adopted(a, r) == Steps(a, [adopt[a] EXCEPT !.pc = "over", !.result = r])

\* capture_adoption_anchor, of the process the caller means.
Anchors(a) ==
  /\ a \in scene.who /\ drop = "no" /\ adopt[a].pc = "idle"
  /\ \E p \in Procs :
       /\ Exists(p) /\ cg[p] = "out"
       /\ Steps(a, [adopt[a] EXCEPT !.pc = "anchored", !.num = pid[p], !.named = p])
  /\ UNCHANGED <<cg, ever, call, latchVars>>
  /\ Unchanged4Adopt

\* The write to cgroup.procs moves whoever holds the number now. A hard stop
\* under way does not owe it a kill any more, if it comes from another directory:
\* a read that goes on has passed the one and may not find it in the other.
Moves(a) ==
  /\ adopt[a].pc = "anchored"
  /\ LET found == {p \in Holders(adopt[a].num) : Runs(p)}
     IN IF found = {} THEN Adopted(a, "ok") /\ UNCHANGED <<cg, ever, call>>
        ELSE \E p \in found :
               \/ /\ Steps(a, [adopt[a] EXCEPT !.pc = "written", !.moved = p])
                  /\ cg' = [cg EXCEPT ![p] = "job"]
                  /\ ever' = ever \cup {p}
                  /\ call' = [k \in Callers |-> [call[k] EXCEPT
                                !.before = IF cg[p] = "job" THEN @ ELSE @ \ {p}]]
               \/ scene.faults /\ Adopted(a, "err") /\ UNCHANGED <<cg, ever, call>>
  /\ UNCHANGED latchVars
  /\ Unchanged4Adopt

\* Mutant of Recycled: what was moved is taken for what was named.
NeverRecycled(a) == FALSE

\* The anchor is read again; a number nobody holds proves nothing.
Recycled(a) == Holders(adopt[a].num) \notin {{}, {adopt[a].named}}

Rereads(a) ==
  /\ adopt[a].pc = "written"
  /\ IF Recycled(a)
     THEN Steps(a, [adopt[a] EXCEPT !.pc = "recycled"]) /\ UNCHANGED latchVars
     ELSE Adopted(a, "ok") /\ spare' = FALSE /\ clearer' = a
  /\ UNCHANGED <<cg, ever, call>>
  /\ Unchanged4Adopt

\* evict_recycled: only a number that is listed is moved out again.
Looks(a) ==
  /\ adopt[a].pc = "recycled"
  /\ \/ IF adopt[a].num \in Listed("job") THEN Steps(a, [adopt[a] EXCEPT !.pc = "evict"])
        ELSE Adopted(a, "notmember")
     \/ scene.faults /\ Adopted(a, "stuck")
  /\ UNCHANGED <<cg, ever, call, latchVars>>
  /\ Unchanged4Adopt

Evicts(a) ==
  /\ adopt[a].pc = "evict"
  /\ LET found == {p \in Holders(adopt[a].num) : Runs(p)}
     IN IF found = {} THEN Adopted(a, "notmember") /\ UNCHANGED cg
        ELSE \/ /\ Adopted(a, "evicted")
                /\ cg' = [p \in Procs |-> IF p \in found THEN "out" ELSE cg[p]]
             \/ scene.faults /\ Adopted(a, "stuck") /\ UNCHANGED cg
  /\ UNCHANGED <<ever, call, latchVars>>
  /\ Unchanged4Adopt

-----------------------------------------------------------------------------
(* Drop, once no other call is under way, and the reclaimer.                  *)

Unchanged4Drop == UNCHANGED <<scene, kernelVars, frozen, claim, launchVars, latchVars, call,
                              adopt, hit>>

Quiet ==
  /\ \A l \in Launches : launch[l] \in {"idle", "ok", "failed", "undone"}
  /\ \A k \in Kills : call[k].pc \in {"idle", "over"}
  /\ \A a \in Adoptions : adopt[a].pc \in {"idle", "over"}

\* A spare spares the members, not the directories.
DropStarts ==
  /\ Dropper \in scene.who /\ drop = "no" /\ Quiet
  /\ drop' = IF spare THEN "leaves" ELSE "kill"
  /\ UNCHANGED <<dirs, live, request>>
  /\ Unchanged4Drop

\* After the kill, whatever it answered, Drop waits for the job to empty, for
\* 50 polls at most, and reclaims the leaves it can.
DropReclaims ==
  /\ drop = "leaves" \/ (drop = "kill" /\ call[Dropper].pc = "over")
  /\ drop' = "parent"
  /\ Released(live)
  /\ UNCHANGED request
  /\ Unchanged4Drop

Removable == dirs = {"job"} /\ In("job") = {}

\* enqueue_cgroup_reclaim: the reclaimer's thread may not start.
DropRemoves ==
  /\ drop = "parent"
  /\ drop' = "done"
  /\ IF Removable THEN dirs' = {} /\ UNCHANGED request
     ELSE request' \in {"sent"} \cup (IF scene.faults THEN {"pending"} ELSE {}) /\ UNCHANGED dirs
  /\ UNCHANGED live
  /\ Unchanged4Drop

\* Another group's request starts the thread, and hands over what is pending.
OtherEnqueues ==
  /\ request = "pending"
  /\ request' = "sent"
  /\ UNCHANGED <<dirs, live, drop>>
  /\ Unchanged4Drop

\* reclaim_once: the leaves of the request, and then the job's own directory.
ReclaimPass ==
  /\ request = "sent"
  /\ live' = live \ Empties(live)
  /\ LET left == dirs \ Empties(live)
     IN IF left = {"job"} /\ In("job") = {} /\ live' = {}
        THEN dirs' = {} /\ request' = "none"
        ELSE dirs' = left /\ UNCHANGED request
  /\ UNCHANGED drop
  /\ Unchanged4Drop

-----------------------------------------------------------------------------
Next ==
  \/ \E q \in Others : Stranger(q) \/ \E p \in Procs : Forks(p, q)
  \/ \E p \in Procs : Exits(p) \/ Reaped(p)
  \/ \E l \in Launches :
       \/ OpenLeaf(l) \/ Spawned(l) \/ SpawnFails(l) \/ Commits(l) \/ SlotDropped(l)
       \/ Arms(l) \/ Succeeds(l) \/ RollsBack(l) \/ RollbackKills(l) \/ Undone(l)
  \/ \E k \in Callers :
       \/ Starts(k) \/ Reads(k) \/ ReadFails(k) \/ Pins(k) \/ Delivers(k) \/ ChecksDrain(k)
       \/ Thaws(k) \/ Answers(k)
       \/ \E l \in Launches : ReadsLeaf(k, l)
  \/ \E a \in Adoptions : Anchors(a) \/ Moves(a) \/ Rereads(a) \/ Looks(a) \/ Evicts(a)
  \/ DropStarts \/ DropReclaims \/ DropRemoves \/ OtherEnqueues \/ ReclaimPass

Spec == Init /\ [][Next]_vars

\* The thread that drops the job and the reclaimer's thread are scheduled.
Fairness ==
  /\ WF_vars(Starts(Dropper)) /\ WF_vars(Reads(Dropper)) /\ WF_vars(Pins(Dropper))
  /\ \A l \in Launches : WF_vars(ReadsLeaf(Dropper, l))
  /\ WF_vars(Delivers(Dropper)) /\ WF_vars(ChecksDrain(Dropper))
  /\ WF_vars(Thaws(Dropper)) /\ WF_vars(Answers(Dropper))
  /\ WF_vars(DropReclaims) /\ WF_vars(DropRemoves) /\ WF_vars(ReclaimPass)

FairSpec == Spec /\ Fairness

-----------------------------------------------------------------------------
(* Properties.                                                                *)

\* The sweep signals nobody who was never a member, although it knows its
\* members by number and the numbers of the dead are handed out again.
OnlyMembersSignalled == hit \subseteq ever

\* A hard stop that reports no error has killed every member that had joined
\* when it began and still belongs to the job, where no adoption moved it in the
\* meantime, and has not left the job frozen for the next spawn to hang in.
KillOkReaches ==
  /\ \A k \in Callers : call[k].result = "ok" =>
       \A p \in call[k].before : st[p] # "alive" \/ cg[p] = "out"
  /\ frozen => \E k \in Callers : call[k].pc \notin {"idle", "over"} \/ call[k].result = "err"

\* The rollback of a spawn that had a leaf kills the subtree of that spawn, all
\* of it where cgroup.kill exists, and nobody else's, however the spawn's
\* number was used before.
RollbackHitsItsSpawn ==
  \A l \in Launches : had[l] /\ launch[l] \in {"undo", "undone"} =>
    /\ \A p \in rolled[l] : of[p] = l
    /\ scene.kill => \A p \in Procs : of[p] = l /\ cg[p] = l => st[p] # "alive"

\* No rollback kills a process of another spawn.
RollbackSparesOthers == \A l \in Launches : \A p \in rolled[l] : of[p] = l

\* Another adoption accounts for the process m: it meant m, is not over yet, or
\* said that m could not be moved out.
Accounted(m) ==
  \E b \in Adoptions : /\ adopt[b].moved = m
                       /\ adopt[b].named = m \/ adopt[b].pc # "over" \/ adopt[b].result = "stuck"

\* An adoption that reports anything but a refusal has not left a stranger among
\* the members, unless another adoption accounts for it: neither is the wrong
\* process adopted, nor left behind unreported.
AdoptionIsHonest ==
  \A a \in Adoptions :
    LET m == adopt[a].moved
    IN adopt[a].result \in {"ok", "notmember", "evicted"} /\ m \notin {None, adopt[a].named}
         => ~(st[m] = "alive" /\ cg[m] = "job") \/ Accounted(m)

\* Once the job is dropped and its last member gone, every directory made for it
\* is removed, provided the reclaimer's thread could be started.
DirsReclaimed ==
  (drop # "no" /\ Members = {} /\ request # "pending") ~> (dirs = {} \/ request = "pending")
=============================================================================
