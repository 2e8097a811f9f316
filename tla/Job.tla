--------------------------------- MODULE Job ---------------------------------
(* A Windows Job Object shared by several threads (sys/windows.rs). A child is *)
(* created suspended, assigned to the job and only then resumed; the kernel    *)
(* kills the members when the last handle of the job is closed, by Drop or by  *)
(* the death of the host. Walks that suspend or resume the members' threads,   *)
(* shutdowns and adoptions run beside it.                                      *)
EXTENDS Naturals, FiniteSets

\* Calls, each on a thread of its own: spawns, named after their child, adoptions,
\* named after what they adopt, shutdowns and walks.
CONSTANTS Spawns, Adoptions, Stops, Walks

\* Processes that a spawned child starts, and which child starts them.
CONSTANTS Offspring, Parent

\* The spawns that ask for a processor affinity.
CONSTANT Pinned

CONSTANT Nobody

Joins == Spawns \cup Adoptions
Procs == Joins \cup Offspring

ASSUME CallsAssumption ==
  /\ Spawns \cap Adoptions = {} /\ Joins \cap Offspring = {}
  /\ Stops \cap Joins = {} /\ Walks \cap (Joins \cup Stops) = {}
  /\ Parent \in [Offspring -> Spawns] /\ Pinned \subseteq Spawns
  /\ Nobody \notin Joins \cup Stops \cup Walks

VARIABLES
  pc,      \* where each call is
  owner,   \* who holds suspend_lock, or Nobody
  life,    \* "none", "live" or "gone", per process
  held,    \* the suspend count of each process' first thread
  members, \* the processes that were assigned to the job, or born in it
  ran,     \* the processes that ever ran
  masked,  \* the children whose affinity is set
  early,   \* the children a walk let run before their spawn did (history)
  aim,     \* per walk: suspend or resume, and the members it has listed
  word,    \* SkipDropKill: the generation, and the shutdown whose spare is set
  mode,    \* per shutdown: "kill", "escalate" or "spare"
  epoch,   \* per shutdown: the generation it has snapshotted
  spare,   \* the shutdown that spared those there, none having joined since (history)
  closed   \* how the last handle was closed, or "no"

procVars  == <<life, held, members, ran, masked, early>>
latchVars == <<word, spare>>
stopVars  == <<mode, epoch>>
vars      == <<pc, owner, procVars, aim, latchVars, stopVars, closed>>

Places == {"idle", "refused", "created", "assigned", "pinned", "resumed", "armed", "joined",
           "failing", "failed", "walking", "walked", "polling", "sparing", "killing", "over"}

TypeOK ==
  /\ pc \in [Joins \cup Stops \cup Walks -> Places]
  /\ owner \in Joins \cup Walks \cup {Nobody}
  /\ life \in [Procs -> {"none", "live", "gone"}] /\ held \in [Procs -> Nat]
  /\ members \subseteq Procs /\ ran \subseteq Procs /\ early \subseteq Procs
  /\ masked \subseteq Pinned
  /\ aim \in [Walks -> [suspend : BOOLEAN, listed : SUBSET Procs]]
  /\ word \in [gen : Nat, by : Stops \cup {Nobody}] /\ spare \in Stops \cup {Nobody}
  /\ mode \in [Stops -> {"kill", "escalate", "spare"}] /\ epoch \in [Stops -> Nat]
  /\ closed \in {"no", "killed", "spared", "unspared", "died"}

Init ==
  /\ pc = [c \in Joins \cup Stops \cup Walks |-> "idle"]
  /\ owner = Nobody
  /\ life = [p \in Procs |-> IF p \in Adoptions THEN "live" ELSE "none"]
  /\ held = [p \in Procs |-> 0]
  /\ members = {} /\ ran = Adoptions /\ masked = {} /\ early = {}
  /\ aim = [w \in Walks |-> [suspend |-> FALSE, listed |-> {}]]
  /\ word = [gen |-> 0, by |-> Nobody] /\ spare = Nobody
  /\ mode = [s \in Stops |-> "kill"] /\ epoch = [s \in Stops |-> 0]
  /\ closed = "no"

Open == closed = "no"

Moves(c, from, to) == Open /\ pc[c] = from /\ pc' = [pc EXCEPT ![c] = to]

Live(ps) == {p \in ps : life[p] = "live"}

\* The kernel ends them, suspended or not.
Ended(ps) == [p \in Procs |-> IF p \in Live(ps) THEN "gone" ELSE life[p]]

-----------------------------------------------------------------------------
(* The processes.                                                             *)

\* A child of a member is a member: no breakaway is allowed.
Forks(k) ==
  /\ Open
  /\ life[k] = "none" /\ life[Parent[k]] = "live" /\ held[Parent[k]] = 0
  /\ life' = [life EXCEPT ![k] = "live"]
  /\ ran' = ran \cup {k}
  /\ members' = IF Parent[k] \in members THEN members \cup {k} ELSE members
  /\ UNCHANGED <<pc, owner, held, masked, early, aim, latchVars, stopVars, closed>>

Exits(p) ==
  /\ Open
  /\ life[p] = "live" /\ held[p] = 0
  /\ life' = Ended({p})
  /\ UNCHANGED <<pc, owner, held, members, ran, masked, early, aim, latchVars, stopVars, closed>>

-----------------------------------------------------------------------------
(* Spawning, plainly (spawn) or under a pseudo-terminal (contain_pty_child).  *)

\* CREATE_SUSPENDED.
Creates(l) ==
  /\ \/ /\ Moves(l, "idle", "created")
        /\ life' = [life EXCEPT ![l] = "live"]
        /\ held' = [held EXCEPT ![l] = 1]
     \/ /\ Moves(l, "idle", "refused")
        /\ UNCHANGED <<life, held>>
  /\ UNCHANGED <<owner, members, ran, masked, early, aim, latchVars, stopVars, closed>>

\* Mutant of Assigns: a refused assignment is let pass.
AssignsOrNot(l) ==
  /\ owner = Nobody
  /\ Moves(l, "created", "assigned") /\ owner' = l
  /\ members' = members \cup {l} \/ UNCHANGED members
  /\ UNCHANGED <<life, held, ran, masked, early, aim, latchVars, stopVars, closed>>

\* The lock is held from the assignment to the end of the call.
Assigns(l) ==
  /\ owner = Nobody
  /\ \/ /\ Moves(l, "created", "assigned") /\ owner' = l
        /\ members' = members \cup {l}
     \/ /\ Moves(l, "created", "failing")   \* a nested job, or a limit
        /\ UNCHANGED <<owner, members>>
  /\ UNCHANGED <<life, held, ran, masked, early, aim, latchVars, stopVars, closed>>

\* A refused mask ends the call: its lock is released, its child still there.
SetsAffinity(l) ==
  /\ l \in Pinned
  /\ \/ /\ Moves(l, "assigned", "pinned") /\ life[l] = "live"
        /\ masked' = masked \cup {l}
        /\ UNCHANGED owner
     \/ /\ Moves(l, "assigned", "failing")
        /\ owner' = Nobody
        /\ UNCHANGED masked
  /\ UNCHANGED <<life, held, members, ran, early, aim, latchVars, stopVars, closed>>

Ready(l) == IF l \in Pinned THEN "pinned" ELSE "assigned"

\* Its threads are resumed until they run. The walk of the snapshot may fail
\* before it met the child's thread, or after.
Resumes(l) ==
  /\ \/ /\ life[l] = "live"
        /\ held' = [held EXCEPT ![l] = 0]
        /\ ran' = ran \cup {l}
        /\ \/ Moves(l, Ready(l), "resumed") /\ UNCHANGED owner
           \/ Moves(l, Ready(l), "failing") /\ owner' = Nobody
     \/ /\ Moves(l, Ready(l), "failing") /\ owner' = Nobody
        /\ UNCHANGED <<held, ran>>
  /\ UNCHANGED <<life, members, masked, early, aim, latchVars, stopVars, closed>>

\* SkipDropKill::clear.
Rearms(j) ==
  /\ Moves(j, IF j \in Spawns THEN "resumed" ELSE "assigned", "armed")
  /\ word' = [gen |-> word.gen + 1, by |-> Nobody]
  /\ spare' = Nobody
  /\ UNCHANGED <<owner, procVars, aim, stopVars, closed>>

Returns(j) ==
  /\ Moves(j, "armed", "joined")
  /\ owner' = IF owner = j THEN Nobody ELSE owner
  /\ UNCHANGED <<procVars, aim, latchVars, stopVars, closed>>

\* The guard of a child that is not contained, or its rollback under a
\* pseudo-terminal, kills it once the lock is free.
KillsChild(l) ==
  /\ Moves(l, "failing", "failed")
  /\ life' = Ended({l})
  /\ UNCHANGED <<owner, held, members, ran, masked, early, aim, latchVars, stopVars, closed>>

-----------------------------------------------------------------------------
(* Adopting.                                                                  *)

\* By a handle, which is opened once if there was only a number. Who has exited
\* is adopted all the same.
Adopts(a) ==
  /\ \/ /\ Moves(a, "idle", "assigned") /\ life[a] = "live"
        /\ members' = members \cup {a}
     \/ /\ Moves(a, "idle", IF life[a] = "gone" THEN "joined" ELSE "refused")
        /\ UNCHANGED members
  /\ UNCHANGED <<owner, life, held, ran, masked, early, aim, latchVars, stopVars, closed>>

-----------------------------------------------------------------------------
(* suspend and resume.                                                        *)

\* Mutant of WalkLists: the walk does not take the lock.
WalkListsUnlocked(w) ==
  /\ Moves(w, "idle", "walking")
  /\ \E s \in BOOLEAN : aim' = [aim EXCEPT ![w] = [suspend |-> s, listed |-> Live(members)]]
  /\ UNCHANGED <<owner, procVars, latchVars, stopVars, closed>>

WalkLists(w) ==
  /\ owner = Nobody
  /\ Moves(w, "idle", "walking") /\ owner' = w
  /\ \E s \in BOOLEAN : aim' = [aim EXCEPT ![w] = [suspend |-> s, listed |-> Live(members)]]
  /\ UNCHANGED <<procVars, latchVars, stopVars, closed>>

\* Those of the listed it reaches; threads that cannot be opened are left out, and
\* the first error is what the call returns.
WalkReaches(w, ps) ==
  LET next == [p \in Procs |-> IF p \notin ps THEN held[p]
                               ELSE IF aim[w].suspend THEN held[p] + 1
                               ELSE IF held[p] = 0 THEN 0 ELSE held[p] - 1]
      let  == {p \in ps \ ran : next[p] = 0}
  IN  held' = next /\ ran' = ran \cup let /\ early' = early \cup let

WalkVisits(w) ==
  /\ Moves(w, "walking", "walked")
  /\ \E ps \in SUBSET Live(aim[w].listed) : WalkReaches(w, ps)
  /\ owner' = IF owner = w THEN Nobody ELSE owner
  /\ UNCHANGED <<life, members, masked, aim, latchVars, stopVars, closed>>

-----------------------------------------------------------------------------
(* kill_all and graceful_shutdown.                                            *)

\* A soft tier exists if a live member leads a console group or has a window. The
\* generation is snapshotted before anything is done to the members.
StopBegins(s) ==
  /\ \E m \in {"kill", "escalate", "spare"}, soft \in BOOLEAN :
       /\ soft => m # "kill" /\ Live(members) # {}
       /\ mode' = [mode EXCEPT ![s] = m]
       /\ Moves(s, "idle", IF soft THEN "polling" ELSE IF m = "spare" THEN "sparing" ELSE "killing")
  /\ epoch' = [epoch EXCEPT ![s] = word.gen]
  /\ UNCHANGED <<owner, procVars, aim, latchVars, closed>>

\* Drained, or at the deadline: the last read decides. Or its future is dropped.
Polls(s) ==
  /\ \/ mode[s] = "spare" /\ Moves(s, "polling", "sparing")
     \/ mode[s] = "escalate" /\ Live(members) # {} /\ Moves(s, "polling", "killing")
     \/ mode[s] = "escalate" /\ Live(members) = {} /\ Moves(s, "polling", "over")
     \/ Moves(s, "polling", "over")
  /\ UNCHANGED <<owner, procVars, aim, latchVars, stopVars, closed>>

\* TerminateJobObject, at once for all members; or it fails.
KillsAll(s) ==
  /\ Moves(s, "killing", "over")
  /\ life' = Ended(members) \/ UNCHANGED life
  /\ UNCHANGED <<owner, held, members, ran, masked, early, aim, latchVars, stopVars, closed>>

\* SkipDropKill::request exchanges "armed at this generation" for "spared".
Taken(s) == word = [gen |-> epoch[s], by |-> Nobody]

Requests(s) ==
  /\ Moves(s, "sparing", "over")
  /\ IF Taken(s) THEN word' = [word EXCEPT !.by = s] ELSE UNCHANGED word
  /\ spare' = IF word.gen = epoch[s] THEN s ELSE spare
  /\ UNCHANGED <<owner, procVars, aim, stopVars, closed>>

-----------------------------------------------------------------------------
(* The end of the job.                                                        *)

Quiet == \A c \in DOMAIN pc : pc[c] \in {"idle", "refused", "joined", "failed", "walked", "over"}

\* Drop takes the limit off if it is to spare the members, which may fail, and
\* closes the handle.
DropJob ==
  /\ Open /\ Quiet
  /\ \/ word.by = Nobody /\ closed' = "killed" /\ life' = Ended(members)
     \/ word.by # Nobody /\ closed' = "spared" /\ UNCHANGED life
     \/ word.by # Nobody /\ closed' = "unspared" /\ life' = Ended(members)
  /\ UNCHANGED <<pc, owner, held, members, ran, masked, early, aim, latchVars, stopVars>>

\* The host dies: no guard runs, and the kernel closes its handles.
HostDies ==
  /\ Open
  /\ closed' = "died" /\ life' = Ended(members)
  /\ UNCHANGED <<pc, owner, held, members, ran, masked, early, aim, latchVars, stopVars>>

Next ==
  \/ \E l \in Spawns : Creates(l) \/ Assigns(l) \/ SetsAffinity(l) \/ Resumes(l) \/ KillsChild(l)
  \/ \E a \in Adoptions : Adopts(a)
  \/ \E j \in Joins : Rearms(j) \/ Returns(j)
  \/ \E k \in Offspring : Forks(k)
  \/ \E p \in Procs : Exits(p)
  \/ \E w \in Walks : WalkLists(w) \/ WalkVisits(w)
  \/ \E s \in Stops : StopBegins(s) \/ Polls(s) \/ KillsAll(s) \/ Requests(s)
  \/ DropJob \/ HostDies

Spec == Init /\ [][Next]_vars

-----------------------------------------------------------------------------
\* When the job is closed, by Drop or by the death of the host at any step of a
\* spawn, what it started does not outlive it, but for a child that was not assigned
\* yet: it never ran, nor will it. Drop spares whom it finds exactly if a shutdown
\* spared them and no process has joined since; a spawn that failed did not join.
CloseIsJust ==
  /\ closed \in {"killed", "unspared"} => Live(Spawns \cup Offspring) = {}
  /\ closed = "died" => Live(Spawns \cup Offspring) \cap ran = {}
  /\ closed = "killed" => spare = Nobody
  /\ closed = "spared" => spare # Nobody

\* A child whose spawn succeeds is let run by that spawn, with its affinity set:
\* no walk meets it before, to release it (suspend_lock).
NoEarlyRun ==
  \A l \in Spawns :
    pc[l] \in {"resumed", "armed", "joined"} => l \notin early /\ (l \in Pinned => l \in masked)
==============================================================================
