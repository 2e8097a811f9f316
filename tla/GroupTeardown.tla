---------------------------- MODULE GroupTeardown ----------------------------
(***************************************************************************)
(* A POSIX process group shared by several threads (src/src/sys/pgroup.rs),*)
(* its kill-on-drop latch (src/src/sys/skip_drop_kill.rs) and the graceful *)
(* shutdown driver that may spare its survivors (src/src/sys/graceful.rs). *)
(*                                                                         *)
(* Members join by being spawned, by being adopted, or by a PTY launch that*)
(* may still be rolled back; each joining re-arms Drop's hard kill.  A     *)
(* shutdown that does not escalate asks Drop to spare whoever outlived it. *)
(* The two meet on one atomic word.  Adoption, broadcasts, reads of the    *)
(* tables and rollback hold the ownership mutex; tracking a spawned child  *)
(* and every access to the word do not.  One call of the model is one call *)
(* of a method of the group, on a thread of its own; a joining call is     *)
(* named after the member it brings.                                       *)
(***************************************************************************)
EXTENDS Integers, FiniteSets

CONSTANTS
    Spawns,    \* calls of spawn
    Launches,  \* calls of spawn_pty, which may be rolled back
    Adoptions, \* calls of adopt or adopt_external
    Stops,     \* calls of kill_all or graceful_shutdown
    Crews,     \* the joining calls that may be made together; others were refused
    Modes,     \* what a stop may be asked: "kill", "escalate", "spare"
    Deaf,      \* members that refuse the group's signals (a changed uid)
    Nobody     \* no call

Joins == Spawns \cup Launches \cup Adoptions
Calls == Joins \cup Stops

ASSUME CallsAssumption ==
    /\ Joins \cap Stops = {}
    /\ Spawns \cap Launches = {}
    /\ (Spawns \cup Launches) \cap Adoptions = {}
    /\ Modes \subseteq {"kill", "escalate", "spare"}
    /\ Deaf \subseteq Joins
    /\ Nobody \notin Calls

VARIABLES
    pc,         \* where each call is
    owner,      \* the call that holds the ownership mutex, or Nobody
    word,       \* SkipDropKill: the generation, and the shutdown whose spare is set
    seen,       \* the word as the clear loop of a joining call last loaded it
    displaced,  \* the DisplacedSpare that call's clear returned
    mode,       \* what each stop was asked to do
    epoch,      \* ShutdownEpoch: the generation a stop snapshotted
    failed,     \* a hard-kill sweep of the stop surfaced an error
    unread,     \* whose refusal a sweep of the stop could not classify (history)
    home,       \* the table that tracks, or is to track, each member
    tracked,    \* the members in the two tables
    proc,       \* each member's process: "none", "live", "zombie" or "gone"
    dropped,    \* the group was dropped
    heard,      \* which stops' soft signal was sent to each member (history)
    before,     \* who had joined when a stop began (history)
    spareAt     \* the generation of the last spare that took, or Never if a
                \* member joined since (history)

latch   == <<word, seen, displaced, epoch, spareAt>>
tables  == <<home, tracked>>
stops   == <<mode, failed, unread, before>>
vars    == <<pc, owner, latch, tables, stops, proc, dropped, heard>>

JoinPc == {"idle", "refused", "forked", "tracked", "locked", "loaded", "cleared",
           "undoing", "killed", "joined", "undone"}
StopPc == {"idle", "soft", "softSolos", "poll", "pollSolos", "decide", "decideSolos",
           "kill", "killSolos", "request", "done", "abandoned"}
Over   == {"idle", "refused", "joined", "undone", "done", "abandoned"}
Holds  == {"softSolos", "pollSolos", "decideSolos", "killSolos", "killed"}
Tables == {"groups", "solos"}
Word   == [gen : Nat, by : Stops \cup {Nobody}]
Never  == -1

Init ==
    /\ \E crew \in Crews :
         pc = [c \in Calls |-> IF c \in Joins \ crew THEN "refused" ELSE "idle"]
    /\ owner = Nobody
    /\ word = [gen |-> 0, by |-> Nobody]
    /\ seen = [j \in Joins |-> word]
    /\ displaced = [j \in Joins |-> word]
    /\ mode = [s \in Stops |-> "kill"]
    /\ epoch = [s \in Stops |-> 0]
    /\ failed = [s \in Stops |-> FALSE]
    /\ unread = [s \in Stops |-> {}]
    /\ home = [j \in Joins |-> "groups"]
    /\ tracked = {}
    /\ proc = [j \in Joins |-> IF j \in Adoptions THEN "live" ELSE "none"]
    /\ dropped = FALSE
    /\ heard = [j \in Joins |-> {}]
    /\ before = [s \in Stops |-> {}]
    /\ spareAt = Never

Goto(c, place) == pc' = [pc EXCEPT ![c] = place]

Acquire(c) == owner = Nobody /\ owner' = c
Release    == owner' = Nobody

-----------------------------------------------------------------------------
(* Processes.  A member may exit at any time; whoever holds its handle     *)
(* reaps it.  The tables read a zombie as a member still there.            *)

Present(j) == proc[j] \in {"live", "zombie"}

ProcessExits(j) ==
    /\ proc[j] = "live"
    /\ proc' = [proc EXCEPT ![j] = "zombie"]
    /\ UNCHANGED <<pc, owner, latch, tables, stops, dropped, heard>>

HandleReaps(j) ==
    /\ proc[j] = "zombie"
    /\ j \in Adoptions \/ pc[j] \in Over    \* a launch owns its un-reaped child
    /\ proc' = [proc EXCEPT ![j] = "gone"]
    /\ UNCHANGED <<pc, owner, latch, tables, stops, dropped, heard>>

Killed(targets) ==
    [j \in Joins |-> IF j \in targets \ Deaf /\ proc[j] = "live" THEN "zombie" ELSE proc[j]]

-----------------------------------------------------------------------------
(* The latch.                                                              *)

\* Mutants of Rearmed and Displaced: a re-arm that keeps the spare; a token of the
\* generation the exchange replaced.
RearmedSpared(w) == [gen |-> w.gen + 1, by |-> w.by]
DisplacedBefore(w) == w

\* clear's exchange installs this word and returns this token.
Rearmed(w) == [gen |-> w.gen + 1, by |-> Nobody]
Displaced(w) == [gen |-> w.gen + 1, by |-> w.by]

\* request's exchange, from "armed at generation g" to "spared at g".
RequestTakes(g) == word = [gen |-> g, by |-> Nobody]

Request(g, stop) ==
    IF RequestTakes(g)
      THEN word' = [word EXCEPT !.by = stop] /\ spareAt' = g
      ELSE UNCHANGED <<word, spareAt>>

\* clear loads the word, then exchanges it; a failed exchange reloads.
ClearLoads(j) ==
    /\ pc[j] \in {"tracked", "locked"}
    /\ seen' = [seen EXCEPT ![j] = word]
    /\ Goto(j, "loaded")
    /\ UNCHANGED <<owner, word, displaced, epoch, spareAt, tables, stops, proc, dropped, heard>>

ClearExchanges(j) ==
    /\ pc[j] = "loaded"
    /\ \/ /\ seen[j] = word
          /\ word' = Rearmed(word)
          /\ displaced' = [displaced EXCEPT ![j] = Displaced(word)]
          /\ Goto(j, "cleared")
          /\ UNCHANGED seen
       \/ /\ seen[j] # word
          /\ seen' = [seen EXCEPT ![j] = word]
          /\ UNCHANGED <<pc, word, displaced>>
    /\ UNCHANGED <<owner, epoch, spareAt, tables, stops, proc, dropped, heard>>

-----------------------------------------------------------------------------
(* Spawning, plainly or under a pseudo-terminal: the child is tracked, then*)
(* the backstop is re-armed, all without the ownership mutex.              *)

Spawn(j) ==
    /\ ~dropped /\ j \in Spawns \cup Launches /\ pc[j] = "idle"
    /\ \/ proc' = [proc EXCEPT ![j] = "live"] /\ Goto(j, "forked")
       \/ Goto(j, "refused") /\ UNCHANGED proc
    /\ UNCHANGED <<owner, latch, tables, stops, dropped, heard>>

Track(j) ==
    /\ pc[j] = "forked"
    /\ tracked' = tracked \cup {j}
    /\ Goto(j, "tracked")
    /\ UNCHANGED <<owner, latch, home, stops, proc, dropped, heard>>

SpawnReturns(j) ==
    /\ j \in Spawns \cup Launches /\ pc[j] = "cleared"
    /\ spareAt' = Never
    /\ Goto(j, "joined")
    /\ UNCHANGED <<owner, word, seen, displaced, epoch, tables, stops, proc, dropped, heard>>

\* The PTY's master set-up fails after the child exists.
LaunchFails(j) ==
    /\ j \in Launches /\ pc[j] = "cleared"
    /\ Goto(j, "undoing")
    /\ UNCHANGED <<owner, latch, tables, stops, proc, dropped, heard>>

\* rollback_pty_spawn, under the mutex: kill and forget the child ...
RollbackKills(j) ==
    /\ pc[j] = "undoing"
    /\ Acquire(j)
    /\ proc' = Killed({j})
    /\ tracked' = tracked \ {j}
    /\ Goto(j, "killed")
    /\ UNCHANGED <<latch, home, stops, dropped, heard>>

\* ... then restore the spare its clear displaced, if it displaced one.
RollbackRestores(j) ==
    /\ pc[j] = "killed"
    /\ IF displaced[j].by = Nobody
         THEN UNCHANGED <<word, spareAt>>
         ELSE Request(displaced[j].gen, displaced[j].by)
    /\ Release
    /\ Goto(j, "undone")
    /\ UNCHANGED <<seen, displaced, epoch, tables, stops, proc, dropped, heard>>

-----------------------------------------------------------------------------
(* Adoption: under the mutex from setpgid to the tracking of the member,   *)
(* with the re-arming before the tracking.                                 *)

Adopt(j) ==
    /\ ~dropped /\ j \in Adoptions /\ pc[j] = "idle"
    /\ \/ /\ Acquire(j)
          /\ proc[j] # "gone"
          /\ \E t \in Tables : home' = [home EXCEPT ![j] = t]
          /\ Goto(j, "locked")
       \/ /\ owner = Nobody            \* already exited, or not ours to adopt
          /\ Goto(j, "refused")
          /\ UNCHANGED <<owner, home>>
    /\ UNCHANGED <<latch, tracked, stops, proc, dropped, heard>>

\* Mutant: the tracking takes the ownership mutex its caller already holds.
AdoptRelocks(j) ==
    /\ j \in Adoptions /\ pc[j] = "cleared"
    /\ owner = Nobody
    /\ tracked' = tracked \cup {j}
    /\ spareAt' = Never
    /\ Goto(j, "joined")
    /\ UNCHANGED <<owner, word, seen, displaced, epoch, home, stops, proc, dropped, heard>>

\* adopt_external refuses if the process went, and its pid was reused, meanwhile:
\* the entry stays, and so does the re-arming.
AdoptTracks(j) ==
    /\ j \in Adoptions /\ pc[j] = "cleared"
    /\ tracked' = tracked \cup {j}
    /\ Release
    /\ \/ Goto(j, "joined") /\ spareAt' = Never
       \/ proc[j] = "gone" /\ Goto(j, "refused") /\ UNCHANGED spareAt
    /\ UNCHANGED <<word, seen, displaced, epoch, home, stops, proc, dropped, heard>>

-----------------------------------------------------------------------------
(* Stopping.  A sweep visits the group table, then the solo table, holding *)
(* the ownership mutex over both; entries that are gone are pruned.        *)

In(table)      == {j \in tracked : home[j] = table}
Visited(table) == {j \in In(table) : Present(j)}
Pruned(table)  == tracked \ {j \in In(table) : ~Present(j)}
Joined         == {j \in Joins : pc[j] = "joined"}

\* kill_all, or graceful::run up to its epoch snapshot.
StopBegins(s) ==
    /\ ~dropped /\ s \in Stops /\ pc[s] = "idle"
    /\ \E m \in Modes :
         /\ mode' = [mode EXCEPT ![s] = m]
         /\ Goto(s, IF m = "kill" THEN "kill" ELSE "soft")
    /\ epoch' = [epoch EXCEPT ![s] = word.gen]
    /\ before' = [before EXCEPT ![s] = Joined]
    /\ UNCHANGED <<owner, word, seen, displaced, spareAt, tables, failed, unread, proc, dropped, heard>>

SoftSweep(s, table) ==
    /\ heard' = [j \in Joins |-> IF j \in Visited(table) THEN heard[j] \cup {s} ELSE heard[j]]
    /\ tracked' = Pruned(table)
    /\ UNCHANGED <<latch, home, stops, proc, dropped>>

SoftGroups(s) ==
    /\ pc[s] = "soft"
    /\ Acquire(s)
    /\ SoftSweep(s, "groups")
    /\ Goto(s, "softSolos")

SoftSolos(s) ==
    /\ pc[s] = "softSolos"
    /\ SoftSweep(s, "solos")
    /\ Release
    /\ Goto(s, "poll")

\* any_alive reads the two tables under the mutex; the second only if the
\* first shows nobody.
ReadGroups(s, solosPc, nextPc) ==
    \/ /\ owner = Nobody
       /\ Visited("groups") # {}
       /\ Goto(s, nextPc)
       /\ UNCHANGED owner
    \/ /\ Acquire(s)
       /\ Visited("groups") = {}
       /\ Goto(s, solosPc)

\* The last turn of the polling loop: drained, or at the deadline.  The turns
\* before it, which sleep, only read.
PollGroups(s) ==
    /\ pc[s] = "poll"
    /\ ReadGroups(s, "pollSolos", "decide")
    /\ UNCHANGED <<latch, tables, stops, proc, dropped, heard>>

PollSolos(s) ==
    /\ pc[s] = "pollSolos"
    /\ Release
    /\ Goto(s, "decide")
    /\ UNCHANGED <<latch, tables, stops, proc, dropped, heard>>

\* The caller drops the future while it sleeps.
Abandon(s) ==
    /\ pc[s] = "poll"
    /\ Goto(s, "abandoned")
    /\ UNCHANGED <<owner, latch, tables, stops, proc, dropped, heard>>

AfterDrain(s, drained) ==
    IF mode[s] = "spare" THEN "request" ELSE IF drained THEN "done" ELSE "kill"

\* Mutant: the decision to escalate reads the group table alone.
DecideGroupsOnly(s) ==
    /\ pc[s] = "decide"
    /\ owner = Nobody
    /\ Goto(s, AfterDrain(s, Visited("groups") = {}))
    /\ UNCHANGED <<owner, latch, tables, stops, proc, dropped, heard>>

DecideGroups(s) ==
    /\ pc[s] = "decide"
    /\ ReadGroups(s, "decideSolos", AfterDrain(s, FALSE))
    /\ UNCHANGED <<latch, tables, stops, proc, dropped, heard>>

DecideSolos(s) ==
    /\ pc[s] = "decideSolos"
    /\ Release
    /\ Goto(s, AfterDrain(s, Visited("solos") = {}))
    /\ UNCHANGED <<latch, tables, stops, proc, dropped, heard>>

Refusing(table) == {j \in Visited(table) \cap Deaf : proc[j] = "live"}

\* A signal a live member refuses is an error of the sweep if the member's state
\* can be read (eperm_hit_live_target): where there is no reader (the BSDs), or it
\* fails (/proc hidden, no descriptor left), the refusal passes for a zombie's.
HardSweep(s, table) ==
    /\ proc' = Killed(Visited(table))
    /\ tracked' = Pruned(table)
    /\ \E blind \in SUBSET Refusing(table) :
         /\ failed' = [failed EXCEPT ![s] = @ \/ blind # Refusing(table)]
         /\ unread' = [unread EXCEPT ![s] = @ \cup blind]
    /\ UNCHANGED <<latch, home, mode, before, dropped, heard>>

KillGroups(s) ==
    /\ pc[s] = "kill"
    /\ Acquire(s)
    /\ HardSweep(s, "groups")
    /\ Goto(s, "killSolos")

KillSolos(s) ==
    /\ pc[s] = "killSolos"
    /\ HardSweep(s, "solos")
    /\ Release
    /\ Goto(s, "done")

RequestSpare(s) ==
    /\ pc[s] = "request"
    /\ Request(epoch[s], s)
    /\ Goto(s, "done")
    /\ UNCHANGED <<owner, seen, displaced, epoch, tables, stops, proc, dropped, heard>>

-----------------------------------------------------------------------------
(* Drop runs when no call borrows the group any more.                      *)

Quiet == \A c \in Calls : pc[c] \in Over

DropGroup ==
    /\ Quiet /\ ~dropped
    /\ dropped' = TRUE
    /\ proc' = IF word.by = Nobody THEN Killed(tracked) ELSE proc
    /\ UNCHANGED <<pc, owner, latch, tables, stops, heard>>

JoinStep(j) ==
    \/ Spawn(j) \/ Track(j) \/ SpawnReturns(j)
    \/ LaunchFails(j) \/ RollbackKills(j) \/ RollbackRestores(j)
    \/ Adopt(j) \/ AdoptTracks(j)
    \/ ClearLoads(j) \/ ClearExchanges(j)
    \/ ProcessExits(j) \/ HandleReaps(j)

StopStep(s) ==
    \/ StopBegins(s) \/ SoftGroups(s) \/ SoftSolos(s)
    \/ PollGroups(s) \/ PollSolos(s) \/ Abandon(s)
    \/ DecideGroups(s) \/ DecideSolos(s)
    \/ KillGroups(s) \/ KillSolos(s) \/ RequestSpare(s)

Next ==
    \/ \E j \in Joins : JoinStep(j)
    \/ \E s \in Stops : StopStep(s)
    \/ DropGroup

Spec == Init /\ [][Next]_vars

\* A call that has begun keeps running: its thread is scheduled, and the mutex
\* is only held over a bounded stretch of code.
JoinRuns(j) ==
    \/ Track(j) \/ SpawnReturns(j) \/ LaunchFails(j) \/ RollbackKills(j) \/ RollbackRestores(j)
    \/ AdoptTracks(j) \/ ClearLoads(j) \/ ClearExchanges(j)

StopRuns(s) ==
    \/ SoftGroups(s) \/ SoftSolos(s) \/ PollGroups(s) \/ PollSolos(s)
    \/ DecideGroups(s) \/ DecideSolos(s) \/ KillGroups(s) \/ KillSolos(s) \/ RequestSpare(s)

FairSpec ==
    /\ Spec
    /\ \A j \in Joins : WF_vars(JoinRuns(j))
    /\ \A s \in Stops : WF_vars(StopRuns(s))

-----------------------------------------------------------------------------
(* Properties.                                                             *)

\* The types, and what a snapshot or token can name: a generation the latch has
\* already reached, never one ahead of it.
TypeOK ==
    /\ pc \in [Calls -> JoinPc \cup StopPc]
    /\ \A j \in Joins : pc[j] \in JoinPc
    /\ \A s \in Stops : pc[s] \in StopPc
    /\ owner \in Calls \cup {Nobody}
    /\ word \in Word
    /\ seen \in [Joins -> Word]
    /\ displaced \in [Joins -> Word]
    /\ mode \in [Stops -> {"kill", "escalate", "spare"}]
    /\ epoch \in [Stops -> Nat]
    /\ failed \in [Stops -> BOOLEAN]
    /\ unread \in [Stops -> SUBSET Deaf]
    /\ home \in [Joins -> Tables]
    /\ tracked \in SUBSET Joins
    /\ proc \in [Joins -> {"none", "live", "zombie", "gone"}]
    /\ dropped \in BOOLEAN
    /\ heard \in [Joins -> SUBSET Stops]
    /\ before \in [Stops -> SUBSET Joins]
    /\ spareAt \in Nat \cup {Never} /\ spareAt <= word.gen
    /\ \A j \in Joins : displaced[j].gen <= word.gen
    /\ \A s \in Stops : epoch[s] <= word.gen

\* While a spare is in force, every member that has joined and still exists was
\* sent the soft signal of the very shutdown whose spare it is: nobody who came
\* too late to be asked to stop is left running by Drop.  Spawning relies on the
\* order of tracking and re-arming for this, adoption on the ownership mutex,
\* and rollback on the generation in its token.
NewcomerNotSpared ==
    word.by # Nobody =>
        \A j \in Joins : pc[j] = "joined" /\ Present(j) => word.by \in heard[j]

\* Once the group is dropped, a member of it that is alive either refuses
\* signals or was left by a shutdown that did not escalate and had warned it.
DropKillsUnspared ==
    dropped => \A j \in Joins :
        pc[j] = "joined" /\ proc[j] = "live" /\ j \notin Deaf =>
            \E s \in heard[j] : mode[s] = "spare" /\ pc[s] = "done"

\* No member joined since a spare took.
SpareHeld == spareAt # Never

\* An adoption re-armed the latch after the spare took, and was refused: the code
\* drops the spare it displaced (adopt_external).
RearmedInVain == \E a \in Adoptions : pc[a] = "refused" /\ displaced[a].gen > spareAt

\* A spare survives a launch that failed: with every call returned and no member
\* joined since the spare took, Drop still finds it, unless a refused adoption took
\* it away. It holds of one launch at a time only: of two that overlap, the first to
\* be undone hands its token back too late, and the spare is lost.
SpareSurvivesRollback == Quiet /\ SpareHeld => word.by # Nobody \/ RearmedInVain

\* kill_all, or a shutdown that escalates, that returns without an error leaves no
\* member alive that had joined when it began, in either table, but one that
\* refused its signal and whose state could not be read.
KillReachesMembers ==
    \A s \in Stops :
        pc[s] = "done" /\ mode[s] # "spare" /\ ~failed[s] =>
            \A j \in before[s] : proc[j] = "live" => j \in unread[s]

\* Every call that began returns: nobody waits for ever on the ownership mutex
\* or in the latch's exchange loop.
CallsReturn == \A c \in Calls : pc[c] # "idle" ~> pc[c] \in Over

-----------------------------------------------------------------------------
(* Why they hold: an inductive invariant.                                  *)

\* Members whose joining has re-armed the latch, and that are not being undone.
Standing == {j \in Joins : pc[j] \in {"cleared", "joined"}}

Warned(s, j) == Present(j) => s \in heard[j]

\* A spawned child and an adopted process take paths of their own.
PlaceInv ==
    /\ \A j \in Spawns \cup Launches : pc[j] # "locked"
    /\ \A j \in Adoptions : pc[j] \notin {"forked", "tracked", "undoing", "killed", "undone"}

\* The mutex is held by the one call inside its critical section.
InLock(c) == pc[c] \in Holds \/ (c \in Adoptions /\ pc[c] \in {"locked", "loaded", "cleared"})
LockInv == \A c \in Calls : InLock(c) <=> owner = c

\* A spawned child is in the group table before the latch is re-armed for it, an
\* adopted process by the time the adoption returns, and neither leaves before
\* it is gone.
TrackInv ==
    /\ \A j \in Spawns \cup Launches :
         /\ home[j] = "groups"
         /\ pc[j] \in {"tracked", "loaded", "cleared", "undoing", "joined"} /\ Present(j)
              => j \in tracked
    /\ \A j \in Adoptions : pc[j] = "joined" /\ Present(j) => j \in tracked

\* A stop whose snapshot is still current has warned all who stand, table by table.
EpochInv ==
    \A s \in Stops : epoch[s] = word.gen =>
        \A j \in Standing :
            /\ pc[s] \in {"softSolos", "poll", "pollSolos", "decide", "decideSolos", "request"}
                 /\ home[j] = "groups" => Warned(s, j)
            /\ pc[s] \in {"poll", "pollSolos", "decide", "decideSolos", "request"}
                 /\ home[j] = "solos" => Warned(s, j)

LatchInv == word.by # Nobody => \A j \in Standing : Warned(word.by, j)

\* A token that can still be restored names a spare all others who stand heard of.
TokenInv ==
    \A p \in Joins :
        /\ pc[p] \in {"cleared", "undoing", "killed"}
        /\ displaced[p].by # Nobody /\ displaced[p].gen = word.gen
        => \A j \in Standing \ {p} : Warned(displaced[p].by, j)

\* A spare, set or displaced, is that of a non-escalating stop that has returned.
AuthorInv ==
    /\ \A s \in Stops : pc[s] = "request" => mode[s] = "spare"
    /\ \A s \in Stops :
         s = word.by \/ (\E j \in Joins : s = displaced[j].by)
         => pc[s] = "done" /\ mode[s] = "spare"

\* After Drop nobody calls the group, and who lives on unspared refused its kill.
DropInv ==
    dropped => /\ Quiet
               /\ word.by = Nobody =>
                    \A j \in Joins : pc[j] = "joined" /\ proc[j] = "live" => j \in Deaf

\* How far a hard stop has got with those who had joined when it began.
KillInv ==
    \A s \in Stops : \A j \in Joins : j \in before[s] =>
        /\ pc[j] = "joined"
        /\ pc[s] = "decideSolos" /\ home[j] = "groups" => proc[j] # "live"
        /\ pc[s] = "killSolos" /\ home[j] = "groups" => (proc[j] = "live" => failed[s] \/ j \in unread[s])
        /\ pc[s] = "done" /\ mode[s] # "spare" => (proc[j] = "live" => failed[s] \/ j \in unread[s])

\* No two launches have a token at the same time.
LaunchesInTurn ==
    \A p, q \in Launches :
        pc[p] \in {"cleared", "undoing", "killed"} /\ pc[q] \in {"cleared", "undoing", "killed"}
        => p = q

\* A spare that was displaced is still owed: by a spawn that is about to join, by an
\* adoption that may, or by the launch whose token can restore it.
SpareInv ==
    SpareHeld /\ word.by = Nobody =>
        \/ \E j \in Spawns : pc[j] = "cleared"
        \/ \E a \in Adoptions : pc[a] = "cleared" /\ displaced[a].gen > spareAt
        \/ RearmedInVain
        \/ \E p \in Launches :
             /\ pc[p] \in {"cleared", "undoing", "killed"}
             /\ displaced[p].by # Nobody /\ displaced[p].gen = word.gen

IInv ==
    /\ TypeOK /\ PlaceInv /\ LockInv /\ TrackInv
    /\ EpochInv /\ LatchInv /\ TokenInv /\ AuthorInv
    /\ DropInv /\ KillInv

=============================================================================
