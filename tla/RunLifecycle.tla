---------------------------- MODULE RunLifecycle ----------------------------
(***************************************************************************)
(* One RunningProcess (src/src/running): the handle that owns a child, the *)
(* watchdog tasks it arms, and the pid gate and timeout arbiter they share.*)
(*                                                                         *)
(* The hard part is that four kinds of task act on one pid: the handle's   *)
(* own future (probe, wait, wait_exit, Drop), the cancel / deadline /      *)
(* inactivity watchdogs with the detached grace killers they may turn      *)
(* into, the reaper Drop may hand the child to, and the runtime's orphan   *)
(* reaper.  Reaping the child frees the pid, the operating system may then *)
(* give it to a stranger, and `abort` does not stop a task that is already *)
(* inside a poll.  Every step below is a stretch of code with no other     *)
(* task's effect inside it: a critical section of the gate is split into   *)
(* its acquisition and its body.                                           *)
(***************************************************************************)
EXTENDS Integers, FiniteSets

CONSTANTS
    Configs,   \* the Command configurations a behaviour may start from
    Verbs,     \* the handle operations the caller uses
    MayFail,   \* may a kill or the bounded reap of a teardown fail?
    Abandon    \* may the caller drop a pending wait future?

Watchdogs == {"cancel", "deadline", "inactivity"}

ConfigSpace == [own : BOOLEAN,          \* private group / caller's shared group
                cancel : BOOLEAN,       \* a cancellation token is set
                timeout : BOOLEAN, inactivity : BOOLEAN,
                timeoutGrace : BOOLEAN, cancelGrace : BOOLEAN]

ASSUME ConfigsAssumption ==
    /\ Configs \subseteq ConfigSpace
    /\ Verbs \subseteq {"stream", "probe", "wait", "waitExit", "startKill"}
    /\ MayFail \in BOOLEAN
    /\ Abandon \in BOOLEAN

VARIABLES
    conf,       \* the configuration of this run, never changed
    cancelled,  \* the token: monotone
    due,        \* the absolute deadline has elapsed: monotone
    quiet,      \* the inactivity window has elapsed since the last output
    child,      \* "running", "zombie" (exited, pid kept) or "freed" (reaped)
    killedBy,   \* who ended the child ("none" while it runs)
    retired,    \* GateState.retired
    holder,     \* which task is inside the gate's mutex, or "none"
    arbiter,    \* timeout_state
    watch,      \* where each watchdog task is (with its detached killer)
    aborted,    \* watchdogs whose abort was requested in the middle of a poll
    failure,    \* the teardown_failure slot: "none" or the cause it records
    owner,      \* where the handle's own code is
    op,         \* the operation the handle's code is executing
    why,        \* the select! arm that won
    outcome,    \* the classified outcome of the reap just driven
    snapshot,   \* cancel_at_exit: "none", "yes" or "no"
    probed,     \* what a readiness probe saw when it reaped, or "none"
    report,     \* what the caller was last told by wait or wait_exit
    handoff,    \* the reaper task Drop hands the child to
    orphaned,   \* the Child was dropped un-reaped: tokio's orphan queue has it
    stray       \* a raw signal was sent to a freed pid (history)

env     == <<conf, cancelled, due, quiet>>
proc    == <<child, killedBy>>
gate    == <<retired, holder>>
tasks   == <<watch, aborted>>
self    == <<owner, op, why>>
results == <<outcome, snapshot, probed, report>>
ending  == <<handoff, orphaned>>
vars == <<env, proc, gate, arbiter, tasks, failure, self, results, ending, stray>>

-----------------------------------------------------------------------------
(* Pieces shared by several actions.                                       *)

Arbiters == {"pending", "exited", "timedOut", "inactive"}
WatchPc  == {"unarmed", "waiting", "claim", "check", "act", "kill", "killLocked",
             "grace", "soft", "softLocked", "poll", "done"}
OwnerPc  == {"held", "retire", "poll", "parked", "retireCancel", "lock", "reap", "reaped",
             "claim", "settle", "timers", "teardown", "killRetire", "confirm",
             "grace", "graceRetire", "failed", "deliver", "drop", "handoff",
             "dropRetire", "dropChild", "gone"}
Outcomes == {"exited", "signalled", "timedOut", "inactive"}
Reports  == Outcomes \cup {"none", "cancelled", "unconfirmed"}

\* Mutant of GateFree: the mutex excludes nobody.
GateOpen == TRUE

GateFree == holder = "none"

\* The compare_exchange from TS_PENDING.
Claim(state) == arbiter' = IF arbiter = "pending" THEN state ELSE arbiter

\* SIGKILL (or any fatal end) delivered for `who`; a zombie is past killing.
Kills(who) ==
    /\ child' = IF child = "running" THEN "zombie" ELSE child
    /\ killedBy' = IF child = "running" THEN who ELSE killedBy

\* A soft signal: the child may die of it or catch it.
Signals(who) == Kills(who) \/ UNCHANGED proc

\* A hard kill that the OS may refuse when MayFail.
TriesToKill(who) == Kills(who) \/ (MayFail /\ UNCHANGED proc)

\* JoinHandle::abort: a task parked at an await is cancelled, one inside a
\* poll goes on to its next await.
Abort(ws) ==
    /\ watch' = [w \in Watchdogs |->
                   IF w \in ws /\ watch[w] \in {"waiting", "grace"}
                   THEN "done" ELSE watch[w]]
    /\ aborted' = aborted \cup
                   {w \in ws : watch[w] \in {"claim", "check", "act"}}

\* The arbiter state a timeout watchdog claims.
Verdict(w) == IF w = "deadline" THEN "timedOut" ELSE "inactive"

\* Mutant of Classified: the arbiter is not consulted.
Unclassified(raw) == raw

\* classify_watchdog_timeout.
Classified(raw) == CASE arbiter = "timedOut" -> "timedOut"
                     [] arbiter = "inactive" -> "inactive"
                     [] OTHER -> raw

Trigger(w) == CASE w = "cancel" -> cancelled
                [] w = "deadline" -> due
                [] w = "inactivity" -> quiet

GraceOf(w) == IF w = "cancel" THEN conf.cancelGrace ELSE conf.timeoutGrace

\* Weak::upgrade succeeds: the handle, or a task inside a graceful group
\* kill, still has a strong reference.
GroupAlive ==
    conf.own /\ (owner # "gone" \/ \E w \in Watchdogs : watch[w] = "grace")

\* Mutant of Snapshotted: the last observation wins.
LastSnapshot(isCancel) == snapshot' = IF isCancel THEN "yes" ELSE "no"

\* cancel_at_exit: the first observation wins.
Snapshotted(isCancel) ==
    snapshot' = IF snapshot = "none" THEN (IF isCancel THEN "yes" ELSE "no")
                ELSE snapshot

Init ==
    /\ conf \in Configs
    /\ cancelled = FALSE /\ due = FALSE /\ quiet = FALSE
    /\ child = "running" /\ killedBy = "none"
    /\ retired = FALSE /\ holder = "none"
    /\ arbiter = "pending"
    /\ watch = [w \in Watchdogs |->
                  IF w = "cancel" /\ conf.cancel THEN "waiting" ELSE "unarmed"]
    /\ aborted = {}
    /\ failure = "none"
    /\ owner = "held" /\ op = "none" /\ why = "none"
    /\ outcome = "exited" /\ snapshot = "none" /\ probed = "none" /\ report = "none"
    /\ handoff = "none" /\ orphaned = FALSE
    /\ stray = FALSE

-----------------------------------------------------------------------------
(* The world: the token, the clocks and the child.                         *)

CancelFires ==
    /\ conf.cancel /\ ~cancelled
    /\ cancelled' = TRUE
    /\ UNCHANGED <<conf, due, quiet, proc, gate, arbiter, tasks, failure, self,
                   results, ending, stray>>

DeadlineElapses ==
    /\ conf.timeout /\ ~due
    /\ due' = TRUE
    /\ UNCHANGED <<conf, cancelled, quiet, proc, gate, arbiter, tasks, failure,
                   self, results, ending, stray>>

OutputQuietens ==
    /\ conf.inactivity /\ ~quiet
    /\ quiet' = TRUE
    /\ UNCHANGED <<conf, cancelled, due, proc, gate, arbiter, tasks, failure,
                   self, results, ending, stray>>

\* Output by the running child opens a new inactivity window.
ChildWrites ==
    /\ quiet /\ child = "running"
    /\ quiet' = FALSE
    /\ UNCHANGED <<conf, cancelled, due, proc, gate, arbiter, tasks, failure,
                   self, results, ending, stray>>

ChildExits ==
    /\ child = "running"
    /\ Kills("itself")
    /\ UNCHANGED <<env, gate, arbiter, tasks, failure, self, results, ending, stray>>

\* tokio's orphan queue reaps a dropped Child, outside the gate.
OrphanReap ==
    /\ orphaned /\ child = "zombie"
    /\ child' = "freed"
    /\ UNCHANGED <<env, killedBy, gate, arbiter, tasks, failure, self, results,
                   ending, stray>>

\* The last strong reference to an own group is gone: its Drop kills the tree.
GroupDropKills ==
    /\ conf.own /\ ~GroupAlive /\ child = "running"
    /\ Kills("drop")
    /\ UNCHANGED <<env, gate, arbiter, tasks, failure, self, results, ending, stray>>

-----------------------------------------------------------------------------
(* The watchdog tasks: await the trigger, claim the arbiter (timeouts),    *)
(* stand down if the gate is retired, then kill.  A shared-group task with *)
(* a grace window goes on as a detached killer ("soft", "poll"), which no  *)
(* abort reaches.                                                          *)

\* The trigger resolves and the task is polled: from here to its next await
\* an abort does not stop it.
WatchdogWakes(w) ==
    /\ watch[w] = "waiting" /\ Trigger(w)
    /\ watch' = [watch EXCEPT ![w] = IF w = "cancel" THEN "check" ELSE "claim"]
    /\ UNCHANGED <<env, proc, gate, arbiter, aborted, failure, self, results,
                   ending, stray>>

WatchdogClaims(w) ==
    /\ watch[w] = "claim"
    /\ Claim(Verdict(w))
    /\ watch' = [watch EXCEPT ![w] = IF arbiter = "pending" THEN "check" ELSE "done"]
    /\ UNCHANGED <<env, proc, gate, aborted, failure, self, results, ending, stray>>

\* The early is_retired() load.
WatchdogChecks(w) ==
    /\ watch[w] = "check" /\ GateFree
    /\ watch' = [watch EXCEPT ![w] = IF retired THEN "done" ELSE "act"]
    /\ UNCHANGED <<env, proc, gate, arbiter, aborted, failure, self, results,
                   ending, stray>>

\* Own group, no grace: kill_via_weak, the group then the raw pid.
WatchdogKillsGroup(w) ==
    /\ watch[w] = "act" /\ GroupAlive /\ ~GraceOf(w)
    /\ \/ Kills(w) /\ UNCHANGED failure
       \/ /\ MayFail
          /\ failure' = IF failure = "none" THEN w ELSE failure
          /\ UNCHANGED proc
    /\ watch' = [watch EXCEPT ![w] = "kill"]
    /\ UNCHANGED <<env, gate, arbiter, aborted, self, results, ending, stray>>

\* Own group with grace: the soft signal, then the await an abort can cut.
WatchdogStartsGrace(w) ==
    /\ watch[w] = "act" /\ GroupAlive /\ GraceOf(w)
    /\ Signals(w)
    /\ watch' = [watch EXCEPT ![w] = IF w \in aborted THEN "done" ELSE "grace"]
    /\ UNCHANGED <<env, gate, arbiter, aborted, failure, self, results, ending, stray>>

\* The grace is over: drained, or escalated to a hard kill that may fail.
WatchdogEndsGrace(w) ==
    /\ watch[w] = "grace"
    /\ \/ Kills(w) /\ UNCHANGED failure
       \/ /\ MayFail /\ child = "running"
          /\ failure' = IF failure = "none" THEN w ELSE failure
          /\ UNCHANGED proc
    /\ watch' = [watch EXCEPT ![w] = "done"]
    /\ UNCHANGED <<env, gate, arbiter, aborted, self, results, ending, stray>>

\* Group gone or shared: only the pid is left, at once or after a grace.
WatchdogTurnsToPid(w) ==
    /\ watch[w] = "act" /\ ~GroupAlive
    /\ watch' = [watch EXCEPT ![w] =
                   IF ~conf.own /\ GraceOf(w) THEN "soft" ELSE "kill"]
    /\ UNCHANGED <<env, proc, gate, arbiter, aborted, failure, self, results,
                   ending, stray>>

\* with_live_pid: take the mutex; a retired gate runs nothing.
GateForSignal(w) ==
    /\ watch[w] \in {"soft", "kill"} /\ GateFree
    /\ IF retired
       THEN /\ watch' = [watch EXCEPT ![w] = IF @ = "soft" THEN "poll" ELSE "done"]
            /\ UNCHANGED holder
       ELSE /\ watch' = [watch EXCEPT ![w] =
                           IF @ = "soft" THEN "softLocked" ELSE "killLocked"]
            /\ holder' = w
    /\ UNCHANGED <<env, proc, retired, arbiter, aborted, failure, self, results,
                   ending, stray>>

\* The raw kill(pid), inside the mutex.
SignalUnderGate(w) ==
    /\ watch[w] \in {"softLocked", "killLocked"}
    /\ IF watch[w] = "softLocked" THEN Signals(w) ELSE Kills(w)
    /\ stray' = (stray \/ child = "freed")
    /\ holder' = "none"
    /\ watch' = [watch EXCEPT ![w] = IF @ = "softLocked" THEN "poll" ELSE "done"]
    /\ UNCHANGED <<env, retired, arbiter, aborted, failure, self, results, ending>>

\* Mutant of KillerPolls: the grace ends without an escalation.
KillerGivesUp(w) ==
    /\ watch[w] = "poll" /\ GateFree
    /\ watch' = [watch EXCEPT ![w] = "done"]
    /\ UNCHANGED <<env, proc, gate, arbiter, aborted, failure, self, results,
                   ending, stray>>

\* One liveness poll of the detached killer: gone ends it, and the last one
\* of the grace on a survivor escalates.
KillerPolls(w) ==
    /\ watch[w] = "poll" /\ GateFree
    /\ watch' = [watch EXCEPT ![w] =
                   IF retired \/ child # "running" THEN "done" ELSE "kill"]
    /\ UNCHANGED <<env, proc, gate, arbiter, aborted, failure, self, results,
                   ending, stray>>

Watchdog(w) ==
    \/ WatchdogWakes(w) \/ WatchdogClaims(w) \/ WatchdogChecks(w)
    \/ WatchdogKillsGroup(w) \/ WatchdogStartsGrace(w) \/ WatchdogEndsGrace(w)
    \/ WatchdogTurnsToPid(w)
    \/ GateForSignal(w) \/ SignalUnderGate(w) \/ KillerPolls(w)

-----------------------------------------------------------------------------
(* The handle's code.  From "held" the caller picks an operation.          *)

\* A stream verb or a probe's drains arm the two timeout watchdogs once.
ArmStream ==
    /\ "stream" \in Verbs /\ owner = "held"
    /\ conf.own \/ child # "freed"
    /\ \E w \in {"deadline", "inactivity"} :
         /\ watch[w] = "unarmed"
         /\ IF w = "deadline" THEN conf.timeout ELSE conf.inactivity
         /\ watch' = [watch EXCEPT ![w] = "waiting"]
    /\ UNCHANGED <<env, proc, gate, arbiter, aborted, failure, self, results,
                   ending, stray>>

\* start_kill: through the owned Child, a no-op once reaped.
StartKill ==
    /\ "startKill" \in Verbs /\ owner = "held"
    /\ child = "running" /\ Kills("caller")
    /\ UNCHANGED <<env, gate, arbiter, tasks, failure, self, results, ending, stray>>

BeginProbe ==
    /\ "probe" \in Verbs /\ owner = "held"
    /\ op' = "probe" /\ owner' = "lock"
    /\ UNCHANGED <<env, proc, gate, arbiter, tasks, failure, why, results, ending, stray>>

\* A prior reap already settled the disposition: only backend_wait is left.
BeginWaitExit ==
    /\ "waitExit" \in Verbs /\ owner = "held"
    /\ op' = "waitExit"
    /\ owner' = IF snapshot = "none" THEN "poll" ELSE "lock"
    /\ UNCHANGED <<env, proc, gate, arbiter, tasks, failure, why, results, ending, stray>>

BeginWait ==
    /\ "wait" \in Verbs /\ owner = "held"
    /\ op' = "wait"
    /\ owner' = IF snapshot = "none" THEN "retire" ELSE "lock"
    /\ UNCHANGED <<env, proc, gate, arbiter, tasks, failure, why, results, ending, stray>>

\* drive_to_exit_inner: retire first, take over from the timeout watchdogs,
\* and give up at once on a teardown a watchdog has already failed.
WaitRetires ==
    /\ owner = "retire" /\ GateFree
    /\ retired' = TRUE
    /\ Abort({"deadline", "inactivity"})
    /\ IF failure = "none"
       THEN owner' = "poll" /\ UNCHANGED why
       ELSE owner' = "failed" /\ why' = failure
    /\ UNCHANGED <<env, proc, holder, arbiter, failure, op, results, ending, stray>>

\* The biased select!: the cancel arm is polled first.
PollCancel ==
    /\ owner = "poll"
    /\ IF cancelled
       THEN /\ why' = "cancel"
            /\ owner' = IF op = "waitExit" THEN "retireCancel" ELSE "teardown"
       ELSE owner' = "lock" /\ UNCHANGED why
    /\ UNCHANGED <<env, proc, gate, arbiter, tasks, failure, op, results, ending, stray>>

\* wait_exit retires only once its cancel arm has won.
CancelArmRetires ==
    /\ owner = "retireCancel" /\ GateFree
    /\ retired' = TRUE
    /\ owner' = "teardown"
    /\ UNCHANGED <<env, proc, holder, arbiter, tasks, failure, op, why, results,
                   ending, stray>>

ReapLocks ==
    /\ owner = "lock" /\ GateFree
    /\ holder' = "owner"
    /\ owner' = "reap"
    /\ UNCHANGED <<env, proc, retired, arbiter, tasks, failure, op, why, results,
                   ending, stray>>

\* try_wait / poll of Child::wait under the mutex.  The status is cached, so
\* a reaped child is ready for ever.
ReapUnderGate ==
    /\ owner = "reap"
    /\ IF child = "running"
       THEN /\ holder' = "none"
            /\ owner' = CASE op = "probe" -> "held"
                          [] op = "wait" /\ snapshot = "none" -> "timers"
                          [] OTHER -> "parked"
            /\ UNCHANGED child
       ELSE /\ child' = "freed"
            /\ owner' = "reaped"
            /\ UNCHANGED holder
    /\ UNCHANGED <<env, killedBy, retired, arbiter, tasks, failure, op, why,
                   results, ending, stray>>

\* Still in the same critical section.
ReapRetires ==
    /\ owner = "reaped"
    /\ retired' = TRUE
    /\ holder' = "none"
    /\ owner' = "claim"
    /\ UNCHANGED <<env, proc, arbiter, tasks, failure, op, why, results, ending, stray>>

ClaimExited ==
    /\ owner = "claim"
    /\ Claim("exited")
    /\ why' = "exit"
    /\ owner' = "settle"
    /\ UNCHANGED <<env, proc, gate, tasks, failure, op, results, ending, stray>>

\* exit_outcome_now after its claim: watchdogs aborted, disposition latched.
ProbeSettles ==
    /\ owner = "settle" /\ op = "probe" /\ GateFree
    /\ retired' = TRUE
    /\ Abort(Watchdogs)
    /\ Snapshotted(cancelled)
    /\ probed' = IF snapshot' = "yes" THEN "cancelled" ELSE Classified("exited")
    /\ owner' = "held"
    /\ UNCHANGED <<env, proc, holder, arbiter, failure, op, why, outcome, report,
                   ending, stray>>

\* The deadline and inactivity arms of wait's select!, in that order.
PollTimers ==
    /\ owner = "timers"
    /\ CASE conf.timeout /\ due ->
              Claim("timedOut") /\ why' = "deadline" /\ owner' = "teardown"
         [] ~(conf.timeout /\ due) /\ conf.inactivity /\ quiet ->
              Claim("inactive") /\ why' = "inactivity" /\ owner' = "teardown"
         [] OTHER ->
              owner' = "parked" /\ UNCHANGED <<arbiter, why>>
    /\ UNCHANGED <<env, proc, gate, tasks, failure, op, results, ending, stray>>

\* Every arm was pending; a wake-up polls the future again.
WaitUnparks ==
    /\ owner = "parked"
    /\ owner' = IF snapshot = "none" THEN "poll" ELSE "lock"
    /\ UNCHANGED <<env, proc, gate, arbiter, tasks, failure, op, why, results,
                   ending, stray>>

\* kill_tree kills through the Child; graceful_teardown signals first.
TeardownStarts ==
    /\ owner = "teardown"
    /\ IF GraceOf(why)
       THEN Signals("owner") /\ owner' = "grace"
       ELSE TriesToKill("owner") /\ owner' = "killRetire"
    /\ UNCHANGED <<env, gate, arbiter, tasks, failure, op, why, results, ending, stray>>

\* kill_tree: retire, then the own group's kill.
KillTreeRetires ==
    /\ owner = "killRetire" /\ GateFree
    /\ retired' = TRUE
    /\ IF conf.own THEN TriesToKill("owner") ELSE UNCHANGED proc
    /\ owner' = "confirm"
    /\ UNCHANGED <<env, holder, arbiter, tasks, failure, op, why, results, ending, stray>>

\* confirm_reap: Child::wait outside the gate, within a budget.
ConfirmReap ==
    /\ owner = "confirm"
    /\ \/ child # "running" /\ child' = "freed" /\ owner' = "settle"
       \/ MayFail /\ child # "running" /\ child' = "freed" /\ owner' = "failed"
       \/ MayFail /\ UNCHANGED child /\ owner' = "failed"
    /\ UNCHANGED <<env, killedBy, gate, arbiter, tasks, failure, op, why, results,
                   ending, stray>>

\* graceful_teardown: reaped within the grace.
GraceReaps ==
    /\ owner = "grace" /\ child # "running"
    /\ child' = "freed"
    /\ owner' = "graceRetire"
    /\ UNCHANGED <<env, killedBy, gate, arbiter, tasks, failure, op, why, results,
                   ending, stray>>

\* The grace is over: the group's hard kill, or start_kill on the Child.
GraceEscalates ==
    /\ owner = "grace" /\ child = "running"
    /\ \/ Kills("owner") /\ UNCHANGED owner
       \/ MayFail /\ owner' = "failed" /\ UNCHANGED proc
    /\ UNCHANGED <<env, gate, arbiter, tasks, failure, op, why, results, ending, stray>>

GraceRetires ==
    /\ owner = "graceRetire" /\ GateFree
    /\ retired' = TRUE
    /\ owner' = "settle"
    /\ UNCHANGED <<env, proc, holder, arbiter, tasks, failure, op, why, results,
                   ending, stray>>

\* on_reaped.
WaitSettles ==
    /\ owner = "settle" /\ op # "probe" /\ GateFree
    /\ retired' = TRUE
    /\ Abort(Watchdogs)
    /\ Snapshotted(why = "cancel")
    /\ outcome' = Classified(CASE why = "cancel" -> "signalled"
                               [] why = "deadline" -> "timedOut"
                               [] why = "inactivity" -> "inactive"
                               [] OTHER -> "exited")
    /\ owner' = "deliver"
    /\ UNCHANGED <<env, proc, holder, arbiter, failure, op, why, probed, report,
                   ending, stray>>

\* ExitCause::TeardownFailed: recorded, not settled.
TeardownFails ==
    /\ owner = "failed"
    /\ failure' = IF failure = "none" THEN why ELSE failure
    /\ Snapshotted(why = "cancel")
    /\ owner' = "deliver"
    /\ UNCHANGED <<env, proc, gate, arbiter, tasks, op, why, outcome, probed,
                   report, ending, stray>>

\* Mutant of Deliver: the cancellation is checked before the teardown error.
DeliverCancelFirst ==
    /\ owner = "deliver"
    /\ report' = CASE snapshot = "yes" -> "cancelled"
                    [] snapshot # "yes" /\ failure # "none" -> "unconfirmed"
                    [] OTHER -> outcome
    /\ failure' = "none"
    /\ owner' = IF op = "wait" THEN "drop" ELSE "held"
    /\ UNCHANGED <<env, proc, gate, arbiter, tasks, op, why, outcome, snapshot,
                   probed, ending, stray>>

\* take_teardown_error, then checked_outcome.  wait consumes the handle.
Deliver ==
    /\ owner = "deliver"
    /\ report' = CASE failure # "none" -> "unconfirmed"
                    [] failure = "none" /\ snapshot = "yes" -> "cancelled"
                    [] OTHER -> outcome
    /\ failure' = "none"
    /\ owner' = IF op = "wait" THEN "drop" ELSE "held"
    /\ UNCHANGED <<env, proc, gate, arbiter, tasks, op, why, outcome, snapshot,
                   probed, ending, stray>>

\* The caller drops a pending future at one of its awaits: wait owns the
\* handle and drops it too, wait_exit only borrows it.
AbandonWait ==
    /\ Abandon /\ owner \in {"parked", "confirm", "grace"}
    /\ owner' = IF op = "wait" THEN "drop" ELSE "held"
    /\ UNCHANGED <<env, proc, gate, arbiter, tasks, failure, op, why, results,
                   ending, stray>>

\* Drop: abort the watchdogs and choose between hand-off and retirement.
DropAborts ==
    /\ owner \in {"held", "drop"}
    /\ Abort(Watchdogs)
    /\ owner' = IF /\ ~conf.own
                   /\ \/ (conf.timeout \/ conf.inactivity) /\ conf.timeoutGrace
                      \/ conf.cancelGrace /\ cancelled
                THEN "handoff" ELSE "dropRetire"
    /\ UNCHANGED <<env, proc, gate, arbiter, failure, op, why, results, ending, stray>>

\* The hand-off needs an un-retired gate and a current runtime.
DropHandsOff ==
    /\ owner = "handoff" /\ GateFree
    /\ \/ ~retired /\ handoff' = "lock" /\ owner' = "gone"
       \/ owner' = "dropRetire" /\ UNCHANGED handoff
    /\ UNCHANGED <<env, proc, gate, arbiter, tasks, failure, op, why, results,
                   orphaned, stray>>

DropRetires ==
    /\ owner = "dropRetire" /\ GateFree
    /\ retired' = TRUE
    /\ owner' = "dropChild"
    /\ UNCHANGED <<env, proc, holder, arbiter, tasks, failure, op, why, results,
                   ending, stray>>

\* The structural drop of the Child, after drop() returned.
DropChild ==
    /\ owner = "dropChild"
    /\ orphaned' = (child # "freed")
    /\ owner' = "gone"
    /\ UNCHANGED <<env, proc, gate, arbiter, tasks, failure, op, why, results,
                   handoff, stray>>

-----------------------------------------------------------------------------
(* The reaper a dropped shared-group handle leaves behind.                 *)

HandoffLocks ==
    /\ handoff = "lock" /\ GateFree
    /\ holder' = "handoff"
    /\ handoff' = "reap"
    /\ UNCHANGED <<env, proc, retired, arbiter, tasks, failure, self, results,
                   orphaned, stray>>

HandoffReaps ==
    /\ handoff = "reap"
    /\ IF child = "running"
       THEN handoff' = "lock" /\ holder' = "none" /\ UNCHANGED child
       ELSE handoff' = "reaped" /\ child' = "freed" /\ UNCHANGED holder
    /\ UNCHANGED <<env, killedBy, retired, arbiter, tasks, failure, self, results,
                   orphaned, stray>>

HandoffRetires ==
    /\ handoff = "reaped"
    /\ retired' = TRUE
    /\ holder' = "none"
    /\ handoff' = "done"
    /\ UNCHANGED <<env, proc, arbiter, tasks, failure, self, results, orphaned, stray>>

-----------------------------------------------------------------------------
(* The specification.                                                      *)

World == CancelFires \/ DeadlineElapses \/ OutputQuietens \/ ChildWrites \/ ChildExits

Calls == ArmStream \/ StartKill \/ BeginProbe \/ BeginWaitExit \/ BeginWait
         \/ AbandonWait \/ (owner = "held" /\ DropAborts)

\* What the runtime goes on with once it has begun.
OwnerSteps ==
    \/ WaitRetires \/ PollCancel \/ CancelArmRetires
    \/ ReapLocks \/ ReapUnderGate \/ ReapRetires \/ ClaimExited
    \/ ProbeSettles \/ PollTimers \/ WaitUnparks
    \/ TeardownStarts \/ KillTreeRetires \/ ConfirmReap
    \/ GraceReaps \/ GraceEscalates \/ GraceRetires
    \/ WaitSettles \/ TeardownFails \/ Deliver
    \/ (owner = "drop" /\ DropAborts) \/ DropHandsOff \/ DropRetires \/ DropChild

Handoff == HandoffLocks \/ HandoffReaps \/ HandoffRetires

\* The run may come to rest: the handle is dropped and no task is midway.
Finished ==
    /\ owner = "gone" /\ holder = "none"
    /\ \A w \in Watchdogs : watch[w] \in {"unarmed", "waiting", "done"}
    /\ UNCHANGED vars

Next == \/ World \/ Calls \/ OwnerSteps \/ Handoff \/ OrphanReap \/ GroupDropKills
        \/ \E w \in Watchdogs : Watchdog(w)
        \/ Finished

Spec == Init /\ [][Next]_vars

\* The runtime polls every task that is ready and the mutex is fair enough
\* that a task waiting for it gets it; the caller and the child owe nothing.
Fairness ==
    /\ WF_vars(OwnerSteps)
    /\ SF_vars(owner \in {"retire", "retireCancel", "lock", "killRetire", "handoff",
                          "dropRetire", "settle", "graceRetire"} /\ OwnerSteps)
    /\ \A w \in Watchdogs : WF_vars(Watchdog(w))
                           /\ SF_vars(watch[w] \in {"check", "kill", "soft", "poll"}
                                       /\ Watchdog(w))
    /\ WF_vars(Handoff) /\ SF_vars(HandoffLocks)
    /\ WF_vars(OrphanReap) /\ WF_vars(GroupDropKills)

FairSpec == Spec /\ Fairness

-----------------------------------------------------------------------------
(* Safety.                                                                 *)

\* Every variable keeps to its states (running/mod.rs, the handle's fields).
TypeOK ==
    /\ conf \in ConfigSpace
    /\ cancelled \in BOOLEAN /\ due \in BOOLEAN /\ quiet \in BOOLEAN
    /\ retired \in BOOLEAN /\ orphaned \in BOOLEAN /\ stray \in BOOLEAN
    /\ child \in {"running", "zombie", "freed"}
    /\ killedBy \in Watchdogs \cup {"none", "itself", "caller", "owner", "drop"}
    /\ holder \in Watchdogs \cup {"none", "owner", "handoff"}
    /\ arbiter \in Arbiters
    /\ watch \in [Watchdogs -> WatchPc]
    /\ aborted \in SUBSET Watchdogs
    /\ failure \in Watchdogs \cup {"none", "exit"}
    /\ owner \in OwnerPc
    /\ op \in {"none", "probe", "wait", "waitExit"}
    /\ why \in Watchdogs \cup {"none", "exit"}
    /\ outcome \in Outcomes
    /\ snapshot \in {"none", "yes", "no"}
    /\ probed \in Outcomes \cup {"none", "cancelled"}
    /\ report \in Reports
    /\ handoff \in {"none", "lock", "reap", "reaped", "done"}

\* No watchdog and no detached killer ever signals a pid the child's reap has
\* freed (pid_gate.rs: "never a SIGKILL on a recycled pid").
NoStraySignal == ~stray

\* The debug assertion of graceful_teardown, and what kill_tree's bounded wait
\* needs too: a teardown reaps outside the mutex only behind a retired gate.
TeardownOwnsPid ==
    owner \in {"grace", "graceRetire", "confirm"} => retired

\* The mutex is held by exactly the task that is inside a critical section.
HolderIsInside ==
    /\ holder = "owner" <=> owner \in {"reap", "reaped"}
    /\ holder = "handoff" <=> handoff \in {"reap", "reaped"}
    /\ \A w \in Watchdogs : holder = w <=> watch[w] \in {"softLocked", "killLocked"}

\* A pid is free only behind a retired gate, or inside the critical section
\* that is about to retire it.
FreedIsRetired ==
    child = "freed" => retired \/ owner = "reaped" \/ handoff = "reaped"

\* Which operations reach which part of the handle's code with a retired gate.
FinisherRetiredFirst ==
    /\ owner \in {"poll", "lock", "reap", "timers"} => op # "none"
    /\ owner \in {"poll", "timers", "parked"} => op \in {"wait", "waitExit"}
    /\ owner \in {"retire", "poll", "timers"} => snapshot = "none"
    /\ owner \in {"retire", "timers"} => op = "wait"
    /\ op = "wait" /\ snapshot = "none"
         /\ owner \in {"poll", "parked", "lock", "reap", "timers"}
         => retired
    /\ owner \in {"teardown", "killRetire"} => retired

\* The strengthening of NoStraySignal that every step of the gate's users keeps:
\* Drop, the finishers, the probe and the hand-off each free the pid only
\* behind the gate.
GateInv ==
    /\ HolderIsInside
    /\ \A w \in Watchdogs : watch[w] \in {"softLocked", "killLocked"} => ~retired
    /\ FreedIsRetired
    /\ FinisherRetiredFirst
    /\ TeardownOwnsPid
    /\ orphaned \/ owner = "dropChild" => retired
    /\ NoStraySignal

\* A child a timeout watchdog killed is never reported as having exited by
\* itself: the watchdog claims the arbiter before it kills, and the finisher
\* and the probe classify by the arbiter after they claim it.
TimeoutKillIsReported ==
    \A seen \in {report, probed} \ {"none", "cancelled", "unconfirmed"} :
        killedBy \in {"deadline", "inactivity"} => seen = Verdict(killedBy)

\* An outcome is only reported of a child that was reaped; every teardown that
\* could not confirm that is reported as ErrorReason::Teardown.
ReportedMeansReaped ==
    report \in Outcomes \cup {"cancelled"} => child = "freed"

\* The strengthening of ReportedMeansReaped.
ReapInv ==
    /\ owner \in {"reaped", "claim", "settle", "graceRetire"} => child = "freed"
    /\ owner = "failed" => why # "none"
    /\ owner \in {"retireCancel", "teardown", "killRetire", "confirm", "grace"}
         => why # "none"
    /\ owner = "deliver" => failure # "none" \/ child = "freed"
    /\ probed # "none" => child = "freed"
    /\ ReportedMeansReaped

\* The strengthening of TimeoutKillIsReported: a timeout watchdog is past its
\* claim wherever it can kill, so the arbiter names it before the child ends.
TimeoutInv ==
    /\ \A w \in {"deadline", "inactivity"} :
         /\ watch[w] \notin {"unarmed", "waiting", "claim", "done"} => arbiter = Verdict(w)
         /\ killedBy = w => arbiter = Verdict(w)
         /\ killedBy = w /\ owner = "deliver" /\ failure = "none" => outcome = Verdict(w)
    /\ child = "running" => killedBy = "none"
    /\ TimeoutKillIsReported

\* "Snapshotted by whoever observes the reap first and never moved
\* afterwards": neither a late token nor a late claim rewrites a settled run, and
\* what a probe saw is what "a following finish/wait still reports", unless a
\* teardown failed. Behind the closed gate of wait, and under the mutex of a probe,
\* a child the cancel watchdog killed settles as cancelled, and is then reported
\* as that: the kill is never taken for a signal of somebody else
\* (checked_outcome).
SettledForGood ==
    /\ [][/\ snapshot # "none" => snapshot' = snapshot
          /\ arbiter # "pending" => arbiter' = arbiter
          /\ probed # "none" => probed' = probed
          /\ killedBy = "cancel" /\ op # "waitExit" /\ failure' = "none"
               /\ snapshot = "none" /\ snapshot' # "none"
             => snapshot' = "yes"]_vars
    /\ [](probed # "none" => report \in {"none", probed, "unconfirmed"})
    /\ [](snapshot = "yes"
            => {report, probed} \subseteq {"none", "cancelled", "unconfirmed"})

-----------------------------------------------------------------------------
(* Liveness.                                                               *)

\* A shared-group handle that is being dropped leaves its child to the group.
Released == ~conf.own /\ owner \in {"drop", "handoff", "dropRetire", "dropChild", "gone"}

\* A fired token, and a deadline that won the arbiter, end the child of a live
\* handle, whatever the caller does with the handle (Command::cancel_on,
\* Command::cancel_grace, wait_deadline_and_claim and what is behind it). A child
\* that ended under a dropped handle is reaped, by the hand-off or the orphan
\* queue: dropping never leaks a zombie.
TeardownEnforced ==
    /\ cancelled ~> (child # "running" \/ Released)
    /\ (arbiter = "timedOut") ~> (child # "running" \/ Released)
    /\ (owner = "gone" /\ child = "zombie") ~> (child = "freed")
=============================================================================
