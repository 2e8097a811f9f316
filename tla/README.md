# ProcessKit-rs: a verification project in TLA+

ProcessKit-rs runs child processes: it spawns them inside a kill-on-drop group,
pumps their output, enforces timeouts and cancellation, chains them into pipelines,
and supervises them with restarts. Almost everything that can go wrong in it is a
question of order: several tokio tasks and threads act on one pid, one atomic word, one
session, and the operating system may free a pid, refuse a signal or end a child
between any two of their steps. The modules here model those orders, TLC explores
them on small instances, and TLAPS proves the main safety properties for all
values of the constants.

All source paths below are relative to the crate's `src/src/`.

## 1. Inventory of the system

| Component | State it keeps | Operations | Interacts with | Hard behaviour | What makes it correct |
|---|---|---|---|---|---|
| Run lifecycle (`running/mod.rs`, `running/deadline.rs`, `sys/pid_gate.rs`, the watchdogs of `running/stream.rs`) | the `Child`, `GateState.retired`, `timeout_state`, `cancel_at_exit`, `teardown_failure`, watchdog join handles | probe, `wait`, `wait_exit`, `start_kill`, `Drop`, the three watchdogs and their detached grace killers, the hand-off reaper | the group (a shared child is killed with it), the pumps (inactivity), the supervisor (runs it) | five kinds of task on one pid; `abort` does not stop a task inside a poll; a reap frees the pid inside tokio's poll | no signal to a freed pid; one outcome, never rewritten; kills are reported as what they were; a fired trigger ends the child |
| POSIX group and latch (`sys/pgroup.rs`, `sys/skip_drop_kill.rs`, `sys/graceful.rs`) | two tables of members, the latch word (generation and spare bit), the ownership mutex | `spawn`, `spawn_pty` and rollback, `adopt`, `kill_all`, `graceful_shutdown`, `Drop` | the run lifecycle, the supervisor's private groups | the latch and `track` are used without the mutex; a launch may be rolled back after it consumed a spare | only warned members are spared; a hard stop reaches all; a failed launch costs no spare |
| Linux cgroup (`sys/linux.rs`) | a directory per job and one per spawn (leaf), the registry of leaves with the numbers they answer to, the same latch | the same, and the reclaimer of directories | the kernel's cgroup tree | the members are known by numbers, which are reused; forks during the sweep; a freezer that refuses; directories that outlive the job | signals reach members only; Ok means everybody is dead; a rollback kills its own subtree; directories are removed in the end |
| Windows job (`sys/windows.rs`) | the job handle, `suspend_lock`, the latch | `spawn`, `contain_pty_child`, `adopt`, `suspend`/`resume`, `kill_all`, `graceful_shutdown`, `Drop` | the kernel's job object | a child exists before it is in the job; a walk may resume it | nothing that ran escapes; nobody runs before its spawn says so |
| FreeBSD reaper (`sys/freebsd.rs`) | a process descriptor table | as the POSIX group | | as the POSIX group | as the POSIX group |
| Supervisor (`supervisor.rs`) | `SessionState` (stopping, current, status), two tokens, the restart counter, the last result | `run`, `start`, `stop`, `wait`, drop of the session; `drive`, `run_to_result`, the restart gate | the runner, a private group per incarnation, stop watchers | `stop()` and the task race over every await; a watch drops a run where it stands | one incarnation at a time, each stopped once, no launch after a stop, budget kept, `stop()` returns |
| Output pumps (`pump.rs`, `buffer.rs`, `sys/merge_pipe.rs`, `sys/channel_reader.rs`) | `SharedLines`: backlog, counters, partial tail, generation | push, pop, wait for change, close, snapshot, discard | the handle's verbs, the streams, timeout salvage | snapshot-to-await races, ceilings, a lagging reader | no lost wake-up; nothing delivered twice; losses are told |
| Pipeline (`pipeline.rs`) | one handle per stage, the `ExitDisposition` of each, terminal and teardown state, the last handle's slot | launch, `capture`, `start`, `finish`, `start_kill`, `wait_for_line`, drop; stage tasks, watcher, killer, deadline | runs, groups, pumps | exits are observed in an order of their own, beside a teardown whose victims fail too; kills fail | a verdict only of reaped stages; the right stage blamed; a failure ends the chain; the verb returns |
| Batch, `wait_any`, `wait_all` (`batch.rs`, `lib.rs`) | pending and active commands, result slots | poll, drop | runner, handles | slots freed out of order while polling; wakers | limit kept; each input answered once, in its place; no lost wake-up |
| Runner, retry, clients (`runner.rs`, `retry.rs`, `backoff.rs`, `client.rs`) | attempt counter, policy | attempt, classify, pause | runs, stdin | an attempt that may still live, a consumed stdin | no second copy; no retry after a cancel |
| Stdin (`stdin.rs`) | a one-shot source, a writer task | reserve, commit, give back, feed | runs, retry | a failed launch must give the source back | fed to one child only |
| Cassettes (`cassette.rs`, `digest.rs`) | recorded entries, a dirty flag, the file; slots with cursors | record, `save`, flush on drop, `replay` | the runner seam, the file system | crashes and losses of power between two steps of a save; several writers; runs that end during a save | a save is atomic and lasts; nothing recorded is lost by a clean drop; a replay serves a key in order |
| Process-group facade (`group.rs`, `member.rs`, `soft_stop.rs`, `shutdown_report.rs`) | the backend, absorbed runs | dispatch, reports | backends | - | reports what the backend did |
| Pseudo-terminals (`sys/pty`) | master, slave, ConPTY | launch, resize, close | group, pumps | launch steps that fail half-way | roll back leaves nothing |
| Test doubles (`doubles.rs`, `running/scripted.rs`) | scripted replies | match, reply | the runner seam | - | - |
| Detached processes (`detached.rs`, `parent_death.rs`) | none | spawn, reap in background | - | - | - |
| Statistics, limits, priorities | none | read counters, set attributes | backends | - | - |
| Commands, results, errors (`command.rs`, `result.rs`, `error.rs`) | plain data | build, classify, format | all | - | - |

How they meet: a `Command` is handed to a runner, which spawns the child through a group
backend and returns a `RunningProcess`. The handle arms watchdog tasks that share the
`PidGate` with it. The supervisor owns the handle of its current incarnation and
publishes a stopper of the incarnation's private group to `stop()`. A pipeline holds one
handle per stage; a batch holds the futures of runner verbs; a cassette wraps a runner. Everybody
ends up signalling pids through the gate or asking a backend to stop its members.

## 2. Modules

| Module | Models | Source |
|---|---|---|
| `RunLifecycle` | one handle, its watchdogs, detached killers, hand-off reaper and orphan queue | `running/*`, `sys/pid_gate.rs`, `sys/graceful.rs` (`run_pid`) |
| `GroupTeardown` | concurrent calls on one POSIX group | `sys/pgroup.rs`, `sys/skip_drop_kill.rs`, `sys/graceful.rs` (`run`) |
| `Cgroup` | concurrent calls on one cgroup job, its drop and its reclaimer, over a kernel that reuses numbers | `sys/linux.rs` |
| `Job` | concurrent calls on one Windows job, its drop and the death of the host | `sys/windows.rs` |
| `Supervisor` | the task, the session and the child of each attempt | `supervisor.rs` |
| `LineBuffer` | one piped stream: its pump, the shared buffer, a line stream, a probe, and the verb that collects | `pump.rs`, `buffer.rs`, `running/stream.rs`, `running/probes.rs` (`wait_for_output`), `running/mod.rs` (`finish_lines`, `join_pumps`) |
| `Pipeline` | a chain: its stages, their tasks, watcher, killer, deadline, and the verb or session over it | `pipeline.rs` |
| `Runner` | verbs of a runner with retries, sharing one-shot inputs and a token | `runner.rs`, `retry.rs`, `stdin.rs` |
| `Fanout` | a batch of `Runner` verbs behind `poll_next`, beside other verbs; extends `Runner` | `batch.rs` |
| `Batch` | what a fan-out promises; implemented by `Fanout` | `batch.rs` |
| `Cassette` | recorders, a player, and the file system under them | `cassette.rs` |
| `Store` | what saving to a path promises; implemented by `Cassette` | `cassette.rs` |
| `*_proofs` | the theorems of each; those of `Runner`, `Fanout` and `Cassette`, which share the runner seam, are in `Seam_proofs` | |
| `MC*` | instances for TLC | |

The composition is `Fanout` over `Runner`: the driver polls verbs, and the verbs of a batch share
inputs and a token with those of other tasks. The other models stand alone: the interface between
them is small enough to be a nondeterministic choice on the user's side. `RunLifecycle` sees a
shared group as "may be dropped, which kills the child" (`GroupDropKills`); `Supervisor` sees a
run as "ends, or is dropped" with the group's kill-on-drop as `KilledOnDrop`; `Pipeline` and
`Runner` see a run as a child that ends or is killed, and a teardown that is confirmed or not;
`LineBuffer` sees the child as "writes any further bytes of a script, and closes or breaks the pipe
at any of them", and the run as a verb that joins the pump at some time.

### RunLifecycle

One action per stretch of code that no other task can interrupt. The critical sections of
the gate are split into the acquisition (`...Locks`), the body and the release, because the
point of the model is what happens while somebody waits for that mutex.

* `watch[w]` is the program counter of watchdog *w* (cancel, deadline, inactivity), and,
  after it started a grace, of the detached killer it turned into: `waiting` at the trigger,
  `claim` of the arbiter (timeouts only), `check` of `is_retired`, then the hard kill or the
  soft signal, each behind the gate. `Abort` only stops a task parked at an await; one
  inside a poll goes on to the next await (`aborted`).
* `owner` is where the handle's own code is. `wait` retires the gate first
  (`WaitRetires`), `wait_exit` only when it reaps; the biased `select!` is
  `PollCancel`, then the reap, then `PollTimers`, and `WaitUnparks` when an arm becomes
  ready. `TeardownStarts` to `GraceRetires` are the hard and the graceful teardown.
* `report` is what `wait`/`wait_exit` returned, `probed` what a readiness probe saw.
* `stray` records a signal sent to a freed pid.

`CONSTANTS`: `Configs` (which triggers and graces are set, whose group), `Verbs` (what the
caller does), `MayFail` (may a hard kill or the bounded reap fail), `Abandon` (may a pending
wait future be dropped).

### GroupTeardown

A call is a thread in one method; a joining call is named after the member it brings. The
latch word is a generation and the shutdown whose spare is set; the code keeps only the bit,
the name is a history the properties need. Clearing it is a load
and a `compare_exchange` that may retry (`ClearLoads`, `ClearExchanges`), requesting a spare
is a `compare_exchange` against the snapshot taken when the shutdown began
(`RequestSpare`). The spawn path tracks, then clears; the adoption path clears, then tracks,
inside the mutex; a PTY launch that fails kills, forgets its entry and restores the spare it
displaced. Sweeps go over the groups' table and then the solos' table under the mutex.
`HandleReaps` respects that a launch still owns its un-reaped child. A live member may refuse the
signal (`Refusing`); whether the sweep then reports an error depends on whether the member's state
can be read, which is left open for each (`HardSweep`; `unread` remembers the refusals that passed).
`spareAt` is a history: the generation of the last spare that took, until a member joins.

`CONSTANTS`: the sets of calls of each kind, `Modes` (what a stop may be asked), `Deaf`
(members that refuse signals), `Crews` (the joins that are called together: the others count as
refused from the start).

### Cgroup

A process is an identity with a number; the kernel hands a number out again once its process was
reaped. `cgroup.procs` lists numbers and the registry keeps numbers, a pidfd names an identity, and
the hazards of the module are where the code goes from one to the other.

* `launch[l]`: `open` (the leaf's directory was made, or could not be), `forked` or `failing`, then
  `joined` by `LeafSlot::commit`, `armed` by the latch's `clear`, and `ok`, or the rollback:
  `aimed` (`kill_leaf_of` looked the number up), `undo`, `undone`. `slot` is the `LeafSlot`,
  whose drop hands a directory the kernel refuses to remove to the registry.
* `call[k]` is `Cgroup::kill`: `cgroup.kill` at once where it exists, otherwise freeze, then passes
  of a first read (directory by directory), pins, a second read, deliveries and a drain check, then
  the thaw and the verdict of a last read. The drop of the job makes the same call.
* `adopt[a]` reads the start time of the number it was given, moves whoever has the number, reads
  the start time again, and evicts whom it should not have moved if the two differ.
* `drop` and `request`: what Drop removes at once, and what it leaves to the reclaimer's thread,
  whose start may fail and is tried again when another job drops.

`CONSTANTS`: the launches, kills and adoptions, other processes, the numbers, `Passes` (the passes of a
sweep, 50 in the code), `Scenes` (who acts, which kernel files exist and whether they fail).

### Job

`held` is a process's suspend count, `members` the job, `owner` the holder of `suspend_lock`. A spawn
creates its child suspended (`Creates`), takes the lock to assign it (`Assigns`), sets its affinity
and resumes it; every early return releases the lock before the guard kills the child
(`KillsChild` is a step of its own, in the order of the declarations). A walk takes the lock,
lists the members and visits any part of them, since a thread that cannot be opened is left out.
`HostDies` may come at any step: the kernel closes the handle. Adoptions and shutdowns take no lock.
`CONSTANTS`: the calls of each kind, `Offspring` and `Parent` (what a child starts), `Pinned`.

### Supervisor

`pc` is `drive`'s place: `begin` (one-shot stdin is refused if it may restart), `top` (a stop
noticed with a result in hand), `launch`, `publish` (the critical section of
`publish_current`), `stopSelf`, `run` or `capture`, `ended` (the arms of the big match),
`gate`, `storm` and `sleep`. `stopPc` is the caller's `stop()`: `request_stop`, the token, the
graceful stop through the published stopper, the completion. Dropping the session, or a
pending `stop()`, aborts the task at its next await. Three kinds of child differ in how a
stop reaches them: `own` (private group), `shared` (by token) and `capture` (a runner without
`start`).

### LineBuffer

A step is one critical section of the buffer's mutex, or one counter outside of it: `push` is
`Counts` (`count`, before the mutex), `PumpRetains` or `PumpSkips` (under it), `PumpCountsLoss`
(`dropped`, after it), `PumpPublishes` (`generation`) and `PumpNotifies` (the broadcast). A read
is one step with the byte total and the cap that follow it, and `set_read_error` one with the close.

* `inner` has the fields of `Inner`; a line is a number and a length. Two texts of one length
  count as equal, which is where the pump can tell least (`TailChanged`).
* `pump` holds the pump's locals: what it read, the line it is at, whether it skips an over-cap
  line, the cap, how the pipe ended. `then` is where it goes on after a publication.
* `at[w]` is where a waiter is: it looks under the mutex (`look`), found nothing and holds the
  generation it saw (`missed`), enabled its notification, is parked, or is over.
* `fin` follows the verb that finishes the run. `FinishJoins` is `output_string` without a stream and
  `finish` with one, `FinishDiscards` is `wait` or `drain` adopting a stream's buffer, and
  `ChainGivesUp` a pipeline that drops the capture task of its last stage and salvages. A pump that
  is aborted goes on to its next read: what it does meanwhile runs beside the collection.

`CONSTANTS`: `Setups` (what the child may write, the overflow policy, who waits), `Prompt` (the
length the probe waits for), `DiscardCap` (`DISCARD_INFLIGHT_CAP`). Left out: decoding, carriage
returns as terminators, tees, handlers and capture policies, none of which changes `SharedLines`.

### Pipeline

Per stage: what the kernel knows of the child, how it ended, whether the token had fired at the reap
(`snap`), its `ExitDisposition` (`Latch`: culprit or victim, set once, by whoever observes the exit
first), its task and result. Per chain: the teardown token with the latched cause, the two shared
records (`confirmed` and `termFail` of `PipelineTerminalState`, `failure` of
`PipelineTeardownState`), the killer, the deadline, and the watcher of a session's last stage, which
probes only while the handle is in its slot (`Borrow` and `PutBack` are `wait_for_line`) and then
confirms, latches and fires in three steps (`WatchConfirms`, `WatchLatches`, `WatchFires`). `atFire`
is a history: whose exit was both confirmed and latched when the teardown fired. `phase` is
the driver: launch, `live` (a session in its caller's hands), `gather` (the joins), `settle`
(`capture` waits for terminal confirmation), over. `Verdict` and `Answer` are the ends of `finish`
and `capture`, in the order of the code: deadline, held errors, unsettled teardowns, the fold.

`CONSTANTS`: `N` (the longest chain), `Configs` (verb, unchecked stages, children that refuse to die,
drains that may fail, token, deadline, what the caller of a session does).

### Runner, Fanout and Batch

An operation of `Runner` is a verb: `launch` (refused, or the reservation of its one-shot input),
`spawn` (commits the reservation or drops it, which gives the payload back), `run`, and after a
failure `pause` or the answer (`Retries` is the loop's list of vetoes, in its order). A child of an
attempt is `alive`, `gone`, `doomed` (killed with its group, whatever the reap said) or `loose` (left
in a shared group).

`Fanout` is `poll_next`: `Refill`, then one step per future polled, which moves as far as it can
(`PollMoves`), is pending and leaves a waker (`PollPending`), or is ready and yielded
(`PollReady`, with `swap_remove`). The driver is scheduled again after an item, or when a waker
fired.

`Batch` knows nothing of that: commands are taken in order, at most `limit` at a time, each is
answered once, and a batch is dropped or ends with every answer. The refinement maps a command's slot,
its place in the queue and the driver's end to where it stands.

### Cassette and Store

A recorder's callers run (`Runs`) and are recorded when the answer is there (`Records`), under the
mutex that a save holds from its clone to its end. A step of a save is one call on the file
system. `versions` is what the path may hold after a loss of power, the last being what a reader
finds now: a rename adds one, the sync of the directory leaves the last, and a loss of power
picks any, torn if its contents were not synced. `Crash` takes a process with its locks,
`PowerLoss` everything but the disk. The player puts the entries of the file into slots per key, each
with a cursor; recorder and player have a `MatchPolicy` of their own (does the directory count).

`Store` promises: a reader finds a complete file or none (`Install`), of several versions the disk
comes to hold one (`Settle`), and Ok is returned only when no loss of power can undo the save
(`Confirm`). The refinement forgets who wrote a version and what was synced.

`CONSTANTS`: who records what and where, `MaxRuns`, `MaxPlays`, `MaxBehind` (renames ahead of the
directory's sync).

## 3. Properties and runs

Deadlock checking is on in `MCRun`, `MCRunLive`, `MCSup` and `MCLines`. The others may really stop: a
group or a job that was dropped takes no further call, a batch and a chain end.

| Run | Instance | What it shows |
|---|---|---|
| `MCRun` | a child of its own or of a shared group; cancel, deadline and inactivity with and without grace; probe, stream, wait, `start_kill`; futures may be dropped, kills and reaps may fail | `NoStraySignal`, `TimeoutKillIsReported`, `ReportedMeansReaped`, `SettledForGood` |
| `MCRunLive` | both kinds of group, cancel and deadline, same grace setting; waits are not abandoned | under fairness: `TeardownEnforced` |
| `MCGroup` | any two of a spawn, a PTY launch whose child refuses signals and an adoption, with a stop of any mode, and `Drop` | `DropKillsUnspared`, `SpareSurvivesRollback`, `KillReachesMembers`; under fairness `CallsReturn` |
| `MCSup` | every policy, budget 0 to 2, every kind of child, with and without health probe, storm guard and one-shot stdin; teardowns may fail | `OneAtATime`, `PublishedIsRunning`, `StopIsNotCancellation`, `OneMoreLaunchAtMost`; under fairness `StopsAreAnswered` |
| `MCLines` | six captures, two streams, a stream watched by a probe, a probe before a capture; every overflow mode | types, `NoLostWakeup`, `NothingTwice`, `HeadIsPrefix`, `CaptureIsHonest`; under fairness `StreamsAreServed` |
| `MCPipeline` | chains of three whose stages only fail; chains of two with refusing children, failing drains, token, deadline, a caller who waits, kills or drops | `ReportedMeansReaped`, `ObservedFailureIsBlamed`; under fairness `FailureEndsChain`, `VerbReturns` |
| `MCCgroup` | eight scenes of up to four actors over two numbers: two spawns and a fork, a kill with each kind of freezer, two adoptions, an adoption beside a spawn and a kill, a drop | types, `OnlyMembersSignalled`, `KillOkReaches`, `RollbackHitsItsSpawn`, `AdoptionIsHonest`; under fairness `DirsReclaimed` |
| `MCFanout` | batches of two and three, limits 0 to 2, beside a verb that retries and shares their input; two retrying verbs alone | `PayloadGoesOnce`, `NoLivingTwin`, `NoLostWakeup`, `ImplementsBatch`; under fairness `EveryCallReturns` |
| `MCCassette` | two recorders on one path, three callers, two of which differ in their directory only; any two policies | `CleanIsSaved`, `ReplayAgrees`, `ImplementsStore` |
| `MCJob` | two spawns, the first pinned and forking, an adoption, a shutdown, a walk | `CloseIsJust`, `NoEarlyRun` |
| `MCSupStopInPause`, `MCCgroupRollback` | see section 6 | a statement of the code's documentation that its behaviour violates |

Every property is broken by at least one plausible bug: the definitions marked "Mutant of"
beside the ones they stand for (an open gate, a snapshot that is overwritten, a
re-arm that keeps the generation, a directory that is not synced, a round that ends at the first
pending future...). The type invariants of `RunLifecycle`, `GroupTeardown`, `Supervisor`, `Runner`, `Fanout`,
`Pipeline`, `Cassette` and `Job` are in no run: they are proved for all constants.

**Bounds.** Nothing in `RunLifecycle` counts: its state space is finite with no bound, and one
child, three watchdogs and one handle are the whole scope of a run. The configurations of a run
leave out only combinations that change no order (a grace without a trigger) and split the
rest. In `GroupTeardown` every call happens once; one joining call of each kind, two at a time, against
one stop exhibits every pairwise race, and the generation reaches the number of joins. Several stops
and several joins of one kind are covered by the proofs; `SpareSurvivesRollback` is proved of launches
that take turns and is false of launches that overlap (section 6). In
`Supervisor` the budget bounds the attempts: 2 restarts give a first, a middle and a last
one, and an unlimited `max_restarts` is a budget that is never reached. In `LineBuffer` a script has at most three lines and seven
bytes, read in every way it can be cut into chunks, with the end or an error at any byte; the
scripts put a line that fits after one that does not, empty lines against a byte cap, a line beyond
the cap, and a line that repeats the length of the one before. What a longer script would add, more
publications per wait and more lines past the seal, is covered by the theorems.
In `Pipeline` three stages are a first, an inner and a last one; the troubles are spread over chains of
two, since each concerns one stage and the rest of the chain. In `Cgroup` two numbers for up to four
processes make every number be reused, and two passes of the sweep are one that is followed by
another and the last; what a fork bomb does to fifty passes it does to two. A kill beside two
adoptions is left to the theorems, which hold for any number of each. In `Fanout` three
commands against two slots leave one waiting while the others end in either order; two attempts are
a first and a last. In `Cassette` a caller has two runs, so that a slot has an order to keep, and
replays two; one file may be renamed ahead of the directory's sync. A player loads when the recorders
are gone: what it would find before, it also finds if they die at that moment, and recorders never
read the player. In `Job` two spawns, of which one is pinned, meet one of every other call.

**Fairness.** The tokio runtime polls every task that is ready: weak fairness of each
watchdog, of the handle's code while a future is being awaited, of the hand-off, of the
orphan queue, of the supervision task and of an awaited `stop()`. The gate's mutex is held
over a few instructions and its waiters get it: strong fairness of acquisitions only. A
call on the group is a thread that runs. Nothing is assumed of the caller (who may never wait,
probe or drop), of the child (who may never exit or write), of the token, of a health probe,
or of a run whose teardown fails (`TeardownFails`: it may, which must not be what ends a wait). The
pump and whoever awaits the buffer are polled; the child owes no byte and no end of its
pipe, and the bounded join may or may not elapse. A kill that is sent is effective at once: the
kernel's own delay has no effect on order, since a killed child still has to be reaped.
In `Pipeline` tasks are polled and timers fire; the watcher's probe, which a caller in
`wait_for_line` disables again and again, has strong fairness: it polls by timer for ever, and each
such wait is bounded, so that it meets the handle in its slot. In `Cgroup` only the thread that
drops the job and the reclaimer's thread are scheduled. In `Fanout` the executor polls the
driver when it was woken, and the verbs of other tasks; that a child ends sooner or later is
an assumption about the programs that are run, and `EveryCallReturns` is relative to it. `Cassette` and
`Job` state no liveness.

## 4. What is proved

`tlapm` checks every leaf, for all values of the constants satisfying the modules' named assumptions
(any set of configurations, any number of concurrent calls, processes, numbers and members, any budget,
any script, ceiling and prompt, any length of a chain, any plan of verbs, any limit and number of
commands, any recorders and callers). The assumptions say what a constant is (a set of calls, a
natural number, a marker that is no call); one says something of the code: in `Cassette`, a digest
of a directory is never the `None` of a key that leaves the directory out (`cassette.rs:506`: an
inherited directory has a digest, too).

Every safety property that a passing run checks is a theorem, `SpareSurvivesRollback` under a
hypothesis. The shape is the same throughout: an inductive invariant, checked by TLC first; a lemma for
the initial state; one for each step or group of steps; and the properties as corollaries.

* `RunLifecycle_proofs`. `TypeCorrect`; `GateCorrect`: `GateInv` is inductive relative to the types.
  `NoStraySignal` alone is not: one must know that a holder of the mutex is inside its
  critical section, that a freed pid implies a retired gate or the section about to retire it,
  and which of the handle's places are only reached with a retired gate
  (`FinisherRetiredFirst`), because there tokio frees the pid outside the mutex. `NoStray`
  is the corollary. `ReapCorrect` and `TimeoutCorrect` are the same for `ReapInv` and `TimeoutInv`
  (a watchdog past its claim is named by the arbiter), with `ReportCorrect` and `TimeoutReported` as
  their corollaries. `SettledCorrect` needs `SettleInv`: the arbiter is decided before anything is
  latched, a teardown has a trigger that claimed, and whoever was told of the run was told what its
  latched disposition and the arbiter say (`Told`). Its subtle part is the run that settles as not
  cancelled: behind the gate of a `wait` whose poll of the token was silent, the cancel watchdog has
  killed nobody and no longer can (`CancelIsHarmless`).
* `GroupTeardown_proofs`. One inductive invariant of ten parts. The heart is `EpochInv` (a stop
  whose snapshot is still the current generation has warned everyone who stands, table by
  table), `LatchInv` (a spare in force was earned) and `TokenInv` (a displaced spare that can
  still be restored, too), which need each other: a request turns `EpochInv` into
  `LatchInv`, a clear turns `LatchInv` into `TokenInv`, a restore turns it back. `TrackInv` says
  a member is in its table before the latch is re-armed (spawn) or by the time it joined
  (adoption), which `LockInv` makes visible to the sweeps. `KillInv` follows a hard stop
  table by table. `NewcomerCorrect`, `DropCorrect` and `KillCorrect` follow; the last excepts the
  members that refused their signal and whose state could not be read. `SpareCorrect` is
  `Spec /\ []LaunchesInTurn => []SpareSurvivesRollback`: a displaced spare is owed by a spawn about
  to join, by an adoption that may, or by the one launch whose token still matches the generation, or
  a refused adoption has re-armed over it (`SpareInv`; the last is a finding, section 6). The
  hypothesis, that
  no two launches have an unspent token at once, is what the code does not provide and what the property
  cannot do without: of two launches that overlap, the second displaces nothing and the first restores
  nothing, since the generation has moved on (section 6).
* `Supervisor_proofs`. One inductive invariant of seven parts; `LiveInv` ties a live private
  child to its attempt and to an end after which nothing is launched, `StopsInv` ties the
  published attempt to who may stop it, `LaunchInv` bounds the launches past a stop,
  `BudgetInv` the counter. The corollaries are the safety properties.
* `LineBuffer_proofs`. `WakeCorrect`: `NoLostWakeup` needs `Noticed`, the argument of the comments on
  `generation`: a waiter on its way to sleep saw a generation no newer than the present one, and if
  there is something for it by now, the generation has advanced or its publisher has yet to advance
  it. The step lemmas are few: a quiet step, one after which a publication is due, the
  publication, the broadcast. `HeadCorrect`: with `DropNewest`, what was yielded and what is kept
  count up from 1, and while the head is open the pump is at the next number (`HeadOpen`), which is
  also the number of a live tail (`TailIsNext`), so that a salvage appends it or nothing.
  `OnceCorrect` and `HonestCorrect` rest on `LinesInv`: the pump is inside the script (`ScriptInv`), what
  the backlog holds was read and counted (`TallyInv`), line numbers rise from what was yielded over the
  backlog to the live tail (`OrderInv`), a pump that waits has published what it waits with (`TailInv`),
  and a capture has every line up to the pump's, or the counter of losses says that it has not
  (`WholeInv`). The last goes step by step through `push`, since the line, the loss and the
  publication are three steps and the verb may collect between them.
* `Job_proofs`. `JobInv`: whoever is between the assignment and the end of a spawn owns `suspend_lock`,
  and a walk that owns it has listed no child whose spawn may still let it run (`LockInv`); how far a
  spawn came says what its child is (`SpawnInv`); outside of the job there are only children that never
  ran (`ReachInv`); the latch is set exactly while a spare is in force (`CloseInv`). `EarlyRunCorrect`
  and `CloseCorrect` follow.
* `Pipeline_proofs`. `ChainInv`: what each task's place says of its stage's reap and disposition
  (`TaskInv`), what the shared records say (`RecordInv`: the confirmed are reaped, and who was
  confirmed when the teardown fired is never a victim), that an error that was joined is held and has
  fired the teardown (`ErrorInv`), and who can have killed a stage that is no victim (`KilledInv`).
  `ReapedCorrect` and `BlameCorrect` follow; the latter needs the first stage with a reportable failure,
  that is, a least element of a set of numbers.
* `Cgroup_proofs`. Everything goes by number there, so `CgroupInv` says when a number still means one
  process: numbers are unique among processes that exist (`KernelInv`), a launching child is not
  reaped, so that its leaf's claim is its own (`LaunchInv`), and a member is found in a directory of the
  registry (`RegInv`). The rest follows each call: `RollInv`, `HitInv` (between the second read and the
  delivery a pin whose number was listed is of a member), `SweepInv` (the last read has found whom it
  owes, or has yet to read the leaf), `FreezeInv` (who is to thaw a frozen job) and `AdoptInv`.
  `SweepCorrect`, `KillCorrect`, `RollbackCorrect` and `AdoptionCorrect` follow. `KillCorrect` excludes
  whom an adoption moved during the sweep (section 6 shows why), and `AdoptionCorrect` whom another
  adoption accounts for: of two adoptions of one reused number, one may have meant the process that
  the other moved by mistake.
* `Seam_proofs`, `Runner`. `RunnerInv` adds `AttemptInv` to the types and `PayloadGoesOnce`: where an
  operation stands says what became of its attempts, and only an attempt whose child is settled leads to
  a pause. `PayloadCorrect` and `TwinCorrect` follow.
* `Seam_proofs`, `Fanout`. `FanoutCorrect`: `QueueInv` (the queue is what is left of the commands in
  their order, a slot holds a future or a result, no more futures than the limit) and `WakeInv` (the
  futures before the cursor wait with the waker, unless the driver was woken since). `WakeupCorrect` is
  a corollary; `ImplementsRunner` shows that a fan-out's steps are `Runner`'s, by which `BatchPayload`
  and `BatchTwins` are inherited; `BatchCorrect` is the refinement: every step of the driver is a step
  of `Batch` or a stutter, `Refill` being the start of several commands at once.
* `Seam_proofs`, `Cassette`. `CassetteInv`: a save writes what was recorded when it began and is still all
  there is (`CloneInv`), the advisory lock has one holder, whose file is the last from its rename on
  and the only one once the directory was synced, and what is renamed is whole (`FileInv`), entries of a
  caller are numbered in their order in every copy (`OrderInv`), and a cursor stands where the one caller
  of its key does (`PlayInv`). `CleanCorrect` and `ReplayCorrect` follow; `StoreCorrect` is the
  refinement of `Store`, where `FileInv` is what makes the step that returns Ok a `Confirm`.

Sums and counts over data (`StartOf`, `BytesOf`, the n-th position of a slot) are recursive functions
or choices in the modules; the facts about them that hold by induction are proved from the
well-foundedness of the strict order of finite sets, by which every set of numbers has a least element
(`LeastNatural`), and not by the library's induction rules, whose operator parameter the provers
cannot instantiate.

Model-checked only: the liveness properties `TeardownEnforced`, `CallsReturn`, `StopsAreAnswered`,
`StreamsAreServed`, `FailureEndsChain`, `VerbReturns`, `DirsReclaimed` and `EveryCallReturns`, since
fairness and `ENABLED` are outside of the prover's reach.

## 5. What is not modelled

* In the run: attaching a group or a second token to a live handle (re-arming of the
  cancel watchdog), `shutdown()`, the PTY and scripted backends, errors of `wait(2)`,
  descendants in the child's group.
* In the buffer: see the section of `LineBuffer`; and the raw pump of `output_bytes`, the readers
  that merge two pipes or feed from a channel, and the merged stream of events.
* In the POSIX group: suspend/resume and plain signals (no state changes), the identity check of a
  recycled pid (a member is an identity there, not a number).
* In the cgroup: suspend and resume, `signal()`, limits, statistics, the graceful tiers and the
  setting of the spare (they are `GroupTeardown`'s; the spare is set or not from the start), how
  many leaves gather before a reclaim pass is paid for (it may be, at every registration), the
  backoff of the reclaimer.
* In the Windows job: the list of console-group leaders (a soft tier exists or not), recycled process
  and thread numbers, limits, statistics, `signal()`, member queries.
* In the FreeBSD reaper: all but the hand-over of a displaced spare.
* In the supervisor: the event stream and its lag, the status mirror, the backoff and storm
  arithmetic (a pause just ends, at any time), predicates (either answer).
* In the pipeline: panics of tasks, tokens and timeouts of a single stage, what the captured text says;
  a hard kill across all the groups is one step.
* In the runner: payloads that may be read again, pause lengths, the writer task that feeds an
  input. `NoLivingTwin` is about runs that own their group: one in a shared group leaves its child
  there by design. The code's "already consumed by a previous run" is also what a launch is told
  whose input is merely reserved by another one, which may still give it back: `Consumed`.
* In the cassette: the contents of an entry beyond its key and origin, scrubbing, decoding, the
  streaming verbs. Refusing a symbolic link is one of the reasons of `SaveFails`. On Windows, where
  the directory is not synced, the file system itself is trusted with that step.
* Components listed in section 1 without a module: the facade dispatches to a backend; pseudo-terminals
  are sequences of system calls on handles; test doubles, detached processes, statistics, commands
  and errors keep no state that several actors share.

The implementation has about 50,000 lines that are not tests, of which the command builder, the
result and error types, platform glue and documentation comments make up the larger part; the map
covers the code whose order of steps matters.

## 6. Findings

Two runs show a disagreement between the code and what it says of itself:

1. `MCSupStopInPause`: a stop taken in the pause after a failed launch may be followed by one
   more launch (`supervisor.rs:1936`). `OneMoreLaunchAtMost`, proved, says it is never more than one.
2. `MCCgroupRollback`: a spawn's leaf keeps answering to its number after the child was reaped. A PTY
   launch without a leaf of its own that gets the number finds the old leaf when it is rolled back and
   kills the descendants in it (`sys/linux.rs:1615`, against `sys/linux.rs:573` and `1729`).
   `RollbackHitsItsSpawn`, proved, says a launch with a leaf never does.

Also observed while modelling, without a run of their own:

* `wait_exit` leaves the gate open while it waits, so the cancel watchdog
  may kill between the poll of its cancel arm and the poll of the reap; the cancelled run is
  reported as signalled (`running/mod.rs:2178`, "a cancel that fires mid-wait wins"). `SettledForGood` excludes this verb.
* `wait_exit`'s cancel arm stands the watchdog down and then awaits the
  grace; a future dropped there (a loser of `wait_any`) leaves nobody to escalate
  (`running/mod.rs:2194`). `MCRunLive` has no abandoned waits.
* An inactivity watchdog that claimed the arbiter stands down when `wait`
  retires the gate; `wait` starts a window of its own, and a child that writes again is
  not killed, yet will be reported as inactive (`running/stream.rs:470`).
* A hard stop may return Ok with a member alive: a refusal (`EPERM`) of a member whose state cannot be
  read, on the BSDs or where `/proc` is hidden, passes for a zombie's (`sys/pgroup.rs:1064`, with 279
  and 376; the comments there say so). `KillReachesMembers` excepts exactly these.
* An adoption re-arms the latch before it finds that the number was recycled and refuses
  (`sys/pgroup.rs:1511`). The spare it displaced is not restored, so that `Drop` kills the survivors of
  an earlier shutdown although nobody joined (against `sys/skip_drop_kill.rs:141`, "a group left with
  the latch set but never reused keeps its spared survivors"). `SpareSurvivesRollback` excepts this one
  way (`RearmedInVain`); as an invariant of `MCGroup` without the exception it is violated.
* Two PTY launches that are both rolled back lose the spare (`sys/skip_drop_kill.rs:193`).
* The last read of a hard stop passes the job's own directory before the leaves (`sys/linux.rs:2213`). An
  adoption that was given a number, which a member in a leaf has got meanwhile, moves that member to
  the job; if that falls between the two reads, the member is in neither and `kill` answers Ok with it
  alive. `KillOkReaches` excludes processes an adoption moved during the sweep.
* A pump that outlives the bounded join is aborted, which does not stop it inside
  a poll; `output_string` may then take the backlog after a line was evicted and read `dropped` before
  the eviction is counted, and the clipped output is not marked as truncated (`pump.rs:690`).
* In a pipeline, a stage that had failed by itself when another failure fired the teardown, but is
  observed only afterwards, is latched as a victim; a stage the teardown killed, or a broken-pipe
  victim, may be blamed instead (`pipeline.rs:2863`, against `docs/pipelines.md:96`, "preferring a
  real failure over a downstream `SIGPIPE` victim").
  That includes the last stage while its watcher is between confirming the reap (2856) and reading the
  token: a failure confirmed before the teardown fired is latched as a victim. What holds is
  `ObservedFailureIsBlamed`, about failures that were confirmed and latched.
* When the sync of the directory fails, `save` returns an error although the rename has replaced the
  file (`cassette.rs:619`, "the original cassette (if any) is untouched").
* A rejected affinity mask releases `suspend_lock` before the guard kills the suspended child: a
  `resume()` in between lets it run unpinned for a moment (`sys/windows.rs:728`, "a rejected mask
  cannot leak or briefly run with the inherited affinity"). `NoEarlyRun` is about spawns that succeed.

## 7. Plan

Done: the run, the POSIX group, the supervisor, the line buffer, the pipeline, the cgroup, the runner
and the fan-out with the refinement of `Batch`, the cassette with the refinement of `Store`, the
Windows job. Left, most important first:

1. An abstract run ("settles once, then never changes") implemented by `RunLifecycle`, and an
   abstract spare ("held by a shutdown until somebody joins") implemented by `GroupTeardown`.
2. Re-arming and `shutdown()` in `RunLifecycle`; recycled identities in `GroupTeardown`; the graceful
   tiers and the freezer's user calls in `Cgroup`; the FreeBSD reaper.
3. The supervisor's event stream, and the stdin writer with its bounded finish.
