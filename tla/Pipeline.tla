------------------------------ MODULE Pipeline ------------------------------
(* A chain of commands (pipeline.rs): its launch and unwinding, one task per   *)
(* stage that reaps it and drains its output, the watcher of a live session's  *)
(* last stage, the proactive teardown and the killer behind it, the chain-wide *)
(* deadline and token, and the two ways a chain is driven to its end: a        *)
(* buffering verb (Pipeline::capture) and a session (Pipeline::start followed  *)
(* by start_kill, wait_for_line, finish or a drop).                            *)
(*                                                                             *)
(* A stage's own run is the subject of RunLifecycle. Here it is a child that   *)
(* may end by itself at any time, that the token makes its own task kill, and  *)
(* whose exit is observed once. A "deaf" child refuses to be killed: the kill  *)
(* of its group is an error. A "loud" stage may overflow a fail-loud buffer or *)
(* meet an I/O error while its output is drained. A hard kill across all the   *)
(* groups is one step. Panics of tasks, tokens and deadlines of a single       *)
(* stage, and what the captured text says are left out.                        *)
EXTENDS Naturals, FiniteSets, FiniteSetsExt

CONSTANTS N,        \* the most stages a chain has
          Configs   \* the chains considered

Places == 1..N

\* What is configured: how the chain is driven, its length, the stages marked
\* unchecked, those whose child refuses signals, those whose drain may fail,
\* whether the chain has a token and a time limit, and which of wait_for_line,
\* start_kill and a drop its caller may resort to.
ConfigSpace == [verb : {"capture", "session"}, n : 2..N,
                unchecked : SUBSET Places, deaf : SUBSET Places, loud : SUBSET Places,
                token : BOOLEAN, limit : BOOLEAN,
                caller : SUBSET {"wait", "kill", "drop"}]

ASSUME ChainAssumption == /\ N \in Nat \ {0, 1}
                          /\ Configs \subseteq ConfigSpace

VARIABLES
  conf,      \* the chain
  phase,     \* where its driver stands
  child,     \* per stage: what the kernel knows of the child
  end,       \* per stage: how the child ended
  snap,      \* per stage: had the token fired when the child was reaped
  disp,      \* per stage: the ExitDisposition latch
  task,      \* per stage: its task (for a session's last stage: finish's own)
  res,       \* per stage: what the task returned
  token,     \* the chain's cancellation token has fired
  teardown,  \* the proactive teardown has fired
  cause,     \* the latched TeardownCause
  confirmed, \* PipelineTerminalState: the stages observed reaped
  termFail,  \* PipelineTerminalState: the first failed observation
  failure,   \* PipelineTeardownState: the first failed teardown
  killer,    \* the fallback killer
  deadline,  \* the chain-wide deadline, and its kill
  last,      \* the slot of a session's last handle
  watcher,   \* the watcher of a session's last stage
  err,       \* the error the drain of the tasks holds
  result,    \* what the verb returned
  explicit,  \* history: start_kill was called
  atFire     \* history: whose exit was confirmed and latched when teardown fired

Stages == 1..conf.n
Last   == conf.n

stageVars == <<child, end, snap, disp, task, res>>
fireVars  == <<teardown, cause, atFire>>
termVars  == <<confirmed, termFail>>
bgVars    == <<killer, deadline, last, watcher>>
endVars   == <<phase, result>>
vars == <<conf, token, failure, err, explicit, stageVars, fireVars, termVars, bgVars, endVars>>

Causes == {"Cancellation", "PipelineFailure", "Timeout", "ExplicitKill"}
Ends   == {"clean", "fail", "sigpipe", "killed"}
Errors == {"cancelled", "io", "teardown"}

Kinds  == {"none", "launch", "fold", "timedout", "dropped"} \cup Errors

Result(k, b, c) == [kind |-> k, blame |-> b, cause |-> c]

TypeOK ==
  /\ conf \in Configs
  /\ phase \in {"launch", "live", "gather", "settle", "over"}
  /\ child \in [Places -> {"none", "alive", "exited", "reaped"}]
  /\ end \in [Places -> Ends \cup {"none"}]
  /\ snap \in [Places -> BOOLEAN]
  /\ disp \in [Places -> {"unobserved", "culprit", "victim"}]
  /\ task \in [Places -> {"none", "wait", "drain", "done", "joined"}]
  /\ res \in [Places -> Errors \cup {"none", "ok"}]
  /\ token \in BOOLEAN /\ teardown \in BOOLEAN /\ explicit \in BOOLEAN
  /\ {cause, termFail, failure} \subseteq Causes \cup {"none"}
  /\ err \in Errors \cup {"none"}
  /\ confirmed \subseteq Stages /\ atFire \subseteq Stages
  /\ killer \in {"armed", "confirm", "done"}
  /\ deadline \in {"off", "armed", "kill", "confirm", "done"}
  /\ last \in {"held", "borrowed", "taken"}
  /\ watcher \in {"off", "poll", "seen", "confirmed", "latched", "done"}
  /\ result \in [kind : Kinds, blame : 0..N, cause : Causes \cup {"none"}]

Init ==
  /\ conf \in Configs
  /\ phase = "launch"
  /\ child = [i \in Places |-> "none"]
  /\ end = [i \in Places |-> "none"]
  /\ snap = [i \in Places |-> FALSE]
  /\ disp = [i \in Places |-> "unobserved"]
  /\ task = [i \in Places |-> "none"]
  /\ res = [i \in Places |-> "none"]
  /\ token = FALSE /\ teardown = FALSE /\ explicit = FALSE
  /\ cause = "none" /\ termFail = "none" /\ failure = "none" /\ err = "none"
  /\ confirmed = {}
  /\ killer = "armed" /\ deadline = "off" /\ last = "held" /\ watcher = "off"
  /\ result = Result("none", 0, "none")
  /\ atFire = {}

-----------------------------------------------------------------------------
(* Shared operations.                                                         *)

Session == conf.verb = "session"
Over    == phase = "over"

\* is_checked_failure
CheckedFailure(i) == i \notin conf.unchecked /\ end[i] # "clean"

Exited(i) == child[i] \in {"exited", "reaped"}

\* kill_all_stage_groups: every group is attempted; a deaf child's is an error.
Fan ==
  LET hit == {i \in Stages : child[i] = "alive" /\ i \notin conf.deaf}
  IN /\ child' = [i \in Places |-> IF i \in hit THEN "exited" ELSE child[i]]
     /\ end' = [i \in Places |-> IF i \in hit THEN "killed" ELSE end[i]]
FanFails == \E i \in conf.deaf : child[i] = "alive"

\* trigger_pipeline_teardown: the cause is set once, then the token fires.
Fire(c) ==
  /\ teardown' = TRUE
  /\ cause' = IF cause = "none" THEN c ELSE cause
  /\ atFire' = IF teardown THEN atFire ELSE {i \in confirmed : disp[i] # "unobserved"}
FireIf(b, c) == IF b THEN Fire(c) ELSE UNCHANGED fireVars

\* pipeline_error_teardown_cause
ErrorCause(r) == IF r = "io" THEN "PipelineFailure" ELSE "Cancellation"

\* latched_pipeline_teardown_cause
Latched == IF cause = "none" THEN "PipelineFailure" ELSE cause

\* record_pipeline_failure: the first one stays.
Record(c) == failure' = IF failure = "none" THEN c ELSE failure

\* Mutant of Latch: the last observer overwrites the first.
LatchLast(i) == [disp EXCEPT ![i] = IF teardown THEN "victim" ELSE "culprit"]

\* ExitDisposition::latch: the first observation counts.
Latch(i) ==
  [disp EXCEPT ![i] = IF @ # "unobserved" THEN @
                      ELSE IF teardown THEN "victim" ELSE "culprit"]

AllConfirmed == confirmed = Stages
TimedOut == deadline \notin {"off", "armed"}

\* The select! of capture is not polled while its own deadline arm kills and
\* confirms; a session's deadline and killer are tasks of their own.
Polled == Session \/ deadline \notin {"kill", "confirm"}

\* The verb returns or the session is dropped: tasks and background tasks are
\* aborted, the handles and groups dropped, and with them the children killed.
Return(r) == result' = r /\ phase' = "over" /\ Fan

-----------------------------------------------------------------------------
(* Launch: one stage after the other, then the driver begins.                 *)

Unstarted == {i \in Stages : child[i] = "none"}

LaunchStage ==
  /\ phase = "launch" /\ Unstarted # {} /\ ~token
  /\ child' = [child EXCEPT ![Min(Unstarted)] = "alive"]
  /\ UNCHANGED <<conf, token, failure, err, explicit, end, snap, disp, task, res,
                 fireVars, termVars, bgVars, endVars>>

\* The token is checked before each stage; a spawn or the preparation of the
\* capture may fail. The stages started so far are dropped.
LaunchFails ==
  /\ phase = "launch"
  /\ Return(Result("launch", 0, "none"))
  /\ UNCHANGED <<conf, token, failure, err, explicit, snap, disp, task, res,
                 fireVars, termVars, bgVars>>

Begin ==
  /\ phase = "launch" /\ Unstarted = {}
  /\ phase' = IF Session THEN "live" ELSE "gather"
  /\ task' = [i \in Places |-> IF i \notin Stages \/ (Session /\ i = Last) THEN "none" ELSE "wait"]
  /\ deadline' = IF conf.limit THEN "armed" ELSE "off"
  /\ watcher' = IF Session THEN "poll" ELSE "off"
  /\ UNCHANGED <<conf, token, failure, err, explicit, child, end, snap, disp, res,
                 fireVars, termVars, killer, last, result>>

-----------------------------------------------------------------------------
(* The children, and the chain's token.                                       *)

\* A stage whose reader is gone may die of SIGPIPE.
ChildExits(i) ==
  /\ ~Over /\ child[i] = "alive"
  /\ \E e \in {"clean", "fail", "sigpipe"} :
       /\ e = "sigpipe" => i < Last /\ Exited(i + 1)
       /\ end' = [end EXCEPT ![i] = e]
  /\ child' = [child EXCEPT ![i] = "exited"]
  /\ UNCHANGED <<conf, token, failure, err, explicit, snap, disp, task, res,
                 fireVars, termVars, bgVars, endVars>>

FireToken ==
  /\ ~Over /\ conf.token /\ ~token
  /\ token' = TRUE
  /\ UNCHANGED <<conf, failure, err, explicit, stageVars, fireVars, termVars,
                 bgVars, endVars>>

\* The token reaches every stage, whose run kills its own subtree.
CancelStage(i) ==
  /\ ~Over /\ token /\ child[i] = "alive" /\ i \notin conf.deaf
  /\ child' = [child EXCEPT ![i] = "exited"]
  /\ end' = [end EXCEPT ![i] = "killed"]
  /\ UNCHANGED <<conf, token, failure, err, explicit, snap, disp, task, res,
                 fireVars, termVars, bgVars, endVars>>

-----------------------------------------------------------------------------
(* The tasks of the stages: finish_inner_stage, and the last stage's future.  *)

\* observe_pipeline_stage_exit, in the poll that reaps the child (or finds that
\* the watcher reaped it): the disposition is latched, the stage confirmed.
Observe(i) ==
  /\ ~Over /\ task[i] = "wait" /\ Exited(i)
  /\ child' = [child EXCEPT ![i] = "reaped"]
  /\ snap' = [snap EXCEPT ![i] = IF child[i] = "exited" THEN token ELSE @]
  /\ disp' = Latch(i)
  /\ confirmed' = confirmed \cup {i}
  /\ task' = [task EXCEPT ![i] = "drain"]
  /\ UNCHANGED <<conf, token, failure, err, explicit, end, res, fireVars, termFail,
                 bgVars, endVars>>

\* What the end of a stage's task fires: a failure of its own that no teardown
\* preceded; an error only in a session (a capture leaves errors to the drain).
Fires(i, r, victim) ==
  IF r = "ok" THEN ~victim /\ CheckedFailure(i)
  ELSE Session /\ (i < Last \/ ~victim)

TaskEnds(i, r, victim) ==
  /\ task' = [task EXCEPT ![i] = "done"]
  /\ res' = [res EXCEPT ![i] = r]
  /\ FireIf(Fires(i, r, victim),
            IF r = "ok" THEN "PipelineFailure" ELSE ErrorCause(r))

\* The drain ends: the outcome is checked, and the teardown is fired only now.
Drained(i) ==
  /\ ~Over /\ task[i] = "drain"
  /\ \E r \in IF snap[i] THEN {"cancelled"}
              ELSE {"ok"} \cup (IF i \in conf.loud THEN {"io"} ELSE {}) :
       TaskEnds(i, r, disp[i] = "victim")
  /\ UNCHANGED <<conf, token, failure, err, explicit, child, end, snap, disp,
                 termVars, bgVars, endVars>>

\* The stage's own teardown on the token fails: Unconfirmed, and Err(Teardown).
CancelFails(i) ==
  /\ ~Over /\ token /\ task[i] = "wait" /\ child[i] = "alive" /\ i \in conf.deaf
  /\ disp' = Latch(i)
  /\ termFail' = IF termFail = "none" THEN "Cancellation" ELSE termFail
  /\ TaskEnds(i, "teardown", disp'[i] = "victim")
  /\ UNCHANGED <<conf, token, failure, err, explicit, child, end, snap, confirmed,
                 bgVars, endVars>>

-----------------------------------------------------------------------------
(* The watcher of a live session's last stage, and the caller's hold on it.   *)

WatchProbe ==
  /\ phase = "live" /\ watcher = "poll" /\ last = "held" /\ Exited(Last)
  /\ child' = [child EXCEPT ![Last] = "reaped"]
  /\ snap' = [snap EXCEPT ![Last] = token]
  /\ watcher' = "seen"
  /\ UNCHANGED <<conf, token, failure, err, explicit, end, disp, task, res,
                 fireVars, termVars, killer, deadline, last, endVars>>

\* Then, the slot released, it confirms, latches, and fires: three steps, between
\* which other tasks run. An abort does not stop it in the middle of a poll.
WatchConfirms ==
  /\ ~Over /\ watcher = "seen"
  /\ confirmed' = confirmed \cup {Last}
  /\ watcher' = "confirmed"
  /\ UNCHANGED <<conf, token, failure, err, explicit, stageVars, fireVars, termFail,
                 killer, deadline, last, endVars>>

WatchLatches ==
  /\ ~Over /\ watcher = "confirmed"
  /\ disp' = Latch(Last)
  /\ watcher' = "latched"
  /\ UNCHANGED <<conf, token, failure, err, explicit, child, end, snap, task, res,
                 fireVars, termVars, killer, deadline, last, endVars>>

\* Mutant of WatchFires: the watcher leaves the teardown to finish.
WatchOnlyLatches ==
  /\ ~Over /\ watcher = "latched"
  /\ watcher' = "done"
  /\ UNCHANGED <<conf, token, failure, err, explicit, stageVars, fireVars, termVars,
                 killer, deadline, last, endVars>>

WatchFires ==
  /\ ~Over /\ watcher = "latched"
  /\ FireIf(disp[Last] = "culprit" /\ (snap[Last] \/ CheckedFailure(Last)),
            IF snap[Last] THEN "Cancellation" ELSE "PipelineFailure")
  /\ watcher' = "done"
  /\ UNCHANGED <<conf, token, failure, err, explicit, stageVars, termVars,
                 killer, deadline, last, endVars>>

\* wait_for_line takes the handle out of the slot; LastBorrow puts it back.
Borrow ==
  /\ phase = "live" /\ last = "held" /\ "wait" \in conf.caller
  /\ last' = "borrowed"
  /\ UNCHANGED <<conf, token, failure, err, explicit, stageVars, fireVars, termVars,
                 killer, deadline, watcher, endVars>>
PutBack ==
  /\ phase = "live" /\ last = "borrowed"
  /\ last' = "held"
  /\ UNCHANGED <<conf, token, failure, err, explicit, stageVars, fireVars, termVars,
                 killer, deadline, watcher, endVars>>

-----------------------------------------------------------------------------
(* The fallback killer: the task of spawn_group_killer, the arm in capture.   *)

KillerKills ==
  /\ phase \in {"live", "gather", "settle"} /\ Polled
  /\ teardown /\ killer = "armed"
  /\ Fan
  /\ IF FanFails THEN Record(Latched) /\ killer' = "done"
     ELSE killer' = "confirm" /\ UNCHANGED failure
  /\ UNCHANGED <<conf, token, err, explicit, snap, disp, task, res, fireVars,
                 termVars, deadline, last, watcher, endVars>>

\* confirm_or_record_pipeline_terminal_failure: a failed observation counts
\* before full confirmation; failing both, the budget elapses.
Confirms(c) ==
  IF termFail # "none" THEN Record(termFail)
  ELSE IF AllConfirmed THEN UNCHANGED failure ELSE Record(c)

KillerConfirms ==
  /\ phase \in {"live", "gather", "settle"} /\ Polled
  /\ killer = "confirm"
  /\ Confirms(Latched)
  /\ killer' = "done"
  /\ UNCHANGED <<conf, token, err, explicit, stageVars, fireVars, termVars,
                 deadline, last, watcher, endVars>>

-----------------------------------------------------------------------------
(* The chain-wide deadline: the task of a session, the timeout arm of capture. *)

Expire ==
  /\ phase \in {"live", "gather", "settle"} /\ deadline = "armed"
  /\ deadline' = "kill"
  /\ cause' = IF cause = "none" THEN "Timeout" ELSE cause
  /\ UNCHANGED <<conf, token, failure, err, explicit, stageVars, teardown, atFire,
                 termVars, killer, last, watcher, endVars>>

DeadlineKills ==
  /\ ~Over /\ deadline = "kill"
  /\ Fan
  /\ IF FanFails \/ (termFail # "none" /\ ~Session)
     THEN IF Session THEN Record(Latched) /\ deadline' = "done" /\ UNCHANGED endVars
          ELSE /\ \E c \in {termFail, Latched} \ {"none"} :
                    Return(Result("teardown", 0, c))
               /\ UNCHANGED <<failure, deadline>>
     ELSE deadline' = "confirm" /\ UNCHANGED <<failure, endVars>>
  /\ UNCHANGED <<conf, token, err, explicit, snap, disp, task, res, fireVars,
                 termVars, killer, last, watcher>>

DeadlineConfirms ==
  /\ ~Over /\ deadline = "confirm"
  /\ IF Session THEN Confirms(Latched) /\ deadline' = "done" /\ UNCHANGED <<child, end, endVars>>
     ELSE IF termFail = "none" /\ AllConfirmed
     THEN deadline' = "done" /\ UNCHANGED <<child, end, failure, endVars>>
     ELSE /\ Return(Result("teardown", 0, IF termFail = "none" THEN Latched ELSE termFail))
          /\ UNCHANGED <<failure, deadline>>
  /\ UNCHANGED <<conf, token, err, explicit, snap, disp, task, res, fireVars,
                 termVars, killer, last, watcher>>

-----------------------------------------------------------------------------
(* The driver: the drain of the tasks and the verdict.                        *)

\* prefer_pipeline_terminal_error
Prefer(first, later) ==
  IF first = "none" \/ (first # "teardown" /\ later = "teardown") THEN later ELSE first

\* Mutant of Join: the tasks are awaited by position.
JoinInOrder(i) ==
  /\ phase = "gather" /\ Polled /\ task[i] = "done"
  /\ Session => i < Last
  /\ \A j \in 1..(i - 1) : task[j] = "joined"
  /\ task' = [task EXCEPT ![i] = "joined"]
  /\ err' = IF res[i] = "ok" THEN err ELSE Prefer(err, res[i])
  /\ FireIf(res[i] # "ok", ErrorCause(res[i]))
  /\ UNCHANGED <<conf, token, failure, explicit, child, end, snap, disp, res,
                 termVars, bgVars, endVars>>

\* drain_unordered and finish's loop: whichever task is done is collected.
Join(i) ==
  /\ phase = "gather" /\ Polled /\ task[i] = "done"
  /\ Session => i < Last
  /\ task' = [task EXCEPT ![i] = "joined"]
  /\ err' = IF res[i] = "ok" THEN err ELSE Prefer(err, res[i])
  /\ FireIf(res[i] # "ok", ErrorCause(res[i]))
  /\ UNCHANGED <<conf, token, failure, explicit, child, end, snap, disp, res,
                 termVars, bgVars, endVars>>

\* pipefail: a genuine failure first, else the leftmost failure, else the last.
Blamed ==
  LET failures == {i \in Stages : CheckedFailure(i)}
      genuine  == {i \in failures : end[i] # "sigpipe" /\ disp[i] # "victim"}
  IN IF genuine # {} THEN Min(genuine)
     ELSE IF failures # {} THEN Min(failures) ELSE Last

\* In a session the last stage's result is kept apart from the drain's.
FinalError ==
  IF ~Session \/ res[Last] = "ok" THEN err
  ELSE IF err = "none" THEN res[Last] ELSE Prefer(res[Last], err)

Verdict ==
  IF TimedOut THEN Result("timedout", 0, "none")
  ELSE IF FinalError # "none" THEN Result(FinalError, 0, "none")
  ELSE Result("fold", Blamed, "none")

Gathered ==
  \A i \in Stages : task[i] = IF Session /\ i = Last THEN "done" ELSE "joined"

\* Mutant of Unsettled: a collected chain is taken to be settled.
SettledAnyway == FALSE

\* The terminal dispositions a teardown still owes.
Unsettled == (teardown \/ (Session /\ TimedOut)) /\ ~AllConfirmed

\* take_pipeline_teardown_failure, then the verdict.
Answer == Return(IF failure # "none" THEN Result("teardown", 0, failure) ELSE Verdict)

Settle ==
  /\ phase = "gather" /\ Polled /\ Gathered
  /\ IF Unsettled /\ failure = "none"
     THEN phase' = "settle" /\ UNCHANGED <<child, end, result>>
     ELSE Answer
  /\ UNCHANGED <<conf, token, failure, err, explicit, snap, disp, task, res,
                 fireVars, termVars, bgVars>>

\* A capture waits for the confirmation or its failure, without a budget (the
\* killer has one); finish waits with a budget. Either way the failure is
\* recorded before it is returned.
SettleEnds ==
  /\ phase = "settle" /\ Polled
  /\ failure # "none" \/ termFail # "none" \/ AllConfirmed \/ Session
  /\ IF failure # "none" THEN UNCHANGED failure ELSE Confirms(Latched)
  /\ Return(IF failure' # "none" THEN Result("teardown", 0, failure') ELSE Verdict)
  /\ UNCHANGED <<conf, token, err, explicit, snap, disp, task, res, fireVars,
                 termVars, bgVars>>

\* A recorded failure ends a capture at once; finish still gathers what its
\* confirmation budget allows, and then aborts the tasks that are left.
GiveUp ==
  /\ phase = "gather" /\ Polled /\ failure # "none"
  /\ Return(Result("teardown", 0, failure))
  /\ UNCHANGED <<conf, token, failure, err, explicit, snap, disp, task, res,
                 fireVars, termVars, bgVars>>

-----------------------------------------------------------------------------
(* The caller of a session, or of a verb.                                     *)

StartKill ==
  /\ phase = "live" /\ last = "held" /\ "kill" \in conf.caller
  /\ explicit' = TRUE
  /\ Fan
  /\ IF FanFails THEN Record("ExplicitKill") ELSE UNCHANGED failure
  /\ UNCHANGED <<conf, token, err, snap, disp, task, res, fireVars, termVars,
                 bgVars, endVars>>

\* finish aborts the watcher, takes the handle and drives the last stage itself.
Finish ==
  /\ phase = "live" /\ last = "held"
  /\ phase' = "gather"
  /\ last' = "taken"
  /\ watcher' = IF watcher = "poll" THEN "done" ELSE watcher
  /\ task' = [task EXCEPT ![Last] = "wait"]
  /\ UNCHANGED <<conf, token, failure, err, explicit, child, end, snap, disp, res,
                 fireVars, termVars, killer, deadline, result>>

\* The session, or the future of a verb, is dropped.
Dropped ==
  /\ phase \in {"live", "gather", "settle"} /\ "drop" \in conf.caller
  /\ Return(Result("dropped", 0, "none"))
  /\ UNCHANGED <<conf, token, failure, err, explicit, snap, disp, task, res,
                 fireVars, termVars, bgVars>>

-----------------------------------------------------------------------------
Next ==
  \/ LaunchStage \/ LaunchFails \/ Begin
  \/ \E i \in Stages : ChildExits(i) \/ CancelStage(i)
  \/ FireToken
  \/ \E i \in Stages : Observe(i) \/ Drained(i) \/ CancelFails(i) \/ Join(i)
  \/ WatchProbe \/ WatchConfirms \/ WatchLatches \/ WatchFires \/ Borrow \/ PutBack
  \/ KillerKills \/ KillerConfirms
  \/ Expire \/ DeadlineKills \/ DeadlineConfirms
  \/ Settle \/ SettleEnds \/ GiveUp
  \/ StartKill \/ Finish \/ Dropped

Spec == Init /\ [][Next]_vars

\* Tasks are scheduled, timers fire, waits of the caller are bounded, and the
\* launch goes on. A child is never obliged to end by itself, a caller never to
\* call finish, kill or drop.
Fairness ==
  /\ WF_vars(LaunchStage) /\ WF_vars(Begin) /\ WF_vars(PutBack)
  /\ \A i \in Places : /\ WF_vars(CancelStage(i)) /\ WF_vars(Observe(i))
                       /\ WF_vars(Drained(i)) /\ WF_vars(CancelFails(i))
                       /\ WF_vars(Join(i))
  /\ SF_vars(WatchProbe)
  /\ WF_vars(WatchConfirms) /\ WF_vars(WatchLatches) /\ WF_vars(WatchFires)
  /\ WF_vars(KillerKills) /\ WF_vars(KillerConfirms)
  /\ WF_vars(Expire) /\ WF_vars(DeadlineKills) /\ WF_vars(DeadlineConfirms)
  /\ WF_vars(Settle) /\ WF_vars(SettleEnds) /\ WF_vars(GiveUp)

FairSpec == Spec /\ Fairness

-----------------------------------------------------------------------------
(* Properties.                                                                *)

\* A chain is reported ended (folded, timed out, cancelled, or failed with a
\* stage's error) only when every stage's child was reaped: whatever may have
\* left one alive is reported as a teardown failure instead.
ReportedMeansReaped ==
  result.kind \in {"fold", "timedout", "cancelled", "io"} =>
    \A i \in Stages : child[i] = "reaped"

\* A failing stage whose exit was confirmed, and its disposition latched, before the
\* teardown fired keeps the blame: the fold never names a stage the teardown killed, nor one that died of
\* the broken pipe, instead of it, however late its own output was drained.
ObservedFailureIsBlamed ==
  (/\ result.kind = "fold" /\ ~explicit
   /\ \E i \in atFire : end[i] = "fail" /\ CheckedFailure(i))
    => end[result.blame] = "fail"

\* A checked failure of any stage, in a session nobody finishes or under a verb,
\* ends every sibling that can be killed, a quiet upstream included.
FailureEndsChain ==
  (/\ phase \in {"live", "gather"}
   /\ \E i \in Stages : Exited(i) /\ CheckedFailure(i))
    ~> (\A i \in Stages : i \notin conf.deaf => child[i] # "alive")

\* A verb whose chain failed, was cancelled or has a limit returns, whatever its
\* other stages do and in whatever order their tasks end.
VerbReturns ==
  (/\ phase \in {"gather", "settle"}
   /\ \/ token \/ conf.limit
      \/ \E i \in Stages : (Exited(i) /\ CheckedFailure(i)) \/ res[i] \in Errors)
    ~> Over
=============================================================================
