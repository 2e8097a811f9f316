------------------------------ MODULE Supervisor ------------------------------
(***************************************************************************)
(* A supervision session (src/src/supervisor.rs): the loop task that keeps *)
(* a command running, the session handle whose stop() races with it, and   *)
(* the incarnations of the child.                                          *)
(*                                                                         *)
(* The task and the handle meet in three places: the session state under   *)
(* its mutex (stopping, current), the stop token that interrupts a pause,  *)
(* and the child's stopper, which keeps the incarnation's private group    *)
(* alive for whoever holds it.  One step of the task is a stretch of drive *)
(* between two awaits or two locks of the session state.  An incarnation   *)
(* is named by its attempt number.                                         *)
(***************************************************************************)
EXTENDS Integers, FiniteSets

CONSTANTS
    Configs,   \* the supervisors a behaviour may start from
    MayFail    \* may a teardown leave its child unconfirmed or alive?

\* kind: what the runner hands out: a handle with a private group, one in the
\* caller's shared group, or (capture) no live handle at all.
ConfigSpace == [policy : {"always", "onCrash", "never"}, max : Nat,
                kind : {"own", "shared", "capture"},
                health : BOOLEAN, storm : BOOLEAN, oneShot : BOOLEAN]

ASSUME ConfigsAssumption == Configs \subseteq ConfigSpace /\ MayFail \in BOOLEAN

VARIABLES
    conf,          \* the supervisor's configuration, never changed
    userCancelled, \* the command's cancel_on token: monotone
    pc,            \* where drive is
    begun,         \* the attempts run_incarnation was called for (history)
    restarts,      \* the restart counter
    hasLast,       \* last_result is set
    end,           \* how the last incarnation ended
    result,        \* what drive returned: a StopReason, an error, or "none"
    stopping,      \* SessionState.stopping
    current,       \* SessionState.current: the published attempt, or 0
    stopToken,     \* SessionShared.stop was cancelled
    stopPc,        \* where stop() is
    stopper,       \* the attempt whose stopper stop() holds, or 0
    aborted,       \* the session was dropped: the task is to be aborted
    live,          \* attempts whose child is alive
    fired,         \* attempts whose inc_cancel token a stop fired
    stops,         \* who stopped which attempt's child (history)
    asked          \* where drive was, and what had begun, at request_stop (history)

loop    == <<pc, begun, restarts, hasLast, end, result>>
session == <<stopping, current, stopToken>>
handle  == <<stopPc, stopper, aborted>>
proc    == <<live, fired, stops>>
vars    == <<conf, userCancelled, loop, session, handle, proc, asked>>

LoopPc == {"begin", "top", "launch", "publish", "capture", "stopSelf", "run", "ended",
           "gate", "storm", "sleep", "over", "aborted"}
StopPc == {"idle", "token", "graceful", "await", "returned", "failed", "dropped"}
Ends    == {"none", "clean", "crash", "unhealthy", "probeError", "cancelled", "teardown", "error"}
Reasons == {"predicate", "satisfied", "gaveUp", "exhausted", "unhealthy", "stopped"}
Errors  == {"errCancelled", "errTeardown", "errPredicate", "err"}
Stoppers == {"task", "session"}

Attempt == restarts + 1

\* The task is inside run_to_result and owns the attempt's handle.
OwnsChild == pc \in {"publish", "capture", "stopSelf", "run"}

Awaits == {"launch", "capture", "stopSelf", "run", "storm", "sleep"}

\* inc_cancel is a child of the caller's token.
TokenFired(a) == userCancelled \/ a \in fired

MayRestart == conf.policy # "never" /\ conf.max # 0

Init ==
    /\ conf \in Configs
    /\ userCancelled = FALSE
    /\ pc = "begin" /\ begun = {} /\ restarts = 0
    /\ hasLast = FALSE /\ end = "none" /\ result = "none"
    /\ stopping = FALSE /\ current = 0 /\ stopToken = FALSE
    /\ stopPc = "idle" /\ stopper = 0 /\ aborted = FALSE
    /\ live = {} /\ fired = {} /\ stops = {}
    /\ asked = [at |-> "none", begun |-> {}]

UserCancels ==
    /\ ~userCancelled
    /\ userCancelled' = TRUE
    /\ UNCHANGED <<conf, asked, loop, session, handle, proc>>

ChildExits ==
    /\ \E a \in live : live' = live \ {a}
    /\ UNCHANGED <<conf, asked, userCancelled, loop, session, handle, fired, stops>>

-----------------------------------------------------------------------------
(* Pieces of the loop.                                                     *)

Goto(place) ==
    /\ pc' = place
    /\ UNCHANGED <<begun, restarts, hasLast, end, result>>

\* drive returns: the terminal event, mark_inactive, the completion channel.
Finish(r) ==
    /\ pc' = "over" /\ result' = r /\ current' = 0
    /\ UNCHANGED <<begun, restarts, hasLast, end, stopping, stopToken>>

\* Mutant of CurrentCleared: only a run that ends by itself clears current.
ClearedOnReturn(e) == IF e \in {"unhealthy", "probeError"} THEN current ELSE 0

\* CurrentGuard: every way out of run_to_result clears current.
CurrentCleared(e) == 0

\* The task lets go of its handle, and of current's stopper: a private group
\* that nobody else holds kills on drop.
KilledOnDrop(e) ==
    IF conf.kind = "own" /\ stopper # Attempt /\ CurrentCleared(e) = 0
      THEN live \ {Attempt} ELSE live

\* The incarnation is over, in the way e.
Leaves(e) ==
    /\ current' = CurrentCleared(e)
    /\ end' = e
    /\ hasLast' = (hasLast \/ e \in {"clean", "crash", "unhealthy"})
    /\ pc' = "ended"
    /\ UNCHANGED <<begun, restarts, result, stopping, stopToken>>

-----------------------------------------------------------------------------
(* One turn of the loop.                                                   *)

\* A one-shot stdin that a restart would need again is refused.
Begin ==
    /\ pc = "begin"
    /\ IF MayRestart /\ conf.oneShot
         THEN Finish("err")
         ELSE Goto("top") /\ UNCHANGED session
    /\ UNCHANGED <<conf, asked, userCancelled, handle, proc>>

Top ==
    /\ pc = "top"
    /\ \/ stopping /\ hasLast /\ Finish("stopped")
       \/ /\ ~(stopping /\ hasLast)
          /\ pc' = "launch"
          /\ begun' = begun \cup {Attempt}
          /\ UNCHANGED <<restarts, hasLast, end, result, session>>
    /\ UNCHANGED <<conf, asked, userCancelled, handle, proc>>

\* runner.start: a cancelled token is refused first, a spawn may fail; a
\* capture-only runner is found out, and launches behind output_string.
Launch ==
    /\ pc = "launch"
    /\ \/ TokenFired(Attempt) /\ Leaves("cancelled") /\ UNCHANGED live
       \/ Leaves("error") /\ UNCHANGED live
       \/ ~TokenFired(Attempt) /\ conf.kind # "capture"
          /\ Goto("publish") /\ live' = live \cup {Attempt} /\ UNCHANGED session
       \/ conf.kind = "capture" /\ Goto("publish") /\ UNCHANGED <<live, session>>
    /\ UNCHANGED <<conf, asked, userCancelled, handle, fired, stops>>

\* Mutant of PendingStop: the stop token is asked instead of the state.
PendingToken == stopToken

PendingStop == stopping

\* The stop-by-token of a child without a private group.
FiresToken(a) == fired' = fired \cup {a}

\* publish_current, and what the pending grace it returns makes of the child.
Publish ==
    /\ pc = "publish"
    /\ current' = Attempt
    /\ Goto(CASE conf.kind = "capture" -> "capture"
              [] conf.kind = "own" /\ PendingStop -> "stopSelf"
              [] OTHER -> "run")
    /\ stops' = IF PendingStop THEN stops \cup {<<Attempt, "task">>} ELSE stops
    /\ IF PendingStop /\ conf.kind # "own" THEN FiresToken(Attempt) ELSE UNCHANGED fired
    /\ UNCHANGED <<conf, asked, userCancelled, stopping, stopToken, handle, live>>

\* output_string of a capture-only runner spawns the child.
CaptureLaunches ==
    /\ pc = "capture"
    /\ \/ TokenFired(Attempt) /\ Leaves("cancelled") /\ UNCHANGED live
       \/ Leaves("error") /\ UNCHANGED live
       \/ ~TokenFired(Attempt)
          /\ Goto("run") /\ live' = live \cup {Attempt} /\ UNCHANGED session
    /\ UNCHANGED <<conf, asked, userCancelled, handle, fired, stops>>

\* graceful_stop awaited inside the incarnation: its failure ends the run.
StopSelf ==
    /\ pc = "stopSelf"
    /\ \/ Goto("run") /\ live' = live \ {Attempt} /\ UNCHANGED session
       \/ MayFail /\ Leaves("error") /\ live' \in {live, KilledOnDrop("error")}
    /\ UNCHANGED <<conf, asked, userCancelled, handle, fired, stops>>

\* The output verb returns: the child ended, or its token was fired and it was
\* killed.
RunReturns ==
    /\ pc = "run"
    /\ \/ /\ Attempt \notin live
          /\ \E e \in {"clean", "crash", "error"} : Leaves(e)
          /\ UNCHANGED live
       \/ /\ TokenFired(Attempt)
          /\ Leaves("cancelled")
          /\ live' = live \ {Attempt}
    /\ UNCHANGED <<conf, asked, userCancelled, handle, fired, stops>>

\* It returns because a teardown, that of the token or of the command's own
\* timeouts, could not be confirmed.
TeardownFails ==
    /\ pc = "run" /\ MayFail
    /\ Leaves("teardown")
    /\ live' \in {live, KilledOnDrop("teardown")}
    /\ UNCHANGED <<conf, asked, userCancelled, handle, fired, stops>>

\* The liveness watch wins the select!: the run's future is dropped where it
\* stands.
WatchWins ==
    /\ conf.health /\ pc \in {"launch", "capture", "stopSelf", "run"}
    /\ \E e \in {"unhealthy", "probeError"} : Leaves(e) /\ live' = KilledOnDrop(e)
    /\ UNCHANGED <<conf, asked, userCancelled, handle, fired, stops>>

WantsRestart ==
    CASE end = "clean" -> conf.policy = "always"
      [] OTHER -> conf.policy # "never"

\* Mutant of EndIsFinal: a failed teardown is restarted like any failure.
EndIsFinalIfCancelled == end \in {"cancelled", "probeError"}

\* An end no policy restarts.
EndIsFinal == end \in {"cancelled", "probeError", "teardown"}

\* Mutant of FinalError: a cancelled run is always the caller's cancellation.
CancelledIsError ==
    CASE end = "cancelled" -> "errCancelled"
      [] end = "probeError" -> "errPredicate"
      [] end = "teardown" -> "errTeardown"

\* A cancelled run is a stop if one was asked for.
FinalError ==
    CASE end = "cancelled" -> IF stopping THEN "stopped" ELSE "errCancelled"
      [] end = "probeError" -> "errPredicate"
      [] end = "teardown" -> "errTeardown"

\* Mutant of StopNoticed: an attempt without a result does not look.
StopNoticedByResults == stopping /\ end # "error"

StopNoticed == stopping

\* The arms of drive's match, up to the restart gate.
Ended ==
    /\ pc = "ended"
    /\ \/ EndIsFinal /\ Finish(FinalError)
       \/ /\ ~EndIsFinal /\ StopNoticed
          /\ Finish(IF end \in {"error", "teardown"} THEN "err" ELSE "stopped")
       \/ /\ end \in {"clean", "crash"} /\ ~StopNoticed      \* stop_when
          /\ \E r \in {"predicate", "errPredicate"} : Finish(r)
       \/ /\ ~EndIsFinal /\ ~StopNoticed /\ ~WantsRestart
          /\ Finish(CASE end = "error" -> "err"
                      [] end = "unhealthy" -> "unhealthy"
                      [] OTHER -> "satisfied")
       \/ ~EndIsFinal /\ ~StopNoticed /\ WantsRestart /\ Goto("gate") /\ UNCHANGED session
    /\ UNCHANGED <<conf, asked, userCancelled, handle, proc>>

-----------------------------------------------------------------------------
(* The restart gate.                                                       *)

Failed == end # "clean"

BudgetSpent == restarts >= conf.max

GaveUp == IF end = "error" THEN "err" ELSE "gaveUp"

Gate ==
    /\ pc = "gate"
    /\ \/ Failed /\ \E r \in {GaveUp, "errPredicate"} : Finish(r)
       \/ BudgetSpent /\ Finish(IF end = "error" THEN "err" ELSE "exhausted")
       \/ ~BudgetSpent /\ Goto("sleep") /\ UNCHANGED session
       \/ ~BudgetSpent /\ Failed /\ conf.storm /\ Goto("storm") /\ UNCHANGED session
    /\ UNCHANGED <<conf, asked, userCancelled, handle, proc>>

\* The biased sleep: the caller's token, then a stop, end supervision.
Interrupted ==
    \/ userCancelled /\ Finish("errCancelled")
    \/ ~userCancelled /\ stopToken /\ Finish("stopped")

StormEnds ==
    /\ pc = "storm"
    /\ \/ Interrupted
       \/ ~userCancelled /\ ~stopToken /\ Goto("sleep") /\ UNCHANGED session
    /\ UNCHANGED <<conf, asked, userCancelled, handle, proc>>

SleepEnds ==
    /\ pc = "sleep"
    /\ \/ Interrupted
       \/ /\ ~userCancelled /\ ~stopToken
          /\ restarts' = restarts + 1
          /\ pc' = "top"
          /\ UNCHANGED <<begun, hasLast, end, result, session>>
    /\ UNCHANGED <<conf, asked, userCancelled, handle, proc>>

\* The abort of a dropped session lands at the task's next await.
Abort ==
    /\ aborted /\ pc \in Awaits
    /\ pc' = "aborted"
    /\ current' = 0
    /\ live' = IF pc \in {"stopSelf", "run"} THEN KilledOnDrop("abort") ELSE live
    /\ UNCHANGED <<conf, asked, userCancelled, begun, restarts, hasLast, end, result,
                   stopping, stopToken, handle, fired, stops>>

-----------------------------------------------------------------------------
(* The session handle.                                                     *)

\* request_stop.
RequestStop ==
    /\ stopPc = "idle" /\ ~aborted
    /\ stopPc' = "token"
    /\ stopping' = TRUE
    /\ stopper' = current
    /\ asked' = [at |-> pc, begun |-> begun]
    /\ UNCHANGED <<conf, userCancelled, loop, current, stopToken, aborted, proc>>

\* stop.cancel(), then the stopper if there is one.
FireStop ==
    /\ stopPc = "token"
    /\ stopToken' = TRUE
    /\ stopPc' = IF stopper = 0 THEN "await" ELSE "graceful"
    /\ stops' = IF stopper = 0 THEN stops ELSE stops \cup {<<stopper, "session">>}
    /\ UNCHANGED <<conf, asked, userCancelled, loop, stopping, current, stopper, aborted, live, fired>>

\* The stopper is released: the last hold on a private group kills on drop.
KilledOnRelease ==
    IF conf.kind = "own" /\ current # stopper /\ ~(OwnsChild /\ Attempt = stopper)
      THEN live \ {stopper} ELSE live

\* graceful_stop through the private group, or through the token.
StopsChild ==
    /\ stopPc = "graceful"
    /\ \/ /\ conf.kind = "own"
          /\ live' = live \ {stopper}
          /\ stopPc' = "await" /\ UNCHANGED <<aborted, fired>>
       \/ /\ conf.kind # "own"
          /\ FiresToken(stopper)
          /\ stopPc' = "await" /\ UNCHANGED <<aborted, live>>
       \/ /\ MayFail /\ conf.kind = "own"
          /\ live' \in {live, KilledOnRelease}
          /\ stopPc' = "failed" /\ aborted' = TRUE /\ UNCHANGED fired
    /\ stopper' = 0
    /\ UNCHANGED <<conf, asked, userCancelled, loop, session, stops>>

StopReturns ==
    /\ stopPc = "await" /\ result # "none"
    /\ stopPc' = "returned"
    /\ UNCHANGED <<conf, asked, userCancelled, loop, session, stopper, aborted, proc>>

\* The session, or a pending stop() and the session in it, is dropped.
DropSession ==
    /\ stopPc \in {"idle", "graceful", "await"} /\ ~aborted
    /\ aborted' = TRUE
    /\ stopPc' = IF stopPc = "idle" THEN "idle" ELSE "dropped"
    /\ stopper' = 0
    /\ live' = IF stopper = 0 THEN live ELSE KilledOnRelease
    /\ UNCHANGED <<conf, asked, userCancelled, loop, session, fired, stops>>

-----------------------------------------------------------------------------
(* The specification.                                                      *)

\* What the runtime goes on with; the health probe may never trip.
Task ==
    \/ Begin \/ Top \/ Launch \/ Publish \/ CaptureLaunches \/ StopSelf \/ RunReturns
    \/ Ended \/ Gate \/ StormEnds \/ SleepEnds \/ Abort

Session == FireStop \/ StopsChild \/ StopReturns

\* Supervision is over and nobody waits for it any more.
Rests ==
    /\ pc \in {"over", "aborted"} /\ stopPc \in {"idle", "returned", "failed", "dropped"}
    /\ UNCHANGED vars

Next ==
    \/ Task \/ TeardownFails \/ WatchWins \/ Session
    \/ RequestStop \/ DropSession
    \/ UserCancels \/ ChildExits
    \/ Rests

Spec == Init /\ [][Next]_vars

\* The task and a stop() that is awaited are polled; a fired token and a grace
\* end the child within their own bounds.  The caller, the child, its timeouts and
\* the health probe owe nothing.
FairSpec == Spec /\ WF_vars(Task) /\ WF_vars(Session)

-----------------------------------------------------------------------------
(* Safety.                                                                 *)

\* Every variable keeps to its values.
ValuesOK ==
    /\ conf \in ConfigSpace
    /\ userCancelled \in BOOLEAN /\ hasLast \in BOOLEAN /\ aborted \in BOOLEAN
    /\ stopping \in BOOLEAN /\ stopToken \in BOOLEAN
    /\ pc \in LoopPc /\ stopPc \in StopPc
    /\ restarts \in Nat
    /\ end \in Ends /\ result \in Reasons \cup Errors \cup {"none"}
    /\ asked \in [at : LoopPc \cup {"none"}, begun : SUBSET Nat]

\* What is published, stopped or alive is an attempt that has begun.
AttemptsOK ==
    /\ begun \subseteq 1..Attempt
    /\ current \in begun \cup {0} /\ stopper \in begun \cup {0}
    /\ live \subseteq begun /\ fired \subseteq begun
    /\ stops \subseteq begun \X Stoppers

\* The types of the session's state, the loop's and the handle's (supervisor.rs).
TypeOK == ValuesOK /\ AttemptsOK

\* "The one-at-a-time guarantee": incarnations with a private group never
\* overlap, although a stop() may hold the stopper of the one that is being
\* dropped, a watch may drop a run anywhere, and a teardown may fail.
OneAtATime == conf.kind = "own" => \A a, b \in live : a = b

\* What status() shows, and stop() reaches, is the incarnation being run: the
\* stale pid of a killed one is not "observable across the whole restart
\* backoff" (CurrentGuard).
PublishedIsRunning == current # 0 => OwnsChild /\ current = Attempt

\* publish_current and request_stop: "the child is stopped exactly once", by the
\* task that published it or by the stop() that found it published.
StoppedOnce ==
    \A a \in begun : ~(<<a, "task">> \in stops /\ <<a, "session">> \in stops)

\* A stop ends in a normal outcome, "never a crash or a cancellation error": the
\* token it fires to reach a child without a private group is not taken for the
\* caller's.
StopIsNotCancellation == result = "errCancelled" => userCancelled

\* A stop that lands in a launch is noticed by that launch; none follows it.
OneMoreLaunchAtMost ==
    stopping => \A a, b \in begun \ asked.begun : a = b

\* The refusal of one-shot stdin agrees with the loop: a source that feeds a
\* single run is never needed by a second.
OneShotFedOnce == conf.oneShot => begun \subseteq {1}

\* No more runs than the budget allows, however the attempts end.
WithinBudget == begun \subseteq 1..(conf.max + 1)

\* A session that is over, and a stop() that is over, leave no child behind,
\* unless they say so: a teardown that failed is the only excuse.
DroppedLeavesNoChild ==
    conf.kind = "own" /\ pc \in {"over", "aborted"} /\ stopper = 0
      => live = {} \/ result \in {"err", "errTeardown"} \/ stopPc = "failed"

\* "A stop taken during a backoff / storm pause ... ends supervision at once,
\* launching no further incarnation".
StopInPauseIsFinal == asked.at \in {"storm", "sleep"} => begun = asked.begun

-----------------------------------------------------------------------------
(* Liveness.                                                               *)

\* A stop() that is awaited returns: whether it lands before a launch, in it, on
\* a live child or in a pause, the child is reached and the loop ends. So does
\* the loop when the caller's token fires, whatever the policy; and neither
\* leaves a child behind without saying so.
StopsAreAnswered ==
    /\ []DroppedLeavesNoChild
    /\ stopPc = "token" ~> stopPc \in {"returned", "failed", "dropped"}
    /\ userCancelled ~> pc \in {"over", "aborted"}

-----------------------------------------------------------------------------
(* Why they hold: an inductive invariant.                                  *)

\* Before an attempt is published, and between the end of one and the next.
Unpublished == {"begin", "top", "launch", "publish"}
Between     == {"begin", "top", "gate", "storm", "sleep"}

\* What only a stop brings about.
StopInv ==
    /\ stopPc = "idle" <=> ~stopping
    /\ stopper # 0 => stopping
    /\ fired # {} => stopping
    /\ stops # {} => stopping
    /\ pc = "stopSelf" => stopping
    /\ end = "cancelled" => userCancelled \/ stopping
    /\ StopIsNotCancellation

\* Where an attempt begins, is published and ends; a grace is some attempt's.
AttemptInv ==
    /\ pc \in {"begin", "top"} => Attempt \notin begun
    /\ pc \in {"launch", "publish", "capture", "stopSelf", "run"} => Attempt \in begun
    /\ current # 0 => current = Attempt /\ pc \in {"capture", "stopSelf", "run"}
    /\ pc = "capture" => conf.kind = "capture"
    /\ stopPc = "graceful" => stopper # 0

\* A child with a private group is alive only in its own attempt; past its end,
\* only if nothing will be launched any more.
LiveInv ==
    conf.kind = "own" =>
        /\ live \subseteq {Attempt}
        /\ pc \in Between \cup {"launch"} => live = {}
        /\ pc = "ended" /\ live # {} => EndIsFinal \/ stopping

\* The attempt stop() found published is not stopped by the task, and one not
\* yet published is not stopped by stop().
StopsInv ==
    /\ stopper # 0 => <<stopper, "task">> \notin stops
    /\ \A a \in begun :
         /\ a = stopper \/ <<a, "session">> \in stops
         /\ pc \in Unpublished
         => a # Attempt
    /\ StoppedOnce

\* After a stop at most the attempt in hand is new, and none is left to come.
LaunchInv ==
    stopping => /\ begun \ asked.begun \subseteq {Attempt}
                /\ pc \in Between => begun \subseteq asked.begun

\* How far the counter can get, and that it never moves without a restart.
BudgetInv ==
    /\ restarts <= conf.max
    /\ pc \in {"storm", "sleep"} => restarts < conf.max /\ conf.policy # "never"
    /\ pc = "gate" => conf.policy # "never"
    /\ ~MayRestart => restarts = 0
    /\ conf.oneShot /\ MayRestart => pc \in {"begin", "over"} /\ begun = {}

IInv ==
    /\ TypeOK /\ StopInv /\ AttemptInv /\ LiveInv
    /\ StopsInv /\ LaunchInv /\ BudgetInv

=============================================================================
