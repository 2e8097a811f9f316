------------------------------- MODULE Runner -------------------------------
(* One-shot runs and their retries (runner.rs: retrying, launch; stdin.rs: the *)
(* reservation of a one-shot source; retry.rs: the attempts a policy allows).  *)
(*                                                                             *)
(* An operation is a capture verb, which makes one attempt, or a checking verb *)
(* (run, exit_code, probe, checked), which retries. An attempt reserves the    *)
(* payload of its stdin source, spawns a child, and drives it to its end.      *)
(* Operations run on threads of their own and may share a one-shot source, as  *)
(* clones of one Command do. How a child is driven and torn down is the        *)
(* subject of RunLifecycle; here it ends in one of the ways that subject       *)
(* allows. A payload that may be re-read, and the length of a pause, are left  *)
(* out: such a source constrains nothing.                                      *)
EXTENDS Naturals, FiniteSets

CONSTANTS Ops,       \* the operations
          Cells,     \* the one-shot sources
          NoCell,    \* the stdin of an operation without a one-shot source
          MaxTries,  \* the most attempts a policy of an instance allows
          Plans      \* the configurations considered

\* What a retry classifier sees of a failure: none of this attempt's children
\* exists (NotFound, Spawn, Unsupported), an I/O error, which may fall on either
\* side of the spawn, a child that ran and failed, a run whose teardown was
\* confirmed (Timeout, Cancelled), and one whose teardown was not.
Failures == {"launch", "io", "failed", "timeout", "cancelled", "teardown"}

\* stdin   the one-shot source, if any
\* tries   the attempts the policy allows: 1 without a retry policy
\* accepts the failures the classifier accepts
\* token   is the operation under the shared cancellation token
\* limit   has it a timeout
\* own     is each attempt in a group of its own (JobRunner)
\* piped   is its stdout piped, as a capturing verb requires
\* checks  is a failed child a failure of the verb
PlanSpace == [stdin : Cells \cup {NoCell}, tries : 1..MaxTries, accepts : SUBSET Failures,
              token : BOOLEAN, limit : BOOLEAN, own : BOOLEAN, piped : BOOLEAN,
              checks : BOOLEAN]

ASSUME RunnerAssumption == /\ NoCell \notin Cells
                           /\ MaxTries \in Nat \ {0}
                           /\ Plans \subseteq [Ops -> PlanSpace]

VARIABLES
  plan,   \* the configuration of each operation
  at,     \* per operation: where its future stands
  try,    \* per operation: the attempts begun (retrying's `tries`)
  cell,   \* the one-shot sources whose cell still holds the payload
  child,  \* per operation and attempt: its child
  token,  \* the cancellation token has fired
  answer  \* per operation: what its verb returned

runnerVars == <<plan, at, try, cell, child, token, answer>>

Tries    == 1..MaxTries
Children == {"none", "alive", "doomed", "loose", "gone"}
Answers  == {"none", "ok", "dropped"} \cup Failures

RunnerTypeOK ==
  /\ plan \in [Ops -> PlanSpace]
  /\ at \in [Ops -> {"idle", "launch", "spawn", "run", "pause", "over"}]
  /\ try \in [Ops -> 0..MaxTries]
  /\ cell \in SUBSET Cells
  /\ child \in [Ops -> [Tries -> Children]]
  /\ token \in BOOLEAN
  /\ answer \in [Ops -> Answers]
  \* An operation stands where its attempts say, and answers once it is over.
  /\ \A o \in Ops : /\ at[o] = "idle" => try[o] = 0
                    /\ try[o] = 0 => at[o] = "idle" \/ answer[o] = "dropped"
                    /\ (answer[o] # "none") <=> (at[o] = "over")
                    /\ try[o] <= plan[o].tries
                    /\ \A k \in Tries : k > try[o] => child[o][k] = "none"

RunnerInit ==
  /\ plan \in Plans
  /\ at = [o \in Ops |-> "idle"]
  /\ try = [o \in Ops |-> 0]
  /\ cell = Cells
  /\ child = [o \in Ops |-> [k \in Tries |-> "none"]]
  /\ token = FALSE
  /\ answer = [o \in Ops |-> "none"]

-----------------------------------------------------------------------------
OneShot(o) == plan[o].stdin \in Cells
Fired(o)   == token /\ plan[o].token
Now(o)     == child[o][try[o]]
Driven(o)  == at[o] = "run" /\ plan[o].piped

-----------------------------------------------------------------------------
(* The end of an attempt: what its child is left as, and what retrying makes   *)
(* of the failure.                                                            *)

\* Dropping the handle kills the tree of a group of its own; a shared group
\* keeps its children.
Left(o) == IF Now(o) # "alive" THEN Now(o)
           ELSE IF plan[o].own THEN "doomed" ELSE "loose"

Leave(o, what) == child' = [child EXCEPT ![o][try[o]] = what]

\* Mutant of Retries: an attempt whose teardown failed is tried again.
RetriesTeardown(o, why) ==
  /\ why # "cancelled"
  /\ OneShot(o) => why = "launch"
  /\ try[o] < plan[o].tries
  /\ why \in plan[o].accepts

Retries(o, why) ==
  /\ why \notin {"cancelled", "teardown"}
  /\ OneShot(o) => why = "launch"
  /\ try[o] < plan[o].tries
  /\ why \in plan[o].accepts

Answer(o, what) == /\ at' = [at EXCEPT ![o] = "over"]
                   /\ answer' = [answer EXCEPT ![o] = what]

Fail(o, why) ==
  /\ \/ /\ Retries(o, why)
        /\ at' = [at EXCEPT ![o] = "pause"]
        /\ UNCHANGED answer
     \/ /\ ~Retries(o, why)
        /\ Answer(o, why)
  /\ UNCHANGED <<plan, try, token>>

-----------------------------------------------------------------------------
(* The launch of an attempt.                                                  *)

Begin(o) ==
  /\ at[o] \in {"idle", "pause"}
  /\ at[o] = "pause" => ~Fired(o)
  /\ at' = [at EXCEPT ![o] = "launch"]
  /\ try' = [try EXCEPT ![o] = @ + 1]
  /\ UNCHANGED <<plan, cell, child, token, answer>>

\* The select of the pause is biased towards the token.
PauseCancelled(o) ==
  /\ at[o] = "pause" /\ Fired(o)
  /\ Answer(o, "cancelled")
  /\ UNCHANGED <<plan, try, cell, child, token>>

\* The group could not be created, the token had fired, a knob the platform
\* lacks, or a working directory that is none.
Refused(o) ==
  /\ at[o] = "launch"
  /\ \/ plan[o].own /\ Fail(o, "io")
     \/ Fired(o) /\ Fail(o, "cancelled")
     \/ ~Fired(o) /\ Fail(o, "launch")
  /\ UNCHANGED <<cell, child>>

\* Stdin::take_for_run on a source another run has taken.
Consumed(o) ==
  /\ at[o] = "launch" /\ ~Fired(o)
  /\ OneShot(o) /\ plan[o].stdin \notin cell
  /\ Fail(o, "io")
  /\ UNCHANGED <<cell, child>>

\* Mutant of Reserve: the payload is only looked at, and taken by the commit.
ReserveByLook(o) ==
  /\ at[o] = "launch" /\ ~Fired(o)
  /\ OneShot(o) => plan[o].stdin \in cell
  /\ at' = [at EXCEPT ![o] = "spawn"]
  /\ UNCHANGED <<plan, try, cell, child, token, answer>>

Reserve(o) ==
  /\ at[o] = "launch" /\ ~Fired(o)
  /\ OneShot(o) => plan[o].stdin \in cell
  /\ cell' = cell \ {plan[o].stdin}
  /\ at' = [at EXCEPT ![o] = "spawn"]
  /\ UNCHANGED <<plan, try, child, token, answer>>

\* The drop of the reservation puts the payload back.
SpawnFails(o) ==
  /\ at[o] = "spawn"
  /\ \E why \in {"launch", "io"} : Fail(o, why)
  /\ cell' = cell \cup ({plan[o].stdin} \cap Cells)
  /\ UNCHANGED child

Spawn(o) ==
  /\ at[o] = "spawn"
  /\ at' = [at EXCEPT ![o] = "run"]
  /\ Leave(o, "alive")
  /\ UNCHANGED <<plan, try, cell, token, answer>>

-----------------------------------------------------------------------------
(* The end of an attempt that has a child.                                    *)

\* ensure_stdout_capturable: the child runs, but nothing of it can be captured.
NotCapturable(o) ==
  /\ at[o] = "run" /\ ~plan[o].piped
  /\ Fail(o, "io")
  /\ Leave(o, Left(o))
  /\ UNCHANGED cell

\* The child ended by itself. A token that fired before the reap wins; a read
\* of its output may have failed; an exit that is not accepted is a failure of
\* a checking verb.
Ends(o) ==
  /\ Driven(o) /\ Now(o) = "gone"
  /\ \/ /\ ~Fired(o)
        /\ Answer(o, "ok")
        /\ UNCHANGED <<plan, try, token>>
     \/ Fired(o) /\ Fail(o, "cancelled")
     \/ ~Fired(o) /\ Fail(o, "io")
     \/ ~Fired(o) /\ plan[o].checks /\ Fail(o, "failed")
  /\ UNCHANGED <<cell, child>>

\* The deadline or the token found the child alive, the kill took, and the child
\* was reaped. To a verb that does not check, a timeout is a result like others.
Killed(o) ==
  /\ Driven(o) /\ Now(o) = "alive"
  /\ \/ Fired(o) /\ Fail(o, "cancelled")
     \/ plan[o].limit /\ plan[o].checks /\ Fail(o, "timeout")
     \/ /\ plan[o].limit /\ ~plan[o].checks
        /\ Answer(o, "ok")
        /\ UNCHANGED <<plan, try, token>>
  /\ Leave(o, "gone")
  /\ UNCHANGED cell

\* The kill was refused, or its confirmation did not come: the child, or what it
\* started, may live on.
KillUnconfirmed(o) ==
  /\ Driven(o) /\ Now(o) = "alive"
  /\ Fired(o) \/ plan[o].limit
  /\ Fail(o, "teardown")
  /\ Leave(o, "loose")
  /\ UNCHANGED cell

-----------------------------------------------------------------------------
(* A caller may drop futures between two polls, which leaves them where they   *)
(* await: before their first poll, while driving a child, or in a pause.       *)

Drop(S) ==
  /\ \A o \in S : at[o] \in {"idle", "run", "pause"}
  /\ at' = [o \in Ops |-> IF o \in S THEN "over" ELSE at[o]]
  /\ answer' = [o \in Ops |-> IF o \in S THEN "dropped" ELSE answer[o]]
  /\ child' = [o \in Ops |-> IF o \in S /\ try[o] > 0
                             THEN [child[o] EXCEPT ![try[o]] = Left(o)] ELSE child[o]]
  /\ UNCHANGED <<plan, try, cell, token>>

-----------------------------------------------------------------------------
(* What an operation's own future may do when it is polled, and what happens   *)
(* around it.                                                                 *)

OpStep(o) == \/ Begin(o) \/ PauseCancelled(o)
             \/ Refused(o) \/ Consumed(o) \/ Reserve(o) \/ SpawnFails(o) \/ Spawn(o)
             \/ NotCapturable(o) \/ Ends(o) \/ Killed(o) \/ KillUnconfirmed(o)

ChildEnds(o, k) ==
  /\ child[o][k] \in {"alive", "doomed", "loose"}
  /\ child' = [child EXCEPT ![o][k] = "gone"]
  /\ UNCHANGED <<plan, at, try, cell, token, answer>>

Cancel ==
  /\ ~token
  /\ token' = TRUE
  /\ UNCHANGED <<plan, at, try, cell, child, answer>>

RunnerNext ==
  \/ \E o \in Ops : OpStep(o) \/ (\E k \in Tries : ChildEnds(o, k))
  \/ \E S \in SUBSET Ops : Drop(S)
  \/ Cancel

RunnerSpec == RunnerInit /\ [][RunnerNext]_runnerVars

-----------------------------------------------------------------------------
\* The payload of a one-shot source is in its cell, or reserved by the one
\* launch under way, or was given to one child, and is never lost nor given
\* twice: stdin.rs's transaction, across every run and retry that shares it.
Users(c)    == {o \in Ops : plan[o].stdin = c}
Reserved(c) == {o \in Users(c) : at[o] = "spawn"}
Fed(c)      == {f \in Users(c) \X Tries : child[f[1]][f[2]] # "none"}

PayloadGoesOnce ==
  \A c \in Cells :
    \/ c \in cell /\ Reserved(c) = {} /\ Fed(c) = {}
    \/ c \notin cell /\ (\E o \in Users(c) : Reserved(c) = {o}) /\ Fed(c) = {}
    \/ c \notin cell /\ Reserved(c) = {} /\ (\E f \in Users(c) \X Tries : Fed(c) = {f})

\* An operation whose attempts have groups of their own never starts an attempt
\* while a child of an earlier one may still be running: each is reaped, or has
\* been killed with its group.
NoLivingTwin ==
  \A o \in Ops : plan[o].own =>
    \A k \in Tries : k < try[o] => child[o][k] \in {"none", "doomed", "gone"}
=============================================================================
