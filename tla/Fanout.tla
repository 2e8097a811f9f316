------------------------------- MODULE Fanout -------------------------------
(* The bounded fan-out behind output_all and output_stream (batch.rs): the     *)
(* commands of a batch are operations of Runner whose futures move only when   *)
(* the driver polls them, with the waker protocol that makes it poll again,    *)
(* beside the operations other tasks run (verbs), which may share a source, a  *)
(* token and the machine with them.                                            *)
(*                                                                             *)
(* One call of poll_next is a refill and then one step per future polled. The  *)
(* driver is polled again at once after an item (collect_in_order's loop, or a *)
(* stream's consumer, who may also drop the stream there) and, after Pending,  *)
(* when a waker fired.                                                         *)
EXTENDS Runner, Sequences, Functions

\* A scene: the plan of each operation, the concurrency asked for, the number of
\* commands in the batch, and the operations called from elsewhere.
CONSTANTS Scenes

ASSUME SceneAssumption ==
  \A sc \in Scenes : /\ sc.plan \in Plans /\ sc.limit \in Nat /\ sc.size \in Nat
                     /\ 1..sc.size \subseteq Ops /\ sc.verbs \subseteq Ops \ (1..sc.size)

VARIABLES
  asked,    \* the concurrency asked for
  total,    \* the number of commands
  verbs,    \* the operations called by other tasks
  pending,  \* the commands waiting for a slot
  active,   \* the commands whose futures are held
  driver,   \* where the driver stands
  cursor,   \* poll_next's index into active, from 1
  armed,    \* the operations whose future holds the driver's waker
  woken,    \* a waker of the driver has fired since it was last scheduled
  slots     \* per command: the result collected, or yielded

sceneVars  == <<asked, total, verbs>>
fanoutVars == <<sceneVars, pending, active, driver, cursor, armed, woken, slots>>
vars       == <<runnerVars, fanoutVars>>

Indices == 1..total

TypeOK ==
  /\ RunnerTypeOK
  /\ asked \in Nat /\ total \in Nat
  /\ Indices \subseteq Ops /\ verbs \subseteq Ops \ Indices
  /\ pending \in Seq(Indices) /\ active \in Seq(Indices)
  /\ driver \in {"refill", "poll", "parked", "done", "dropped"}
  /\ cursor \in Nat \ {0}
  /\ armed \subseteq Indices
  /\ woken \in BOOLEAN
  /\ slots \in [Indices -> Answers]

Init ==
  /\ \E sc \in Scenes : /\ plan = sc.plan /\ asked = sc.limit
                        /\ total = sc.size /\ verbs = sc.verbs
  /\ RunnerInit
  /\ pending = [i \in Indices |-> i]
  /\ active = <<>>
  /\ driver = "refill" /\ cursor = 1
  /\ armed = {} /\ woken = FALSE
  /\ slots = [i \in Indices |-> "none"]

\* Mutant of Limit: a concurrency of zero is taken at its word.
LimitUnclamped == asked

Limit == IF asked > 1 THEN asked ELSE 1

Smaller(m, n) == IF m < n THEN m ELSE n

-----------------------------------------------------------------------------
(* poll_next.                                                                 *)

Room == Smaller(Limit - Len(active), Len(pending))

\* The slots that are free are filled from the front of the queue; then the
\* futures held are polled from the first.
Refill ==
  /\ driver = "refill" \/ (driver = "parked" /\ woken)
  /\ active' = active \o SubSeq(pending, 1, Room)
  /\ pending' = SubSeq(pending, Room + 1, Len(pending))
  /\ driver' = "poll" /\ cursor' = 1
  /\ woken' = FALSE
  /\ UNCHANGED <<runnerVars, sceneVars, armed, slots>>

Polled == active[cursor]

\* A future moves on for as long as it can.
PollMoves ==
  /\ driver = "poll" /\ cursor <= Len(active)
  /\ OpStep(Polled)
  /\ UNCHANGED fanoutVars

Waits(o) == Driven(o) /\ Now(o) = "alive" /\ ~Fired(o)

\* Mutant of PollPending: the first future that is not ready ends the round.
PollPendingEndsRound ==
  /\ driver = "poll" /\ cursor <= Len(active)
  /\ Waits(Polled)
  /\ armed' = armed \cup {Polled}
  /\ cursor' = Len(active) + 1
  /\ UNCHANGED <<runnerVars, sceneVars, pending, active, driver, woken, slots>>

PollPending ==
  /\ driver = "poll" /\ cursor <= Len(active)
  /\ Waits(Polled)
  /\ armed' = armed \cup {Polled}
  /\ cursor' = cursor + 1
  /\ UNCHANGED <<runnerVars, sceneVars, pending, active, driver, woken, slots>>

\* Mutant of SwapRemove: the hole is closed with the wrong end.
SwapRemoveFirst(s, i) ==
  [k \in 1..(Len(s) - 1) |-> IF k = i THEN s[1] ELSE s[k]]

\* Vec::swap_remove.
SwapRemove(s, i) ==
  [k \in 1..(Len(s) - 1) |-> IF k = i THEN s[Len(s)] ELSE s[k]]

\* The first future found ready is yielded, and the round ends there.
PollReady ==
  /\ driver = "poll" /\ cursor <= Len(active)
  /\ at[Polled] = "over"
  /\ slots' = [slots EXCEPT ![Polled] = answer[Polled]]
  /\ active' = SwapRemove(active, cursor)
  /\ armed' = armed \ {Polled}
  /\ driver' = "refill" /\ cursor' = 1
  /\ UNCHANGED <<runnerVars, sceneVars, pending, woken>>

RoundEnds ==
  /\ driver = "poll" /\ cursor > Len(active)
  /\ driver' = IF active = <<>> /\ pending = <<>> THEN "done" ELSE "parked"
  /\ UNCHANGED <<runnerVars, sceneVars, pending, active, cursor, armed, woken, slots>>

-----------------------------------------------------------------------------
(* Around the driver.                                                         *)

Wake(S) == /\ woken' = (woken \/ S \cap armed # {})
           /\ armed' = armed \ S

Untouched == UNCHANGED <<sceneVars, pending, active, driver, cursor, slots>>

\* The batch is dropped between two polls: the futures held go, the commands
\* queued are never launched.
DropBatch ==
  /\ driver \in {"refill", "parked"}
  /\ Drop(Range(active))
  /\ active' = <<>> /\ pending' = <<>>
  /\ driver' = "dropped"
  /\ armed' = {}
  /\ UNCHANGED <<sceneVars, cursor, woken, slots>>

VerbMoves(o) == o \in verbs /\ OpStep(o) /\ UNCHANGED fanoutVars

DropVerb(o) == o \in verbs /\ Drop({o}) /\ UNCHANGED fanoutVars

ChildGone(o, k) == ChildEnds(o, k) /\ Wake({o}) /\ Untouched

TokenFires == Cancel /\ Wake({o \in Ops : plan[o].token}) /\ Untouched

\* The timer of a time limit is up: the poll it leads to decides.
TimerFires(o) ==
  /\ o \in armed /\ plan[o].limit
  /\ Wake({o}) /\ Untouched
  /\ UNCHANGED runnerVars

Driver == Refill \/ PollMoves \/ PollPending \/ PollReady \/ RoundEnds

Next ==
  \/ Driver \/ DropBatch
  \/ \E o \in Ops : \/ VerbMoves(o) \/ DropVerb(o) \/ TimerFires(o)
                    \/ \E k \in Tries : ChildGone(o, k)
  \/ TokenFires

Spec == Init /\ [][Next]_vars

\* The executor polls a task that was woken; a child ends sooner or later.
Fairness ==
  /\ WF_vars(Driver)
  /\ \A o \in Ops : /\ WF_vars(VerbMoves(o))
                    /\ \A k \in Tries : WF_vars(ChildGone(o, k))

FairSpec == Spec /\ Fairness

-----------------------------------------------------------------------------
\* A driver that has returned Pending and was not woken since holds a future, and
\* every future it holds has been polled, waits, and holds its waker: what the
\* comments of poll_next argue for.
NoLostWakeup ==
  driver = "parked" /\ ~woken =>
    /\ active # <<>>
    /\ \A o \in Range(active) : o \in armed /\ Waits(o)

Stands(i) == IF slots[i] # "none" THEN "answered"
             ELSE IF driver = "dropped" THEN "discarded"
             ELSE IF i \in Range(pending) THEN "waiting" ELSE "running"

Ended == CASE driver = "done" -> "complete" [] driver = "dropped" -> "dropped" [] OTHER -> "open"

B == INSTANCE Batch WITH
       limit <- asked, stands <- [i \in Indices |-> Stands(i)], batch <- Ended

\* The engine implements what a batch promises: commands are taken in order, never
\* more than the limit at a time, each is answered once, whatever order they end
\* in, and a batch that ends has every answer (collect_in_order's expect).
ImplementsBatch == B!BatchSpec

\* A batch ends, and every verb that was called returns, however they interfere.
EveryCallReturns ==
  /\ <>(driver \in {"done", "dropped"})
  /\ \A o \in Ops : (o \in verbs /\ at[o] # "idle") ~> (at[o] = "over")
=============================================================================
