---------------------------- MODULE Seam_proofs ------------------------------
(***************************************************************************)
(* The runner seam: what may stand between a command and its process.       *)
(* Of any operations with any plans (Runner): the types, the transaction of *)
(* a one-shot source, and that no attempt of an operation with groups of    *)
(* its own runs beside an earlier one. Of any batch, any concurrency and    *)
(* any neighbours (Fanout): the fan-out runs operations as Runner does,     *)
(* keeps its futures and wakers in order, and implements what a batch       *)
(* promises. Of any recorders, callers and commands (Cassette): a recorder  *)
(* that says all is saved has saved it, what is replayed is what was        *)
(* recorded, and saving implements the atomic, durable file of Store.       *)
(***************************************************************************)
EXTENDS Fanout, Cassette, SequenceTheorems, FiniteSetTheorems, WellFoundedInduction, TLAPS

(* Runner. *)

USE RunnerAssumption

\* A child an attempt may leave behind when another one follows.
Settled == {"none", "doomed", "gone"}

\* Where an operation stands says what became of its attempts: a launch has no
\* child yet, a run has one, and only an attempt that may be repeated leads to a
\* pause.
AttemptInv ==
  \A o \in Ops :
    /\ at[o] = "pause" => try[o] < plan[o].tries
    /\ at[o] \in {"launch", "spawn"} => Now(o) = "none"
    /\ at[o] = "run" => Now(o) \in {"alive", "gone"}
    /\ plan[o].own => /\ \A k \in Tries : k < try[o] => child[o][k] \in Settled
                      /\ at[o] = "pause" => Now(o) \in Settled

\* The invariant that is inductive.
RunnerInv == RunnerTypeOK /\ AttemptInv /\ PayloadGoesOnce

\* An operation that stands in an attempt has begun it.
LEMMA TryInRange ==
    ASSUME RunnerTypeOK, NEW o \in Ops, at[o] \in {"launch", "spawn", "run", "pause"}
    PROVE  try[o] \in Tries /\ answer[o] = "none"
  BY DEF RunnerTypeOK, PlanSpace, Tries

\* The failure of an attempt ends the operation, or leads to a pause.
LEMMA FailMoves ==
    ASSUME RunnerTypeOK, NEW o \in Ops, NEW why \in Failures,
           at[o] \in {"launch", "spawn", "run"}, Fail(o, why)
    PROVE  /\ UNCHANGED <<plan, try, token>>
           /\ \/ /\ at' = [at EXCEPT ![o] = "pause"] /\ answer' = answer
                 /\ try[o] < plan[o].tries /\ why # "teardown"
              \/ at' = [at EXCEPT ![o] = "over"] /\ answer' = [answer EXCEPT ![o] = why]
  BY DEF Fail, Retries, Answer

\* The sources stand as before when no operation takes or returns a payload and
\* no child appears.
LEMMA PayloadKept ==
    ASSUME RunnerTypeOK, PayloadGoesOnce, UNCHANGED <<plan, cell>>,
           \A p \in Ops : at'[p] = "spawn" <=> at[p] = "spawn",
           \A p \in Ops, k \in Tries : child'[p][k] = "none" <=> child[p][k] = "none"
    PROVE  PayloadGoesOnce'
<1>1. \A c \in Cells : Users(c)' = Users(c)
  BY DEF Users
<1>2. \A c \in Cells : Reserved(c)' = Reserved(c)
  BY <1>1 DEF Reserved, Users
<1>3. \A c \in Cells : Fed(c)' = Fed(c)
  BY <1>1 DEF Fed, Users
<1> QED
  BY <1>1, <1>2, <1>3 DEF PayloadGoesOnce

\* What every step of an operation's own future, or of its caller, preserves of
\* the types and the attempts; the actions that end an attempt share a shape.
LEMMA AttemptEnds ==
    ASSUME RunnerTypeOK, AttemptInv, NEW o \in Ops, NEW why \in Failures, NEW left \in Children,
           at[o] \in {"launch", "spawn", "run"}, Fail(o, why),
           child' = [child EXCEPT ![o][try[o]] = left],
           plan[o].own => left \in Settled \/ why = "teardown",
           cell' \in SUBSET Cells
    PROVE  RunnerTypeOK' /\ AttemptInv'
<1>1. try[o] \in Tries /\ answer[o] = "none"
  BY TryInRange
<1>2. UNCHANGED <<plan, try, token>>
  BY FailMoves
<1>3. child' \in [Ops -> [Tries -> Children]]
  BY <1>1 DEF RunnerTypeOK
<1>4. \A p \in Ops, k \in Tries : child'[p][k] = IF p = o /\ k = try[o] THEN left ELSE child[p][k]
  BY <1>1 DEF RunnerTypeOK
<1>5. CASE /\ at' = [at EXCEPT ![o] = "pause"] /\ answer' = answer
           /\ try[o] < plan[o].tries /\ why # "teardown"
  <2>1. RunnerTypeOK'
    BY <1>1, <1>2, <1>3, <1>4, <1>5 DEF RunnerTypeOK, Tries
  <2>2. AttemptInv'
    BY <1>1, <1>2, <1>4, <1>5 DEF RunnerTypeOK, AttemptInv, Now, Tries
  <2> QED
    BY <2>1, <2>2
<1>6. CASE at' = [at EXCEPT ![o] = "over"] /\ answer' = [answer EXCEPT ![o] = why]
  <2>1. RunnerTypeOK'
    BY <1>1, <1>2, <1>3, <1>4, <1>6 DEF RunnerTypeOK, Tries, Answers, Failures
  <2>2. AttemptInv'
    BY <1>1, <1>2, <1>4, <1>6 DEF RunnerTypeOK, AttemptInv, Now, Tries
  <2> QED
    BY <2>1, <2>2
<1> QED
  BY <1>5, <1>6, FailMoves

\* An attempt that ends without a change to its child.
LEMMA AttemptEndsAsIs ==
    ASSUME RunnerTypeOK, AttemptInv, NEW o \in Ops, NEW why \in Failures,
           at[o] \in {"launch", "spawn", "run"}, Fail(o, why), UNCHANGED child,
           plan[o].own => Now(o) \in Settled,
           cell' \in SUBSET Cells
    PROVE  RunnerTypeOK' /\ AttemptInv'
<1>1. try[o] \in Tries
  BY TryInRange
<1>2. Now(o) \in Children /\ child' = [child EXCEPT ![o][try[o]] = Now(o)]
  BY <1>1 DEF RunnerTypeOK, Now
<1> QED
  BY <1>2, AttemptEnds

\* A verb that answers ends its operation; the child may have been reaped by it.
LEMMA AttemptAnswers ==
    ASSUME RunnerTypeOK, AttemptInv, NEW o \in Ops, NEW left \in Children,
           at[o] \in {"run", "pause"}, NEW what \in Answers \ {"none"}, Answer(o, what),
           child' = [child EXCEPT ![o][try[o]] = left],
           plan[o].own => left \in Settled \cup {Now(o)},
           UNCHANGED <<plan, try, cell, token>>
    PROVE  RunnerTypeOK' /\ AttemptInv'
<1>1. try[o] \in Tries /\ answer[o] = "none"
  BY TryInRange
<1>2. child' \in [Ops -> [Tries -> Children]]
  BY <1>1 DEF RunnerTypeOK
<1>3. \A p \in Ops, k \in Tries : child'[p][k] = IF p = o /\ k = try[o] THEN left ELSE child[p][k]
  BY <1>1 DEF RunnerTypeOK
<1>4. at' = [at EXCEPT ![o] = "over"] /\ answer' = [answer EXCEPT ![o] = what]
  BY DEF Answer
<1>5. RunnerTypeOK'
  BY <1>1, <1>2, <1>3, <1>4 DEF RunnerTypeOK, Tries
<1>6. AttemptInv'
  BY <1>1, <1>3, <1>4 DEF RunnerTypeOK, AttemptInv, Now, Tries
<1> QED
  BY <1>5, <1>6

\* The same of a verb that answers and leaves its child as it is.
LEMMA AttemptAnswersAsIs ==
    ASSUME RunnerTypeOK, AttemptInv, NEW o \in Ops,
           at[o] \in {"run", "pause"}, NEW what \in Answers \ {"none"}, Answer(o, what),
           UNCHANGED child, UNCHANGED <<plan, try, cell, token>>
    PROVE  RunnerTypeOK' /\ AttemptInv'
<1>1. try[o] \in Tries
  BY TryInRange
<1>2. Now(o) \in Children /\ child' = [child EXCEPT ![o][try[o]] = Now(o)]
  BY <1>1 DEF RunnerTypeOK, Now
<1> QED
  BY <1>2, AttemptAnswers

\* What dropping the handle leaves of a child.
LEMMA LeftSettles ==
    ASSUME RunnerTypeOK, AttemptInv, NEW o \in Ops, at[o] = "run"
    PROVE  Left(o) \in Children \ {"none"} /\ (plan[o].own => Left(o) \in Settled)
  BY DEF AttemptInv, Left, Children, Settled

\* A step of an operation's future keeps the types and the attempts.
LEMMA OpStepKeeps ==
    ASSUME RunnerTypeOK, AttemptInv, NEW o \in Ops, OpStep(o)
    PROVE  RunnerTypeOK' /\ AttemptInv'
<1>1. CASE Begin(o)
  <2>1. try[o] < plan[o].tries /\ try[o] + 1 \in Tries /\ child[o][try[o] + 1] = "none"
    BY <1>1 DEF Begin, RunnerTypeOK, AttemptInv, PlanSpace, Tries
  <2>2. /\ \A p \in Ops : try'[p] = IF p = o THEN try[o] + 1 ELSE try[p]
        /\ \A p \in Ops : at'[p] = IF p = o THEN "launch" ELSE at[p]
        /\ answer[o] = "none"
    <3>1. at \in [Ops -> {"idle", "launch", "spawn", "run", "pause", "over"}]
          /\ try \in [Ops -> 0..MaxTries] /\ at[o] # "over"
      BY <1>1 DEF Begin, RunnerTypeOK
    <3> QED
      BY <1>1, <3>1 DEF Begin, RunnerTypeOK
  <2>5. /\ at' \in [Ops -> {"idle", "launch", "spawn", "run", "pause", "over"}]
        /\ try' \in [Ops -> 0..MaxTries]
    BY <1>1, <2>1 DEF Begin, RunnerTypeOK, Tries
  <2>6. UNCHANGED <<plan, cell, child, token, answer>>
    BY <1>1 DEF Begin
  <2>4. RunnerTypeOK'
    <3>1. \A p \in Ops : /\ at'[p] = "idle" => try'[p] = 0
                         /\ try'[p] = 0 => at'[p] = "idle" \/ answer'[p] = "dropped"
                         /\ (answer'[p] # "none") <=> (at'[p] = "over")
                         /\ try'[p] <= plan'[p].tries
      BY <2>1, <2>2, <2>6 DEF RunnerTypeOK, Tries, PlanSpace
    <3>2. \A p \in Ops, k \in Tries : k > try'[p] => child'[p][k] = "none"
      BY <2>1, <2>2, <2>6 DEF RunnerTypeOK, Tries
    <3> QED
      BY <2>5, <2>6, <3>1, <3>2 DEF RunnerTypeOK
  <2>3. AttemptInv'
    BY <1>1, <2>1 DEF Begin, RunnerTypeOK, AttemptInv, Now, Tries
  <2> QED
    BY <2>4, <2>3
<1>2. CASE PauseCancelled(o)
  BY <1>2, AttemptAnswersAsIs DEF PauseCancelled, Answers, Failures
<1>3. CASE Refused(o)
  <2>1. PICK why \in Failures : Fail(o, why)
    BY <1>3 DEF Refused, Failures
  <2>2. at[o] = "launch" /\ Now(o) = "none" /\ UNCHANGED <<cell, child>>
    BY <1>3 DEF Refused, AttemptInv
  <2> QED
    BY <2>1, <2>2, AttemptEndsAsIs DEF Settled, RunnerTypeOK
<1>4. CASE Consumed(o)
  <2>1. at[o] = "launch" /\ Now(o) = "none" /\ UNCHANGED <<cell, child>> /\ Fail(o, "io")
    BY <1>4 DEF Consumed, AttemptInv
  <2> QED
    BY <2>1, AttemptEndsAsIs DEF Settled, RunnerTypeOK, Failures
<1>5. CASE Reserve(o)
  <2>1. try[o] \in Tries /\ answer[o] = "none"
    BY <1>5, TryInRange DEF Reserve
  <2>2. RunnerTypeOK'
    BY <1>5, <2>1 DEF Reserve, RunnerTypeOK, Tries
  <2>3. AttemptInv'
    BY <1>5, <2>1 DEF Reserve, RunnerTypeOK, AttemptInv, Now, Tries
  <2> QED
    BY <2>2, <2>3
<1>6. CASE SpawnFails(o)
  <2>1. PICK why \in Failures : Fail(o, why)
    BY <1>6 DEF SpawnFails, Failures
  <2>2. at[o] = "spawn" /\ Now(o) = "none" /\ UNCHANGED child /\ cell' \in SUBSET Cells
    BY <1>6 DEF SpawnFails, AttemptInv, RunnerTypeOK
  <2> QED
    BY <2>1, <2>2, AttemptEndsAsIs DEF Settled
<1>7. CASE Spawn(o)
  <2>1. try[o] \in Tries /\ answer[o] = "none"
    BY <1>7, TryInRange DEF Spawn
  <2>2. \A p \in Ops, k \in Tries : child'[p][k] = IF p = o /\ k = try[o] THEN "alive" ELSE child[p][k]
    BY <1>7, <2>1 DEF Spawn, Leave, RunnerTypeOK
  <2>3. RunnerTypeOK'
    BY <1>7, <2>1, <2>2 DEF Spawn, Leave, RunnerTypeOK, Tries, Children
  <2>5. /\ UNCHANGED <<plan, try>>
        /\ \A p \in Ops : at'[p] = IF p = o THEN "run" ELSE at[p]
    BY <1>7 DEF Spawn, RunnerTypeOK
  <2>6. \A p \in Ops \ {o} : \A k \in Tries : child'[p][k] = child[p][k]
    BY <2>2
  <2>7. \A p \in Ops : at[p] \in {"launch", "spawn", "run", "pause"} => try[p] \in Tries
    BY TryInRange
  <2>8. child'[o][try[o]] = "alive" /\ \A k \in Tries : k < try[o] => child'[o][k] = child[o][k]
    BY <2>1, <2>2 DEF Tries
  <2>4. AttemptInv'
    BY <2>5, <2>6, <2>7, <2>8 DEF AttemptInv, Now
  <2> QED
    BY <2>3, <2>4
<1>8. CASE NotCapturable(o)
  <2>1. Left(o) \in Children \ {"none"} /\ (plan[o].own => Left(o) \in Settled)
    BY <1>8, LeftSettles DEF NotCapturable
  <2> QED
    BY <1>8, <2>1, AttemptEnds DEF NotCapturable, Leave, Failures, RunnerTypeOK
<1>9. CASE Ends(o)
  <2>1. at[o] = "run" /\ Now(o) = "gone" /\ UNCHANGED <<cell, child>>
    BY <1>9 DEF Ends, Driven
  <2>2. CASE Answer(o, "ok") /\ UNCHANGED <<plan, try, token>>
    BY <2>1, <2>2, AttemptAnswersAsIs DEF Answers
  <2>3. CASE \E why \in Failures : Fail(o, why)
    BY <2>1, <2>3, AttemptEndsAsIs DEF Settled, RunnerTypeOK
  <2> QED
    BY <1>9, <2>2, <2>3 DEF Ends, Failures
<1>10. CASE Killed(o)
  <2>1. at[o] = "run" /\ UNCHANGED cell /\ child' = [child EXCEPT ![o][try[o]] = "gone"]
    BY <1>10 DEF Killed, Driven, Leave
  <2>2. CASE Answer(o, "ok") /\ UNCHANGED <<plan, try, token>>
    BY <2>1, <2>2, AttemptAnswers DEF Answers, Children, Settled
  <2>3. CASE \E why \in Failures : Fail(o, why)
    BY <2>1, <2>3, AttemptEnds DEF Settled, RunnerTypeOK, Children
  <2> QED
    BY <1>10, <2>2, <2>3 DEF Killed, Failures
<1>11. CASE KillUnconfirmed(o)
  BY <1>11, AttemptEnds DEF KillUnconfirmed, Driven, Leave, Children, Failures, RunnerTypeOK
<1> QED
  BY <1>1, <1>2, <1>3, <1>4, <1>5, <1>6, <1>7, <1>8, <1>9, <1>10, <1>11 DEF OpStep

\* So do dropped futures,
LEMMA DropKeeps ==
    ASSUME RunnerTypeOK, AttemptInv, NEW S \in SUBSET Ops, Drop(S)
    PROVE  RunnerTypeOK' /\ AttemptInv'
<1>1. \A o \in S : try[o] > 0 => try[o] \in Tries
  BY DEF RunnerTypeOK, PlanSpace, Tries
<1>2. \A o \in S : try[o] > 0 => Left(o) \in Children /\ (child[o][try[o]] = "none" => Left(o) = "none")
  BY <1>1 DEF RunnerTypeOK, Left, Now, Children
<1>3. child' \in [Ops -> [Tries -> Children]]
  BY <1>1, <1>2 DEF Drop, RunnerTypeOK
<1>4. \A p \in Ops, k \in Tries :
        child'[p][k] = IF p \in S /\ try[p] > 0 /\ k = try[p] THEN Left(p) ELSE child[p][k]
  BY <1>1 DEF Drop, RunnerTypeOK
<1>5. RunnerTypeOK'
  BY <1>1, <1>2, <1>3, <1>4 DEF Drop, RunnerTypeOK, Tries, Answers
<1>6. AttemptInv'
  BY <1>1, <1>2, <1>4 DEF Drop, RunnerTypeOK, AttemptInv, Now, Tries
<1> QED
  BY <1>5, <1>6

\* and the end of a child.
LEMMA ChildEndsKeeps ==
    ASSUME RunnerTypeOK, AttemptInv, NEW o \in Ops, NEW k \in Tries, ChildEnds(o, k)
    PROVE  RunnerTypeOK' /\ AttemptInv'
<1>1. \A p \in Ops, j \in Tries : child'[p][j] = IF p = o /\ j = k THEN "gone" ELSE child[p][j]
  BY DEF ChildEnds, RunnerTypeOK
<1>2. child' \in [Ops -> [Tries -> Children]]
  BY DEF ChildEnds, RunnerTypeOK, Children
<1>3. RunnerTypeOK'
  BY <1>1, <1>2 DEF ChildEnds, RunnerTypeOK, Tries
<1>4. \A p \in Ops : at[p] \in {"launch", "spawn", "run", "pause"} => try[p] \in Tries
  BY TryInRange
<1>5. AttemptInv'
  BY <1>1, <1>4 DEF ChildEnds, AttemptInv, Now, Settled
<1> QED
  BY <1>3, <1>5

-----------------------------------------------------------------------------
(* The transaction of a one-shot source.                                     *)

\* A launch takes the payload out of the cell,
LEMMA ReservePays ==
    ASSUME RunnerTypeOK, PayloadGoesOnce, NEW o \in Ops, Reserve(o)
    PROVE  PayloadGoesOnce'
<1>1. at' = [at EXCEPT ![o] = "spawn"] /\ at \in [Ops -> {"idle", "launch", "spawn", "run", "pause", "over"}]
      /\ UNCHANGED <<plan, child>> /\ cell' = cell \ {plan[o].stdin} /\ at[o] = "launch"
  BY DEF Reserve, RunnerTypeOK
<1> SUFFICES ASSUME NEW c \in Cells
             PROVE  \/ c \in cell' /\ Reserved(c)' = {} /\ Fed(c)' = {}
                    \/ c \notin cell' /\ (\E p \in Users(c)' : Reserved(c)' = {p}) /\ Fed(c)' = {}
                    \/ c \notin cell' /\ Reserved(c)' = {}
                       /\ (\E f \in Users(c)' \X Tries : Fed(c)' = {f})
  BY DEF PayloadGoesOnce
<1>2. Users(c)' = Users(c) /\ Fed(c)' = Fed(c)
  BY <1>1 DEF Users, Fed
<1>3. CASE plan[o].stdin = c
  <2>1. c \in cell /\ Reserved(c) = {} /\ Fed(c) = {}
    BY <1>3 DEF Reserve, OneShot, PayloadGoesOnce
  <2>2. o \in Users(c) /\ Reserved(c)' = {o}
    BY <1>1, <1>2, <1>3, <2>1 DEF Reserved, Users
  <2> QED
    BY <1>1, <1>2, <1>3, <2>1, <2>2
<1>4. CASE plan[o].stdin # c
  <2>1. Reserved(c)' = Reserved(c) /\ (c \in cell' <=> c \in cell)
    BY <1>1, <1>2, <1>4 DEF Reserved, Users
  <2> QED
    BY <1>2, <2>1 DEF PayloadGoesOnce
<1> QED
  BY <1>3, <1>4

\* a launch that fails puts it back,
LEMMA SpawnFailsPays ==
    ASSUME RunnerTypeOK, AttemptInv, PayloadGoesOnce, NEW o \in Ops, SpawnFails(o)
    PROVE  PayloadGoesOnce'
<1>1. /\ at[o] = "spawn" /\ UNCHANGED <<plan, child>>
      /\ cell' = cell \cup ({plan[o].stdin} \cap Cells)
  BY DEF SpawnFails, Fail
<1>2. at'[o] # "spawn" /\ \A p \in Ops \ {o} : at'[p] = at[p]
  BY FailMoves, <1>1 DEF SpawnFails, RunnerTypeOK, Failures
<1> SUFFICES ASSUME NEW c \in Cells
             PROVE  \/ c \in cell' /\ Reserved(c)' = {} /\ Fed(c)' = {}
                    \/ c \notin cell' /\ (\E p \in Users(c)' : Reserved(c)' = {p}) /\ Fed(c)' = {}
                    \/ c \notin cell' /\ Reserved(c)' = {}
                       /\ (\E f \in Users(c)' \X Tries : Fed(c)' = {f})
  BY DEF PayloadGoesOnce
<1>3. Users(c)' = Users(c) /\ Fed(c)' = Fed(c)
  BY <1>1 DEF Users, Fed
<1>4. Reserved(c)' = Reserved(c) \ {o}
  BY <1>1, <1>2, <1>3 DEF Reserved, Users
<1>5. CASE plan[o].stdin = c
  <2>1. o \in Reserved(c)
    BY <1>1, <1>5 DEF Reserved, Users
  <2>2. Reserved(c) = {o} /\ Fed(c) = {}
    BY <2>1 DEF PayloadGoesOnce
  <2> QED
    BY <1>1, <1>3, <1>4, <1>5, <2>2
<1>6. CASE plan[o].stdin # c
  <2>1. Reserved(c)' = Reserved(c) /\ (c \in cell' <=> c \in cell)
    BY <1>1, <1>4, <1>6 DEF Reserved, Users
  <2> QED
    BY <1>3, <2>1 DEF PayloadGoesOnce
<1> QED
  BY <1>5, <1>6

\* and one that succeeds gives it to the child.
LEMMA SpawnPays ==
    ASSUME RunnerTypeOK, AttemptInv, PayloadGoesOnce, NEW o \in Ops, Spawn(o)
    PROVE  PayloadGoesOnce'
<1>1. try[o] \in Tries /\ child[o][try[o]] = "none" /\ at[o] = "spawn" /\ UNCHANGED <<plan, cell>>
  BY TryInRange DEF Spawn, AttemptInv, Now
<1>2. at'[o] # "spawn" /\ \A p \in Ops \ {o} : at'[p] = at[p]
  BY DEF Spawn, RunnerTypeOK
<1>3. \A p \in Ops, k \in Tries : child'[p][k] = IF p = o /\ k = try[o] THEN "alive" ELSE child[p][k]
  BY <1>1 DEF Spawn, Leave, RunnerTypeOK
<1> SUFFICES ASSUME NEW c \in Cells
             PROVE  \/ c \in cell' /\ Reserved(c)' = {} /\ Fed(c)' = {}
                    \/ c \notin cell' /\ (\E p \in Users(c)' : Reserved(c)' = {p}) /\ Fed(c)' = {}
                    \/ c \notin cell' /\ Reserved(c)' = {}
                       /\ (\E f \in Users(c)' \X Tries : Fed(c)' = {f})
  BY DEF PayloadGoesOnce
<1>4. Users(c)' = Users(c)
  BY <1>1 DEF Users
<1>5. Reserved(c)' = Reserved(c) \ {o}
  BY <1>1, <1>2, <1>4 DEF Reserved, Users
<1>6. CASE plan[o].stdin = c
  <2>1. o \in Users(c) /\ o \in Reserved(c)
    BY <1>1, <1>6 DEF Reserved, Users
  <2>2. Reserved(c) = {o} /\ Fed(c) = {} /\ c \notin cell
    BY <2>1 DEF PayloadGoesOnce
  <2>3. \A f \in Users(c) \X Tries : child[f[1]][f[2]] = "none"
    BY <2>2 DEF Fed
  <2>4. Fed(c)' = {<<o, try[o]>>}
    BY <1>1, <1>3, <1>4, <2>1, <2>3 DEF Fed, Users
  <2> QED
    BY <1>1, <1>4, <1>5, <2>1, <2>2, <2>4
<1>7. CASE plan[o].stdin # c
  <2>1. o \notin Users(c)
    BY <1>7 DEF Users
  <2>2. Reserved(c)' = Reserved(c) /\ Fed(c)' = Fed(c)
    BY <1>3, <1>4, <1>5, <2>1 DEF Reserved, Fed, Users
  <2> QED
    BY <1>1, <1>4, <2>2 DEF PayloadGoesOnce
<1> QED
  BY <1>6, <1>7

\* No other step of a future has to do with a payload: it leaves a child that
\* exists in existence, and no launch behind.
LEMMA OpStepPays ==
    ASSUME RunnerTypeOK, AttemptInv, PayloadGoesOnce, NEW o \in Ops, OpStep(o)
    PROVE  PayloadGoesOnce'
<1>1. CASE Reserve(o)
  BY <1>1, ReservePays
<1>2. CASE SpawnFails(o)
  BY <1>2, SpawnFailsPays
<1>3. CASE Spawn(o)
  BY <1>3, SpawnPays
<1>4. CASE Begin(o) \/ PauseCancelled(o) \/ Refused(o) \/ Consumed(o)
  <2>1. UNCHANGED <<plan, cell, child>>
    BY <1>4 DEF Begin, PauseCancelled, Refused, Consumed, Fail
  <2>2. at[o] # "spawn" /\ at'[o] # "spawn" /\ \A p \in Ops \ {o} : at'[p] = at[p]
    <3>1. CASE Begin(o) \/ PauseCancelled(o)
      BY <3>1 DEF Begin, PauseCancelled, Answer, RunnerTypeOK
    <3>2. CASE Refused(o) \/ Consumed(o)
      BY <3>2, FailMoves DEF Refused, Consumed, RunnerTypeOK, Failures
    <3> QED
      BY <1>4, <3>1, <3>2
  <2> QED
    BY <2>1, <2>2, PayloadKept
<1>5. CASE NotCapturable(o) \/ Ends(o) \/ Killed(o) \/ KillUnconfirmed(o)
  <2>1. UNCHANGED <<plan, cell>> /\ at[o] = "run" /\ try[o] \in Tries
    BY <1>5, TryInRange DEF NotCapturable, Ends, Killed, KillUnconfirmed, Fail, Driven
  <2>2. at'[o] # "spawn" /\ \A p \in Ops \ {o} : at'[p] = at[p]
    <3>1. CASE Answer(o, "ok")
      BY <3>1 DEF Answer, RunnerTypeOK
    <3>2. CASE \E why \in Failures : Fail(o, why)
      BY <3>2, <2>1, FailMoves DEF RunnerTypeOK
    <3> QED
      BY <1>5, <3>1, <3>2 DEF NotCapturable, Ends, Killed, KillUnconfirmed, Failures
  <2>3. \A p \in Ops, k \in Tries : child'[p][k] = "none" <=> child[p][k] = "none"
    <3>1. CASE UNCHANGED child
      BY <3>1
    <3>2. CASE \E left \in Children \ {"none"} : child' = [child EXCEPT ![o][try[o]] = left]
      BY <3>2, <2>1 DEF AttemptInv, Now, RunnerTypeOK
    <3> QED
      BY <1>5, <2>1, <3>1, <3>2, LeftSettles
      DEF NotCapturable, Ends, Killed, KillUnconfirmed, Leave, Children
  <2> QED
    BY <2>1, <2>2, <2>3, PayloadKept
<1> QED
  BY <1>1, <1>2, <1>3, <1>4, <1>5 DEF OpStep

\* Nor has a dropped future,
LEMMA DropPays ==
    ASSUME RunnerTypeOK, AttemptInv, PayloadGoesOnce, NEW S \in SUBSET Ops, Drop(S)
    PROVE  PayloadGoesOnce'
<1>1. UNCHANGED <<plan, cell>> /\ \A p \in Ops : at'[p] = "spawn" <=> at[p] = "spawn"
  BY DEF Drop
<1>2. \A p \in Ops, k \in Tries :
        child'[p][k] = IF p \in S /\ try[p] > 0 /\ k = try[p] THEN Left(p) ELSE child[p][k]
  <2>1. \A p \in S : try[p] > 0 => try[p] \in Tries
    BY DEF RunnerTypeOK, PlanSpace, Tries
  <2> QED
    BY <2>1 DEF Drop, RunnerTypeOK
<1>3. \A p \in Ops : Left(p) = "none" <=> child[p][try[p]] = "none"
  BY DEF Left, Now
<1> QED
  BY <1>1, <1>2, <1>3, PayloadKept

\* nor the end of a child.
LEMMA ChildEndsPays ==
    ASSUME RunnerTypeOK, PayloadGoesOnce, NEW o \in Ops, NEW k \in Tries, ChildEnds(o, k)
    PROVE  PayloadGoesOnce'
<1>1. UNCHANGED <<plan, cell, at>>
  BY DEF ChildEnds
<1>2. \A p \in Ops, j \in Tries : child'[p][j] = "none" <=> child[p][j] = "none"
  BY DEF ChildEnds, RunnerTypeOK
<1> QED
  BY <1>1, <1>2, PayloadKept

-----------------------------------------------------------------------------
\* The invariant holds when nothing has begun.
LEMMA InvInit == RunnerInit => RunnerInv
<1> SUFFICES ASSUME RunnerInit PROVE RunnerInv
  OBVIOUS
<1>1. RunnerTypeOK
  <2>1. plan \in [Ops -> PlanSpace] /\ \A o \in Ops : plan[o].tries \in 1..MaxTries
    BY DEF RunnerInit, PlanSpace
  <2>2. /\ child \in [Ops -> [Tries -> Children]]
        /\ \A o \in Ops, k \in Tries : child[o][k] = "none"
    BY DEF RunnerInit, Children
  <2>3. \A o \in Ops : /\ at[o] = "idle" /\ try[o] = 0 /\ answer[o] = "none"
                        /\ try[o] <= plan[o].tries
    BY <2>1 DEF RunnerInit
  <2>4. /\ at \in [Ops -> {"idle", "launch", "spawn", "run", "pause", "over"}]
        /\ answer \in [Ops -> Answers]
    BY DEF RunnerInit, Answers
  <2>5. try \in [Ops -> 0..MaxTries]
    <3>1. 0 \in 0..MaxTries
      OBVIOUS
    <3> QED
      BY <3>1 DEF RunnerInit
  <2>6. cell \in SUBSET Cells /\ token \in BOOLEAN
    BY DEF RunnerInit
  <2> QED
    BY <2>1, <2>2, <2>3, <2>4, <2>5, <2>6 DEF RunnerTypeOK
<1>2. AttemptInv
  BY DEF RunnerInit, AttemptInv, Settled, Now
<1>3. PayloadGoesOnce
  BY DEF RunnerInit, PayloadGoesOnce, Users, Reserved, Fed
<1> QED
  BY <1>1, <1>2, <1>3 DEF RunnerInv

\* A step of an operation, of the caller, of a child or of the token keeps it.
LEMMA InvStep == RunnerInv /\ [RunnerNext]_runnerVars => RunnerInv'
<1> SUFFICES ASSUME RunnerInv, [RunnerNext]_runnerVars PROVE RunnerInv'
  OBVIOUS
<1> USE DEF RunnerInv
<1>1. CASE \E o \in Ops : OpStep(o)
  BY <1>1, OpStepKeeps, OpStepPays
<1>2. CASE \E o \in Ops : \E k \in Tries : ChildEnds(o, k)
  BY <1>2, ChildEndsKeeps, ChildEndsPays
<1>3. CASE \E S \in SUBSET Ops : Drop(S)
  BY <1>3, DropKeeps, DropPays
<1>4. CASE Cancel
  <2>1. UNCHANGED <<plan, at, try, cell, child, answer>> /\ token' \in BOOLEAN
    BY <1>4 DEF Cancel
  <2>2. RunnerTypeOK'
    BY <2>1 DEF RunnerTypeOK
  <2>3. AttemptInv' /\ PayloadGoesOnce'
    BY <2>1 DEF AttemptInv, Now, PayloadGoesOnce, Users, Reserved, Fed
  <2> QED
    BY <2>2, <2>3
<1>5. CASE UNCHANGED runnerVars
  <2>1. RunnerTypeOK'
    BY <1>5 DEF runnerVars, RunnerTypeOK
  <2>2. AttemptInv' /\ PayloadGoesOnce'
    BY <1>5 DEF runnerVars, AttemptInv, Now, PayloadGoesOnce, Users, Reserved, Fed
  <2> QED
    BY <2>1, <2>2
<1> QED
  BY <1>1, <1>2, <1>3, <1>4, <1>5 DEF RunnerNext

\* The invariant of the runner: for any number of operations, attempts and shared
\* sources, and whatever their classifiers accept.
THEOREM RunnerCorrect == RunnerSpec => []RunnerInv
  BY InvInit, InvStep, PTL DEF RunnerSpec

\* stdin.rs's transaction: a one-shot payload reaches one child, however many
\* operations and retries share its source, and a failed launch gives it back.
THEOREM PayloadCorrect == RunnerSpec => []PayloadGoesOnce
<1>1. RunnerInv => PayloadGoesOnce
  BY DEF RunnerInv
<1> QED
  BY RunnerCorrect, <1>1, PTL

\* retrying never starts an attempt beside a child of an earlier one that has a
\* group of its own.
THEOREM TwinCorrect == RunnerSpec => []NoLivingTwin
<1>1. RunnerInv => NoLivingTwin
  BY DEF RunnerInv, AttemptInv, NoLivingTwin, Settled
<1> QED
  BY RunnerCorrect, <1>1, PTL

-----------------------------------------------------------------------------
(* Fanout. *)

HIDE RunnerAssumption
USE SceneAssumption

\* A slot holds a future, or a result, or is for a command still queued: the
\* queue is what is left of the commands in their order, each future held is of
\* another command, and no more are held than the limit.
QueueInv ==
  /\ Len(pending) <= total
  /\ \A k \in 1..Len(pending) : pending[k] = total - Len(pending) + k
  /\ \A k \in 1..Len(active) : /\ active[k] <= total - Len(pending)
                               /\ slots[active[k]] = "none"
  /\ \A j, k \in 1..Len(active) : active[j] = active[k] => j = k
  /\ \A i \in Indices : i > total - Len(pending) => slots[i] = "none"
  /\ driver # "dropped" => \A i \in Indices :
       i <= total - Len(pending) => slots[i] # "none" \/ \E k \in 1..Len(active) : active[k] = i
  /\ Len(active) <= Limit
  /\ driver = "done" => Len(active) = 0 /\ Len(pending) = 0

\* A future that waits and will wake the driver.
Asleep(o) == o \in armed /\ Waits(o)

\* The futures before the cursor wait, unless the driver was woken since; so do
\* all of them when it is parked, and then there is one.
WakeInv ==
  /\ driver \in {"poll", "parked"} /\ Len(active) = 0 => Len(pending) = 0
  /\ driver = "parked" => Len(active) > 0
  /\ driver = "poll" /\ ~woken => \A k \in 1..Len(active) : k < cursor => Asleep(active[k])
  /\ driver = "parked" /\ ~woken => \A k \in 1..Len(active) : Asleep(active[k])

FanoutInv == TypeOK /\ RunnerInv /\ QueueInv /\ WakeInv

-----------------------------------------------------------------------------
\* Vec::swap_remove drops the element at i and keeps the others.
LEMMA SwapRemoveKeeps ==
    ASSUME NEW S, NEW s \in Seq(S), NEW i \in 1..Len(s)
    PROVE  /\ SwapRemove(s, i) \in Seq(S)
           /\ Len(SwapRemove(s, i)) = Len(s) - 1
           /\ \A k \in 1..(Len(s) - 1) : SwapRemove(s, i)[k] = IF k = i THEN s[Len(s)] ELSE s[k]
<1> DEFINE t == SwapRemove(s, i)
<1>1. Len(s) \in Nat /\ Len(s) - 1 \in Nat /\ \A k \in 1..Len(s) : s[k] \in S
  BY LenProperties, ElementOfSeq
<1>2. t \in [1..(Len(s) - 1) -> S]
  BY <1>1 DEF SwapRemove
<1>3. t \in Seq(S)
  BY <1>1, <1>2, SeqDef
<1>4. DOMAIN t = 1..Len(t) /\ Len(t) \in Nat
  BY <1>3, LenProperties
<1>5. DOMAIN t = 1..(Len(s) - 1)
  BY <1>2
<1>6. Len(t) = Len(s) - 1
  BY <1>1, <1>4, <1>5
<1> QED
  BY <1>3, <1>6 DEF SwapRemove

\* The fan-out's steps are steps of its operations, or leave them alone.
LEMMA StepIsRunners ==
    ASSUME TypeOK, [Next]_vars
    PROVE  [RunnerNext]_runnerVars
<1>1. \A k \in 1..Len(active) : active[k] \in Ops
  BY ElementOfSeq DEF TypeOK
<1>2. CASE Driver
  <2>1. CASE PollMoves
    <3>1. Polled \in Ops
      BY <1>1, <2>1, LenProperties DEF PollMoves, Polled, TypeOK
    <3> QED
      BY <2>1, <3>1 DEF PollMoves, RunnerNext
  <2>2. CASE Refill \/ PollPending \/ PollReady \/ RoundEnds
    BY <2>2 DEF Refill, PollPending, PollReady, RoundEnds
  <2> QED
    BY <1>2, <2>1, <2>2 DEF Driver
<1>3. CASE DropBatch
  <2>1. Range(active) \in SUBSET Ops
    BY <1>1, LenProperties DEF Range, TypeOK
  <2> QED
    BY <1>3, <2>1 DEF DropBatch, RunnerNext
<1>4. ASSUME NEW o \in Ops, VerbMoves(o) \/ DropVerb(o) PROVE RunnerNext
  BY <1>4 DEF VerbMoves, DropVerb, RunnerNext
<1>5. ASSUME NEW o \in Ops, TimerFires(o) PROVE UNCHANGED runnerVars
  BY <1>5 DEF TimerFires
<1>6. ASSUME NEW o \in Ops, NEW k \in Tries, ChildGone(o, k) PROVE RunnerNext
  BY <1>6 DEF ChildGone, RunnerNext
<1>7. CASE TokenFires
  BY <1>7 DEF TokenFires, RunnerNext
<1>8. CASE UNCHANGED vars
  BY <1>8 DEF vars
<1> QED
  BY <1>2, <1>3, <1>4, <1>5, <1>6, <1>7, <1>8 DEF Next

\* So a batch with its neighbours is a run of the operations.
LEMMA RunnerKept ==
    ASSUME FanoutInv, [Next]_vars
    PROVE  RunnerInv' /\ RunnerTypeOK'
  BY StepIsRunners, InvStep DEF FanoutInv, RunnerInv

-----------------------------------------------------------------------------
(* The driver.                                                               *)

\* A refill moves the head of the queue to the futures held.
LEMMA RefillMoves ==
    ASSUME FanoutInv, Refill
    PROVE  /\ Room \in 0..Len(pending) /\ (Room = 0 => Len(active) > 0 \/ Len(pending) = 0)
           /\ Len(active) + Room <= Limit
           /\ active' \in Seq(Indices) /\ Len(active') = Len(active) + Room
           /\ \A k \in 1..Len(active) : active'[k] = active[k]
           /\ \A k \in 1..Room : active'[Len(active) + k] = pending[k]
           /\ pending' \in Seq(Indices) /\ Len(pending') = Len(pending) - Room
           /\ \A k \in 1..Len(pending') : pending'[k] = pending[Room + k]
<1>1. /\ active \in Seq(Indices) /\ pending \in Seq(Indices)
      /\ Len(active) \in Nat /\ Len(pending) \in Nat
      /\ \A k \in 1..Len(pending) : pending[k] \in Indices
  BY LenProperties, ElementOfSeq DEF FanoutInv, TypeOK
<1>2. /\ Room \in 0..Len(pending) /\ (Room = 0 => Len(active) > 0 \/ Len(pending) = 0)
      /\ Len(active) + Room <= Limit
  <2>1. Limit \in Nat \ {0} /\ Len(active) <= Limit
    BY DEF Limit, FanoutInv, TypeOK, QueueInv
  <2>2. Room = IF Limit - Len(active) < Len(pending) THEN Limit - Len(active) ELSE Len(pending)
    BY DEF Room, Smaller
  <2> QED
    BY <1>1, <2>1, <2>2
<1> DEFINE head == SubSeq(pending, 1, Room)
           rest == SubSeq(pending, Room + 1, Len(pending))
<1>3. /\ head \in Seq(Indices) /\ Len(head) = Room
      /\ \A k \in 1..Room : head[k] = pending[k]
  <2>1. \A k \in 1..Room : pending[k] \in Indices
    BY <1>1, <1>2
  <2>2. /\ head \in Seq(Indices) /\ Len(head) = IF 1 <= Room THEN Room - 1 + 1 ELSE 0
        /\ \A k \in 1..(Room - 1 + 1) : head[k] = pending[1 + k - 1]
    BY <1>2, <2>1, SubSeqProperties
  <2> QED
    BY <1>2, <2>2
<1>4. /\ rest \in Seq(Indices) /\ Len(rest) = Len(pending) - Room
      /\ \A k \in 1..(Len(pending) - Room) : rest[k] = pending[Room + k]
  <2>1. \A k \in (Room + 1)..Len(pending) : pending[k] \in Indices
    BY <1>1, <1>2
  <2>2. /\ rest \in Seq(Indices)
        /\ Len(rest) = IF Room + 1 <= Len(pending) THEN Len(pending) - (Room + 1) + 1 ELSE 0
        /\ \A k \in 1..(Len(pending) - (Room + 1) + 1) : rest[k] = pending[Room + 1 + k - 1]
    BY <1>1, <1>2, <2>1, SubSeqProperties
  <2> QED
    BY <1>1, <1>2, <2>2
<1>5. active' = active \o head /\ pending' = rest
  BY DEF Refill
<1>6. /\ active \o head \in Seq(Indices) /\ Len(active \o head) = Len(active) + Len(head)
      /\ \A k \in 1..Len(active) + Len(head) :
           (active \o head)[k] = IF k <= Len(active) THEN active[k] ELSE head[k - Len(active)]
  BY <1>1, <1>3, ConcatProperties
<1>7. \A k \in 1..Room : active'[Len(active) + k] = pending[k]
  <2> SUFFICES ASSUME NEW k \in 1..Room PROVE active'[Len(active) + k] = pending[k]
    OBVIOUS
  <2>1. Len(active) + k \in 1..Len(active) + Len(head) /\ ~(Len(active) + k <= Len(active))
        /\ Len(active) + k - Len(active) = k
    BY <1>1, <1>2, <1>3
  <2> QED
    BY <1>3, <1>5, <1>6, <2>1
<1>8. \A k \in 1..Len(active) : active'[k] = active[k]
  BY <1>1, <1>2, <1>3, <1>5, <1>6
<1> QED
  BY <1>1, <1>2, <1>3, <1>4, <1>5, <1>6, <1>7, <1>8

LEMMA RefillKeeps ==
    ASSUME FanoutInv, Refill, RunnerTypeOK'
    PROVE  TypeOK' /\ QueueInv' /\ WakeInv'
<1> DEFINE n == Len(pending)
           r == Room
           a == Len(active)
<1>0. /\ n \in Nat /\ a \in Nat /\ total \in Nat /\ r \in 0..n
      /\ a + r <= Limit /\ (r = 0 => a > 0 \/ n = 0) /\ n <= total
  <2>1. active \in Seq(Indices) /\ pending \in Seq(Indices) /\ total \in Nat
    BY DEF FanoutInv, TypeOK
  <2> QED
    BY <2>1, RefillMoves, LenProperties DEF FanoutInv, QueueInv
<1>1. /\ active' \in Seq(Indices) /\ Len(active') = a + r
      /\ \A k \in 1..a : active'[k] = active[k]
      /\ \A k \in 1..r : active'[a + k] = pending[k]
      /\ pending' \in Seq(Indices) /\ Len(pending') = n - r
      /\ \A k \in 1..(n - r) : pending'[k] = pending[r + k]
  BY RefillMoves
<1>2. /\ driver' = "poll" /\ cursor' = 1 /\ woken' = FALSE
      /\ UNCHANGED <<runnerVars, sceneVars, armed, slots>>
      /\ driver # "dropped" /\ driver # "done"
  BY DEF Refill
<1>3. Indices' = Indices /\ Limit' = Limit /\ total' = total /\ slots' = slots
  BY <1>2 DEF Indices, Limit, sceneVars
<1>4. TypeOK'
  <2>1. asked' = asked /\ total' = total /\ verbs' = verbs /\ armed' = armed
    BY <1>2 DEF sceneVars
  <2>2. /\ driver' \in {"refill", "poll", "parked", "done", "dropped"}
        /\ cursor' \in Nat \ {0}
    BY <1>2
  <2>3. woken' \in BOOLEAN
    BY <1>2
  <2> QED
    BY <1>1, <1>3, <2>1, <2>2, <2>3 DEF FanoutInv, TypeOK
<1>5. \A k \in 1..n : pending[k] = total - n + k /\ slots[total - n + k] = "none"
                      /\ total - n + k \in Indices
  <2>1. \A k \in 1..n : total - n + k \in Indices /\ total - n + k > total - n
    BY <1>0 DEF Indices
  <2> QED
    BY <2>1 DEF FanoutInv, QueueInv
<1>6. \A k \in 1..(a + r) :
        \/ k \in 1..a /\ active'[k] = active[k]
        \/ k > a /\ k - a \in 1..r /\ active'[k] = total - n + (k - a)
  <2> SUFFICES ASSUME NEW k \in 1..(a + r), k > a
               PROVE  k - a \in 1..r /\ active'[k] = total - n + (k - a)
    BY <1>0, <1>1
  <2>1. k - a \in 1..r /\ a + (k - a) = k /\ k - a \in 1..n
    BY <1>0
  <2> QED
    BY <1>1, <1>5, <2>1
<1>7. \A k \in 1..a : active[k] \in Int /\ active[k] <= total - n /\ slots[active[k]] = "none"
  <2>1. \A k \in 1..a : active[k] \in Indices
    BY ElementOfSeq DEF FanoutInv, TypeOK
  <2> QED
    BY <2>1 DEF FanoutInv, QueueInv, Indices
<1>8. QueueInv'
  <2>1. Len(pending') <= total'
    BY <1>0, <1>1, <1>3
  <2>2. \A k \in 1..Len(pending') : pending'[k] = total' - Len(pending') + k
    <3> SUFFICES ASSUME NEW k \in 1..(n - r) PROVE pending'[k] = total - (n - r) + k
      BY <1>1, <1>3
    <3>1. r + k \in 1..n /\ total - n + (r + k) = total - (n - r) + k
      BY <1>0
    <3> QED
      BY <1>1, <1>5, <3>1
  <2>3. \A k \in 1..Len(active') : /\ active'[k] <= total' - Len(pending')
                                   /\ slots'[active'[k]] = "none"
    <3> SUFFICES ASSUME NEW k \in 1..(a + r)
                 PROVE  active'[k] <= total - (n - r) /\ slots[active'[k]] = "none"
      BY <1>1, <1>3
    <3>1. CASE k \in 1..a /\ active'[k] = active[k]
      BY <1>0, <1>7, <3>1
    <3>2. CASE k > a /\ k - a \in 1..r /\ active'[k] = total - n + (k - a)
      <4>1. k - a \in 1..n
        BY <1>0, <3>2
      <4>2. slots[active'[k]] = "none"
        BY <1>5, <3>2, <4>1
      <4>3. total - n + (k - a) <= total - (n - r)
        BY <1>0, <3>2
      <4> QED
        BY <3>2, <4>2, <4>3
    <3> QED
      BY <1>6, <3>1, <3>2
  <2>4. \A j, k \in 1..Len(active') : active'[j] = active'[k] => j = k
    <3> SUFFICES ASSUME NEW j \in 1..(a + r), NEW k \in 1..(a + r), active'[j] = active'[k]
                 PROVE  j = k
      BY <1>1
    <3>1. CASE j \in 1..a /\ k \in 1..a
      BY <1>1, <3>1 DEF FanoutInv, QueueInv
    <3>2. CASE j > a \/ k > a
      BY <1>0, <1>6, <1>7, <3>2
    <3> QED
      BY <1>0, <3>1, <3>2
  <2>5. \A i \in Indices' : i > total' - Len(pending') => slots'[i] = "none"
    BY <1>0, <1>1, <1>3 DEF FanoutInv, QueueInv, Indices
  <2>6. \A i \in Indices' : i <= total' - Len(pending') =>
          slots'[i] # "none" \/ \E k \in 1..Len(active') : active'[k] = i
    <3> SUFFICES ASSUME NEW i \in Indices, i <= total - (n - r)
                 PROVE  slots[i] # "none" \/ \E k \in 1..(a + r) : active'[k] = i
      BY <1>1, <1>3
    <3>1. CASE i <= total - n
      <4>1. slots[i] # "none" \/ \E k \in 1..a : active[k] = i
        BY <1>2, <3>1 DEF FanoutInv, QueueInv
      <4> QED
        BY <1>0, <1>1, <4>1
    <3>2. CASE i > total - n
      <4>1. i \in Int
        BY DEF Indices
      <4>2. i - (total - n) \in 1..r /\ total - n + (i - (total - n)) = i
        BY <1>0, <3>2, <4>1
      <4>3. a + (i - (total - n)) \in 1..(a + r) /\ i - (total - n) \in 1..n
        BY <1>0, <4>2
      <4> QED
        BY <1>1, <1>5, <4>2, <4>3
    <3> QED
      BY <1>0, <3>1, <3>2 DEF Indices
  <2> QED
    BY <1>0, <1>1, <1>2, <1>3, <2>1, <2>2, <2>3, <2>4, <2>5, <2>6 DEF QueueInv
<1>9. WakeInv'
  <2>1. a + r = 0 => n - r = 0
    <3> HIDE DEF n, r, a
    <3> QED
      BY <1>0
  <2>2. Len(active') = 0 => Len(pending') = 0
    BY <1>1, <2>1
  <2> QED
    BY <1>0, <1>1, <1>2, <2>2 DEF WakeInv
<1> QED
  BY <1>4, <1>8, <1>9

\* Steps that leave the queue, the futures held and the results alone.
LEMMA QueueKept ==
    ASSUME FanoutInv, RunnerTypeOK', UNCHANGED <<sceneVars, pending, active, slots>>,
           driver' \in {"refill", "poll", "parked", "done", "dropped"}, cursor' \in Nat \ {0},
           armed' \subseteq Indices, woken' \in BOOLEAN,
           driver' # "dropped" => driver # "dropped",
           driver' = "done" => driver = "done" \/ (Len(active) = 0 /\ Len(pending) = 0)
    PROVE  TypeOK' /\ QueueInv'
<1>1. /\ asked' = asked /\ total' = total /\ verbs' = verbs
      /\ pending' = pending /\ active' = active /\ slots' = slots
  BY DEF sceneVars
<1>2. Indices' = Indices /\ Limit' = Limit
  BY <1>1 DEF Indices, Limit
<1>3. TypeOK'
  BY <1>1, <1>2 DEF FanoutInv, TypeOK
<1>4. QueueInv'
  BY <1>1, <1>2 DEF FanoutInv, QueueInv
<1> QED
  BY <1>3, <1>4

\* Who slept sleeps on, unless the driver is woken.
LEMMA WakeKept ==
    ASSUME FanoutInv, UNCHANGED <<pending, active, driver, cursor>>,
           woken => woken',
           \A p \in Indices : Asleep(p) /\ ~woken' => Asleep(p)'
    PROVE  WakeInv'
<1>1. \A k \in 1..Len(active) : active[k] \in Indices
  BY ElementOfSeq DEF FanoutInv, TypeOK
<1>2. \A k \in 1..Len(active) : Asleep(active[k]) /\ ~woken' => Asleep(active[k])'
  BY <1>1 DEF Asleep, Waits, Driven, Now, Fired
<1> QED
  BY <1>1, <1>2 DEF FanoutInv, WakeInv

\* A step of one operation does not touch another.
LEMMA OpStepAlone ==
    ASSUME RunnerTypeOK, NEW o \in Ops, NEW p \in Ops, p # o, OpStep(o)
    PROVE  Waits(p)' = Waits(p)
<1>1. UNCHANGED <<plan, token>>
  BY DEF OpStep, Begin, PauseCancelled, Refused, Consumed, Reserve, SpawnFails, Spawn,
         NotCapturable, Ends, Killed, KillUnconfirmed, Fail
<1>2. try'[p] = try[p]
  BY DEF RunnerTypeOK, OpStep, Begin, PauseCancelled, Refused, Consumed, Reserve, SpawnFails,
         Spawn, NotCapturable, Ends, Killed, KillUnconfirmed, Fail
<1>3. child'[p] = child[p]
  BY DEF RunnerTypeOK, OpStep, Begin, PauseCancelled, Refused, Consumed, Reserve, SpawnFails,
         Spawn, NotCapturable, Ends, Killed, KillUnconfirmed, Leave
<1>4. at'[p] = at[p]
  <2>1. CASE Begin(o) \/ Reserve(o) \/ Spawn(o)
    BY <2>1 DEF RunnerTypeOK, Begin, Reserve, Spawn
  <2>2. CASE \E what \in Answers : Answer(o, what)
    BY <2>2 DEF RunnerTypeOK, Answer
  <2>3. CASE \E why \in Failures : Fail(o, why)
    BY <2>3 DEF RunnerTypeOK, Fail, Answer
  <2> QED
    BY <2>1, <2>2, <2>3 DEF OpStep, PauseCancelled, Refused, Consumed, SpawnFails,
       NotCapturable, Ends, Killed, KillUnconfirmed, Answers, Failures
<1> QED
  BY <1>1, <1>2, <1>3, <1>4 DEF Waits, Driven, Now, Fired

LEMMA PollMovesKeeps ==
    ASSUME FanoutInv, PollMoves, RunnerTypeOK'
    PROVE  TypeOK' /\ QueueInv' /\ WakeInv'
<1>1. /\ UNCHANGED <<sceneVars, pending, active, driver, cursor, armed, woken, slots>>
      /\ driver = "poll" /\ cursor <= Len(active) /\ OpStep(Polled)
  BY DEF PollMoves, fanoutVars
<1>2. TypeOK' /\ QueueInv'
  BY <1>1, QueueKept DEF FanoutInv, TypeOK
<1>3. /\ cursor \in 1..Len(active) /\ Len(active) \in Nat
      /\ \A k \in 1..Len(active) : active[k] \in Ops
  BY <1>1, LenProperties, ElementOfSeq DEF FanoutInv, TypeOK
<1>4. \A k \in 1..Len(active) : k < cursor => active[k] # Polled
  BY <1>3 DEF FanoutInv, QueueInv, Polled
<1>5. \A k \in 1..Len(active) : k < cursor => Waits(active[k])' = Waits(active[k])
  <2> SUFFICES ASSUME NEW k \in 1..Len(active), k < cursor
               PROVE  Waits(active[k])' = Waits(active[k])
    OBVIOUS
  <2> DEFINE p == active[k]
  <2>1. p \in Ops /\ p # Polled /\ Polled \in Ops /\ p' = p
    BY <1>1, <1>3, <1>4 DEF Polled
  <2>2. \A q \in Ops : q # Polled => Waits(q)' = Waits(q)
    BY <1>1, <2>1, OpStepAlone DEF FanoutInv, TypeOK
  <2> QED
    BY <1>1, <2>1, <2>2 DEF Waits, Driven, Now, Fired
<1>6. WakeInv'
  <2>1. driver' = "poll" /\ cursor' = cursor /\ active' = active /\ armed' = armed
        /\ woken' = woken /\ pending' = pending
    BY <1>1
  <2>2. Len(active) > 0
    BY <1>3
  <2>3. ~woken => \A k \in 1..Len(active) : k < cursor => Asleep(active[k])'
    BY <1>1, <1>5, <2>1 DEF FanoutInv, WakeInv, Asleep
  <2> QED
    BY <1>3, <2>1, <2>2, <2>3 DEF WakeInv
<1> QED
  BY <1>2, <1>6

LEMMA PollPendingKeeps ==
    ASSUME FanoutInv, PollPending, RunnerTypeOK'
    PROVE  TypeOK' /\ QueueInv' /\ WakeInv'
<1>1. /\ UNCHANGED <<runnerVars, sceneVars, pending, active, driver, woken, slots>>
      /\ driver = "poll" /\ cursor <= Len(active) /\ Waits(Polled)
      /\ armed' = armed \cup {Polled} /\ cursor' = cursor + 1
  BY DEF PollPending
<1>2. /\ cursor \in 1..Len(active) /\ Len(active) \in Nat /\ Polled \in Indices
  BY <1>1, LenProperties, ElementOfSeq DEF FanoutInv, TypeOK, Polled
<1>3. TypeOK' /\ QueueInv'
  BY <1>1, <1>2, QueueKept DEF FanoutInv, TypeOK
<1>4. \A p : Waits(p)' = Waits(p)
  BY <1>1 DEF Waits, Driven, Now, Fired, runnerVars
<1>5. ~woken => \A k \in 1..Len(active) : k < cursor + 1 => Asleep(active[k])'
  <2> SUFFICES ASSUME ~woken, NEW k \in 1..Len(active), k < cursor + 1
               PROVE  active[k] \in armed' /\ Waits(active[k])
    BY <1>1, <1>4 DEF Asleep, Waits, Driven, Now, Fired, runnerVars
  <2>1. CASE k = cursor
    BY <1>1, <2>1 DEF Polled
  <2>2. CASE k < cursor
    BY <1>1, <2>2 DEF FanoutInv, WakeInv, Asleep
  <2> QED
    BY <1>2, <2>1, <2>2
<1>6. WakeInv'
  BY <1>1, <1>2, <1>5 DEF WakeInv
<1> QED
  BY <1>3, <1>6

LEMMA RoundEndsKeeps ==
    ASSUME FanoutInv, RoundEnds, RunnerTypeOK'
    PROVE  TypeOK' /\ QueueInv' /\ WakeInv'
<1>1. /\ UNCHANGED <<runnerVars, sceneVars, pending, active, cursor, armed, woken, slots>>
      /\ driver = "poll" /\ cursor > Len(active)
      /\ driver' = IF active = <<>> /\ pending = <<>> THEN "done" ELSE "parked"
  BY DEF RoundEnds
<1>2. /\ Len(active) \in Nat /\ cursor \in Nat /\ Len(pending) \in Nat
      /\ (active = <<>> <=> Len(active) = 0) /\ (pending = <<>> <=> Len(pending) = 0)
  BY LenProperties, EmptySeq DEF FanoutInv, TypeOK
<1>3. TypeOK' /\ QueueInv'
  <2>1. driver' = "done" => Len(active) = 0 /\ Len(pending) = 0
    BY <1>1, <1>2
  <2> QED
    BY <1>1, <2>1, QueueKept DEF FanoutInv, TypeOK
<1>4. \A p : Asleep(p)' = Asleep(p)
  BY <1>1 DEF Asleep, Waits, Driven, Now, Fired, runnerVars
<1>5. driver' = "parked" => Len(active) > 0
  BY <1>1, <1>2 DEF FanoutInv, WakeInv
<1>6. ~woken => \A k \in 1..Len(active) : Asleep(active[k])'
  <2>1. \A k \in 1..Len(active) : k < cursor
    BY <1>1, <1>2
  <2> QED
    BY <1>1, <2>1 DEF FanoutInv, WakeInv, Asleep, Waits, Driven, Now, Fired, runnerVars
<1>7. WakeInv'
  BY <1>1, <1>2, <1>5, <1>6 DEF WakeInv
<1> QED
  BY <1>3, <1>7

\* A future that is over is taken out, its answer collected, and a slot is free.
LEMMA ReadyMoves ==
    ASSUME FanoutInv, PollReady
    PROVE  /\ cursor \in 1..Len(active) /\ Len(active) \in Nat /\ Polled \in Indices
           /\ answer[Polled] \in Answers \ {"none"}
           /\ slots' = [slots EXCEPT ![Polled] = answer[Polled]]
           /\ active' \in Seq(Indices) /\ Len(active') = Len(active) - 1
           /\ \A k \in 1..Len(active') :
                active'[k] = IF k = cursor THEN active[Len(active)] ELSE active[k]
<1>1. /\ cursor \in 1..Len(active) /\ Len(active) \in Nat /\ active \in Seq(Indices)
      /\ Polled \in Indices /\ Polled \in Ops
  BY LenProperties, ElementOfSeq DEF FanoutInv, TypeOK, Polled, PollReady
<1>2. answer[Polled] \in Answers \ {"none"}
  BY <1>1 DEF FanoutInv, TypeOK, RunnerTypeOK, PollReady
<1>3. active' = SwapRemove(active, cursor) /\ slots' = [slots EXCEPT ![Polled] = answer[Polled]]
  BY DEF PollReady
<1> QED
  BY <1>1, <1>2, <1>3, SwapRemoveKeeps

LEMMA PollReadyKeeps ==
    ASSUME FanoutInv, PollReady, RunnerTypeOK'
    PROVE  TypeOK' /\ QueueInv' /\ WakeInv'
<1> DEFINE a == Len(active)
           n == Len(pending)
<1>1. /\ cursor \in 1..a /\ a \in Nat /\ Polled \in Indices
      /\ answer[Polled] \in Answers \ {"none"}
      /\ slots' = [slots EXCEPT ![Polled] = answer[Polled]]
      /\ active' \in Seq(Indices) /\ Len(active') = a - 1
      /\ \A k \in 1..(a - 1) : active'[k] = IF k = cursor THEN active[a] ELSE active[k]
  BY ReadyMoves
<1>2. /\ asked' = asked /\ total' = total /\ verbs' = verbs
      /\ pending' = pending /\ woken' = woken
      /\ armed' = armed \ {Polled} /\ driver' = "refill" /\ cursor' = 1 /\ driver = "poll"
  BY DEF PollReady, sceneVars
<1>3. /\ Indices' = Indices /\ Limit' = Limit /\ n \in Nat /\ Limit \in Nat
      /\ slots \in [Indices -> Answers]
  BY <1>2, LenProperties DEF Indices, Limit, FanoutInv, TypeOK
<1>4. TypeOK'
  BY <1>1, <1>2, <1>3 DEF FanoutInv, TypeOK
<1>5. /\ Polled = active[cursor]
      /\ \A k \in 1..a : /\ active[k] \in Indices /\ active[k] <= total - n
                         /\ slots[active[k]] = "none"
                         /\ active[k] = Polled <=> k = cursor
  <2>1. \A k \in 1..a : active[k] \in Indices
    BY ElementOfSeq DEF FanoutInv, TypeOK
  <2> QED
    BY <1>1, <2>1 DEF FanoutInv, QueueInv, Polled
<1>6. \A i \in Indices : slots'[i] = IF i = Polled THEN answer[Polled] ELSE slots[i]
  BY <1>1, <1>3
<1>7. \A k \in 1..(a - 1) : \E j \in 1..a : /\ j # cursor /\ active'[k] = active[j]
                                            /\ j = IF k = cursor THEN a ELSE k
  <2> SUFFICES ASSUME NEW k \in 1..(a - 1)
               PROVE  \E j \in 1..a : /\ j # cursor /\ active'[k] = active[j]
                                     /\ j = IF k = cursor THEN a ELSE k
    OBVIOUS
  <2>1. active'[k] = IF k = cursor THEN active[a] ELSE active[k]
    BY <1>1
  <2>2. a \in 1..a /\ k \in 1..a /\ k # a
    BY <1>1
  <2>3. CASE k = cursor
    <3>1. a # cursor /\ active'[k] = active[a] /\ a = IF k = cursor THEN a ELSE k
      BY <2>1, <2>2, <2>3
    <3> QED
      BY <2>2, <3>1
  <2>4. CASE k # cursor
    <3>1. active'[k] = active[k] /\ k = IF k = cursor THEN a ELSE k
      BY <2>1, <2>4
    <3> QED
      BY <2>2, <2>4, <3>1
  <2> QED
    BY <2>3, <2>4
<1>8. QueueInv'
  <2>1. \A k \in 1..Len(active') : /\ active'[k] <= total' - Len(pending')
                                   /\ slots'[active'[k]] = "none"
    <3> SUFFICES ASSUME NEW k \in 1..(a - 1)
                 PROVE  active'[k] <= total - n /\ slots'[active'[k]] = "none"
      BY <1>1, <1>2
    <3>1. PICK j \in 1..a : j # cursor /\ active'[k] = active[j]
      BY <1>7
    <3>2. active[j] \in Indices /\ active[j] # Polled
      BY <1>5, <3>1
    <3> QED
      BY <1>5, <1>6, <3>1, <3>2
  <2>2. \A j, k \in 1..Len(active') : active'[j] = active'[k] => j = k
    <3> SUFFICES ASSUME NEW j \in 1..(a - 1), NEW k \in 1..(a - 1), active'[j] = active'[k]
                 PROVE  j = k
      BY <1>1
    <3>1. /\ (IF j = cursor THEN a ELSE j) \in 1..a /\ (IF k = cursor THEN a ELSE k) \in 1..a
          /\ active[IF j = cursor THEN a ELSE j] = active[IF k = cursor THEN a ELSE k]
      BY <1>1
    <3>2. (IF j = cursor THEN a ELSE j) = (IF k = cursor THEN a ELSE k)
      BY <3>1 DEF FanoutInv, QueueInv
    <3> QED
      BY <1>1, <3>2
  <2>3. \A i \in Indices' : i > total' - Len(pending') => slots'[i] = "none"
    <3>1. Polled <= total - n
      BY <1>1, <1>5
    <3>2. \A i \in Indices : i > total - n => slots[i] = "none"
      BY DEF FanoutInv, QueueInv
    <3> QED
      BY <1>2, <1>3, <1>6, <3>1, <3>2 DEF Indices, FanoutInv, TypeOK
  <2>4. \A i \in Indices' : i <= total' - Len(pending') =>
          slots'[i] # "none" \/ \E k \in 1..Len(active') : active'[k] = i
    <3> SUFFICES ASSUME NEW i \in Indices, i <= total - n
                 PROVE  slots'[i] # "none" \/ \E k \in 1..(a - 1) : active'[k] = i
      BY <1>1, <1>2, <1>3
    <3>1. slots[i] # "none" \/ \E k \in 1..a : active[k] = i
      BY <1>2 DEF FanoutInv, QueueInv
    <3>2. CASE i = Polled
      BY <1>1, <1>6, <3>2
    <3>3. CASE i # Polled /\ slots[i] # "none"
      BY <1>6, <3>3
    <3>4. ASSUME i # Polled, NEW k \in 1..a, active[k] = i
          PROVE  \E j \in 1..(a - 1) : active'[j] = i
      <4>1. k # cursor
        BY <1>5, <3>4
      <4>2. CASE k = a
        BY <1>1, <3>4, <4>1, <4>2
      <4>3. CASE k # a
        BY <1>1, <3>4, <4>1, <4>3
      <4> QED
        BY <4>2, <4>3
    <3> QED
      BY <3>1, <3>2, <3>3, <3>4
  <2>5. Len(pending') <= total' /\ \A k \in 1..Len(pending') : pending'[k] = total' - Len(pending') + k
    BY <1>2 DEF FanoutInv, QueueInv
  <2>6. Len(active') <= Limit'
    BY <1>1, <1>3 DEF FanoutInv, QueueInv
  <2> QED
    BY <1>2, <2>1, <2>2, <2>3, <2>4, <2>5, <2>6 DEF QueueInv
<1>9. WakeInv'
  BY <1>2 DEF WakeInv
<1> QED
  BY <1>4, <1>8, <1>9

LEMMA DropBatchKeeps ==
    ASSUME FanoutInv, DropBatch, RunnerTypeOK'
    PROVE  TypeOK' /\ QueueInv' /\ WakeInv'
<1>1. /\ asked' = asked /\ total' = total /\ verbs' = verbs /\ slots' = slots
      /\ pending' = <<>> /\ active' = <<>> /\ driver' = "dropped" /\ armed' = {}
      /\ cursor' = cursor /\ woken' = woken
  BY DEF DropBatch, sceneVars
<1>2. /\ Indices' = Indices /\ Limit' = Limit /\ Limit \in Nat /\ total \in Nat
      /\ Len(pending') = 0 /\ Len(active') = 0
      /\ pending' \in Seq(Indices) /\ active' \in Seq(Indices)
  BY <1>1, EmptySeq DEF Indices, Limit, FanoutInv, TypeOK
<1>3. TypeOK'
  BY <1>1, <1>2 DEF FanoutInv, TypeOK
<1>4. \A i \in Indices : ~(i > total)
  BY <1>2 DEF Indices
<1>5. QueueInv'
  BY <1>1, <1>2, <1>4 DEF QueueInv
<1>6. WakeInv'
  BY <1>1 DEF WakeInv
<1> QED
  BY <1>3, <1>5, <1>6

-----------------------------------------------------------------------------
(* The neighbours, the children, the token and the timers.                   *)

LEMMA VerbKeeps ==
    ASSUME FanoutInv, NEW o \in Ops, VerbMoves(o) \/ DropVerb(o), RunnerTypeOK'
    PROVE  TypeOK' /\ QueueInv' /\ WakeInv'
<1>1. /\ UNCHANGED <<sceneVars, pending, active, driver, cursor, armed, woken, slots>>
      /\ o \in verbs /\ o \notin Indices
  BY DEF VerbMoves, DropVerb, fanoutVars, FanoutInv, TypeOK
<1>2. TypeOK' /\ QueueInv'
  BY <1>1, QueueKept DEF FanoutInv, TypeOK
<1>3. \A p \in Indices : Waits(p)' = Waits(p)
  <2>1. CASE OpStep(o)
    BY <1>1, <2>1, OpStepAlone DEF FanoutInv, TypeOK
  <2>2. CASE Drop({o})
    BY <1>1, <2>2 DEF Drop, Waits, Driven, Now, Fired, FanoutInv, TypeOK
  <2> QED
    BY <2>1, <2>2 DEF VerbMoves, DropVerb
<1>4. \A p \in Indices : Asleep(p) => Asleep(p)'
  BY <1>1, <1>3 DEF Asleep
<1>5. WakeInv'
  BY <1>1, <1>4, WakeKept
<1> QED
  BY <1>2, <1>5

\* Whoever no longer waits wakes the driver, if it held its waker.
LEMMA EventKeeps ==
    ASSUME FanoutInv, NEW S \in SUBSET Ops, Wake(S), Untouched, RunnerTypeOK',
           \A p \in Indices : p \notin S /\ Waits(p) => Waits(p)'
    PROVE  TypeOK' /\ QueueInv' /\ WakeInv'
<1>1. /\ UNCHANGED <<sceneVars, pending, active, driver, cursor, slots>>
      /\ woken' = (woken \/ S \cap armed # {}) /\ armed' = armed \ S
  BY DEF Wake, Untouched
<1>2. woken' \in BOOLEAN
  BY <1>1
<1>3. TypeOK' /\ QueueInv'
  BY <1>1, <1>2, QueueKept DEF FanoutInv, TypeOK
<1>4. \A p \in Indices : Asleep(p) /\ ~woken' => Asleep(p)'
  BY <1>1 DEF Asleep
<1>5. WakeInv'
  BY <1>1, <1>4, WakeKept
<1> QED
  BY <1>3, <1>5

LEMMA AroundKeeps ==
    ASSUME FanoutInv, RunnerTypeOK',
           \/ TokenFires
           \/ \E o \in Ops : TimerFires(o) \/ \E k \in Tries : ChildGone(o, k)
    PROVE  TypeOK' /\ QueueInv' /\ WakeInv'
<1>1. CASE TokenFires
  <2> DEFINE S == {o \in Ops : plan[o].token}
  <2>1. Wake(S) /\ Untouched /\ UNCHANGED <<plan, at, try, cell, child, answer>>
    BY <1>1 DEF TokenFires, Cancel
  <2>2. \A p \in Indices : p \notin S /\ Waits(p) => Waits(p)'
    BY <2>1 DEF Waits, Driven, Now, Fired, FanoutInv, TypeOK
  <2> QED
    BY <2>1, <2>2, EventKeeps
<1>2. ASSUME NEW o \in Ops, TimerFires(o) PROVE TypeOK' /\ QueueInv' /\ WakeInv'
  <2>1. Wake({o}) /\ Untouched /\ UNCHANGED runnerVars
    BY <1>2 DEF TimerFires
  <2>2. \A p \in Indices : Waits(p) => Waits(p)'
    BY <2>1 DEF runnerVars, Waits, Driven, Now, Fired
  <2> QED
    BY <2>1, <2>2, EventKeeps
<1>3. ASSUME NEW o \in Ops, NEW k \in Tries, ChildGone(o, k)
      PROVE  TypeOK' /\ QueueInv' /\ WakeInv'
  <2>1. Wake({o}) /\ Untouched /\ ChildEnds(o, k)
    BY <1>3 DEF ChildGone
  <2>2. \A p \in Indices : p # o /\ Waits(p) => Waits(p)'
    BY <2>1 DEF ChildEnds, Waits, Driven, Now, Fired, FanoutInv, TypeOK, RunnerTypeOK
  <2> QED
    BY <2>1, <2>2, EventKeeps
<1> QED
  BY <1>1, <1>2, <1>3

-----------------------------------------------------------------------------
\* The invariant holds before the first poll.
LEMMA FanoutInit == Init => FanoutInv
<1> SUFFICES ASSUME Init PROVE FanoutInv
  OBVIOUS
<1>1. /\ asked \in Nat /\ total \in Nat /\ Indices \subseteq Ops /\ verbs \subseteq Ops \ Indices
  BY DEF Init, Indices
<1>2. RunnerInv /\ RunnerTypeOK
  BY InvInit DEF Init, RunnerInv
<1>3. pending \in Seq(Indices) /\ Len(pending) = total /\ \A k \in 1..total : pending[k] = k
  <2>1. pending \in [1..total -> Indices]
    BY <1>1 DEF Init, Indices
  <2>2. pending \in Seq(Indices)
    BY <1>1, <2>1, SeqDef
  <2>3. DOMAIN pending = 1..Len(pending) /\ Len(pending) \in Nat /\ DOMAIN pending = 1..total
    BY <2>1, <2>2, LenProperties
  <2> QED
    BY <1>1, <2>2, <2>3 DEF Init, Indices
<1>4. active \in Seq(Indices) /\ Len(active) = 0
  BY EmptySeq DEF Init
<1>5. /\ driver = "refill" /\ cursor = 1 /\ armed = {} /\ woken = FALSE
      /\ slots = [i \in Indices |-> "none"]
  BY DEF Init
<1>6. TypeOK
  <2>1. slots \in [Indices -> Answers] /\ cursor \in Nat \ {0} /\ armed \subseteq Indices
    BY <1>5 DEF Answers
  <2>2. woken \in BOOLEAN /\ driver \in {"refill", "poll", "parked", "done", "dropped"}
    BY <1>5
  <2> QED
    BY <1>1, <1>2, <1>3, <1>4, <2>1, <2>2 DEF TypeOK
<1>7. Limit \in Nat
  BY <1>1 DEF Limit
<1>8. QueueInv
  BY <1>1, <1>3, <1>4, <1>5, <1>7 DEF QueueInv, Indices
<1>9. WakeInv
  BY <1>5 DEF WakeInv
<1> QED
  BY <1>2, <1>6, <1>8, <1>9 DEF FanoutInv

\* Every step keeps it.
LEMMA FanoutStep == FanoutInv /\ [Next]_vars => FanoutInv'
<1> SUFFICES ASSUME FanoutInv, [Next]_vars PROVE FanoutInv'
  OBVIOUS
<1>1. RunnerInv' /\ RunnerTypeOK'
  BY RunnerKept
<1>2. CASE Driver
  BY <1>1, <1>2, RefillKeeps, PollMovesKeeps, PollPendingKeeps, PollReadyKeeps, RoundEndsKeeps
  DEF Driver, FanoutInv
<1>3. CASE DropBatch
  BY <1>1, <1>3, DropBatchKeeps DEF FanoutInv
<1>4. ASSUME NEW o \in Ops, VerbMoves(o) \/ DropVerb(o) PROVE FanoutInv'
  BY <1>1, <1>4, VerbKeeps DEF FanoutInv
<1>5. CASE TokenFires \/ \E o \in Ops : TimerFires(o) \/ \E k \in Tries : ChildGone(o, k)
  BY <1>1, <1>5, AroundKeeps DEF FanoutInv
<1>6. CASE UNCHANGED vars
  <2>1. UNCHANGED <<runnerVars, sceneVars, pending, active, driver, cursor, armed, woken, slots>>
    BY <1>6 DEF vars, fanoutVars
  <2>2. TypeOK' /\ QueueInv'
    BY <1>1, <2>1, QueueKept DEF FanoutInv, TypeOK
  <2>3. \A p \in Indices : Asleep(p) => Asleep(p)'
    BY <2>1 DEF Asleep, Waits, Driven, Now, Fired, runnerVars
  <2> QED
    BY <1>1, <2>1, <2>2, <2>3, WakeKept DEF FanoutInv
<1> QED
  BY <1>2, <1>3, <1>4, <1>5, <1>6 DEF Next

\* The inductive invariant of the fan-out, for any scenes.
THEOREM FanoutCorrect == Spec => []FanoutInv
  BY FanoutInit, FanoutStep, PTL DEF Spec

\* Every reachable state of a batch and its neighbours is well typed.
THEOREM TypeCorrect == Spec => []TypeOK
<1>1. FanoutInv => TypeOK
  BY DEF FanoutInv
<1> QED
  BY FanoutCorrect, <1>1, PTL

\* poll_next never returns Pending with a future left that would not wake it.
THEOREM WakeupCorrect == Spec => []NoLostWakeup
<1>1. FanoutInv => NoLostWakeup
  <2> SUFFICES ASSUME FanoutInv, driver = "parked", ~woken
               PROVE  active # <<>> /\ \A o \in Range(active) : o \in armed /\ Waits(o)
    BY DEF NoLostWakeup
  <2>1. Len(active) > 0 /\ \A k \in 1..Len(active) : Asleep(active[k])
    BY DEF FanoutInv, WakeInv
  <2>2. active # <<>>
    BY <2>1, EmptySeq
  <2>3. \A o \in Range(active) : \E k \in 1..Len(active) : active[k] = o
    BY LenProperties DEF Range, FanoutInv, TypeOK
  <2> QED
    BY <2>1, <2>2, <2>3 DEF Asleep
<1> QED
  BY FanoutCorrect, <1>1, PTL

\* A batch with its neighbours runs its operations as Runner does; so what holds
\* of operations holds of the commands of a batch.
THEOREM ImplementsRunner == Spec => RunnerSpec
<1>1. Init => RunnerInit
  BY DEF Init
<1>2. FanoutInv /\ [Next]_vars => [RunnerNext]_runnerVars
  BY StepIsRunners DEF FanoutInv
<1> QED
  BY <1>1, <1>2, FanoutCorrect, PTL DEF Spec, RunnerSpec

\* In a batch, too, a one-shot payload reaches a single child.
THEOREM BatchPayload == Spec => []PayloadGoesOnce
  BY ImplementsRunner, PayloadCorrect, PTL

\* In a batch, too, attempts with groups of their own do not overlap.
THEOREM BatchTwins == Spec => []NoLivingTwin
  BY ImplementsRunner, TwinCorrect, PTL

-----------------------------------------------------------------------------
(* The refinement: a fan-out is a batch.                                     *)

\* What is queued are the last commands.
LEMMA PendingAreLast ==
    ASSUME TypeOK, Len(pending) <= total,
           \A k \in 1..Len(pending) : pending[k] = total - Len(pending) + k, NEW i \in Indices
    PROVE  i \in Range(pending) <=> i > total - Len(pending)
<1>1. Range(pending) = {pending[k] : k \in 1..Len(pending)} /\ Len(pending) \in Nat
  BY LenProperties DEF TypeOK, Range
<1>2. i \in Int /\ i <= total /\ total \in Nat
  BY DEF Indices, TypeOK
<1>3. ASSUME i > total - Len(pending) PROVE i \in Range(pending)
  <2>1. i - (total - Len(pending)) \in 1..Len(pending)
        /\ total - Len(pending) + (i - (total - Len(pending))) = i
    BY <1>1, <1>2, <1>3
  <2> QED
    BY <1>1, <2>1
<1>4. ASSUME i \in Range(pending) PROVE i > total - Len(pending)
  <2>1. PICK k \in 1..Len(pending) : pending[k] = i
    BY <1>1, <1>4
  <2> QED
    BY <1>1, <1>2, <2>1
<1> QED
  BY <1>3, <1>4

\* Where a command stands.
LEMMA Standings ==
    ASSUME FanoutInv, NEW i \in Indices
    PROVE  Stands(i) = IF slots[i] # "none" THEN "answered"
                       ELSE IF driver = "dropped" THEN "discarded"
                       ELSE IF i > total - Len(pending) THEN "waiting" ELSE "running"
  BY PendingAreLast DEF Stands, FanoutInv, QueueInv

\* The commands that run are those whose futures are held.
LEMMA RunningAreActive ==
    ASSUME FanoutInv, driver # "dropped", NEW i \in Indices
    PROVE  Stands(i) = "running" <=> \E k \in 1..Len(active) : active[k] = i
<1>1. ASSUME Stands(i) = "running" PROVE \E k \in 1..Len(active) : active[k] = i
  <2>1. slots[i] = "none" /\ ~(i > total - Len(pending))
    BY <1>1, Standings
  <2>2. i \in Int /\ total - Len(pending) \in Int
    BY LenProperties DEF Indices, FanoutInv, TypeOK
  <2> QED
    BY <2>1, <2>2 DEF FanoutInv, QueueInv
<1>2. ASSUME NEW k \in 1..Len(active), active[k] = i PROVE Stands(i) = "running"
  <2>1. i <= total - Len(pending) /\ slots[i] = "none"
    BY <1>2 DEF FanoutInv, QueueInv
  <2>2. i \in Int /\ total - Len(pending) \in Int
    BY LenProperties DEF Indices, FanoutInv, TypeOK
  <2> QED
    BY <2>1, <2>2, Standings
<1> QED
  BY <1>1, <1>2

\* The same as formulas of a state, to be read of the next one.
StandsAsSlots ==
  \A i \in Indices :
    Stands(i) = IF slots[i] # "none" THEN "answered"
                ELSE IF driver = "dropped" THEN "discarded"
                ELSE IF i > total - Len(pending) THEN "waiting" ELSE "running"

RunsIfHeld ==
  driver # "dropped" =>
    \A i \in Indices : Stands(i) = "running" <=> \E k \in 1..Len(active) : active[k] = i

LEMMA StandingsHold == FanoutInv => StandsAsSlots /\ RunsIfHeld
  BY Standings, RunningAreActive DEF StandsAsSlots, RunsIfHeld

LEMMA CommandsAreIndices == B!Commands = Indices /\ (B!Commands)' = Indices'
  BY DEF B!Commands

\* Batch counts as this module does.
LEMMA BatchCounts == ASSUME NEW S PROVE B!Cardinality(S) = Cardinality(S)
  BY Zenon DEF B!Cardinality, Cardinality, B!IsFiniteSet, IsFiniteSet

\* The states Batch sees of a fan-out.
LEMMA StandingAre ==
    ASSUME NEW s
    PROVE  B!Standing(s) = {i \in Indices : Stands(i) = s}
  BY CommandsAreIndices DEF B!Standing, B!Commands

\* A step that moves no command of the batch is a stutter of Batch.
LEMMA StandsStutter ==
    ASSUME UNCHANGED <<sceneVars, slots, Ended>>,
           \A i \in Indices : Stands(i)' = Stands(i)
    PROVE  UNCHANGED B!batchVars
<1>1. asked' = asked /\ Indices' = Indices /\ Ended' = Ended
  BY DEF sceneVars, Indices
<1>2. [i \in Indices |-> Stands(i)]' = [i \in Indices |-> Stands(i)]
  BY <1>1
<1> QED
  BY <1>1, <1>2 DEF B!batchVars

\* A refill starts the first commands of the queue, or none.
LEMMA RefillIsStart ==
    ASSUME FanoutInv, FanoutInv', Refill
    PROVE  B!BatchNext \/ UNCHANGED B!batchVars
<1> DEFINE n == Len(pending)
           r == Room
           a == Len(active)
           s == {i \in Indices : i > total - n /\ i <= total - n + r}
<1>1. /\ n \in Nat /\ a \in Nat /\ total \in Nat /\ r \in 0..n /\ n <= total /\ asked \in Nat
      /\ a + r <= Limit
      /\ active' \in Seq(Indices) /\ Len(active') = a + r /\ Len(pending') = n - r
  BY RefillMoves, LenProperties DEF FanoutInv, TypeOK, QueueInv
<1>2. /\ UNCHANGED <<sceneVars, slots>> /\ driver \in {"refill", "parked"} /\ driver' = "poll"
      /\ Indices' = Indices /\ total' = total /\ asked' = asked
  BY DEF Refill, sceneVars, Indices
<1>3. Ended = "open" /\ Ended' = "open"
  BY <1>2 DEF Ended
<1>4. \A i \in Indices : Stands(i) = IF slots[i] # "none" THEN "answered"
                                     ELSE IF i > total - n THEN "waiting" ELSE "running"
  BY <1>2, Standings
<1>5. \A i \in Indices : Stands(i)' = IF slots[i] # "none" THEN "answered"
                                      ELSE IF i > total - (n - r) THEN "waiting" ELSE "running"
  <2>1. StandsAsSlots'
    BY StandingsHold, PTL
  <2> QED
    BY <1>1, <1>2, <2>1 DEF StandsAsSlots
<1>6. \A i \in Indices : i > total - n => slots[i] = "none"
  BY DEF FanoutInv, QueueInv
<1>7. CASE r = 0
  <2>1. \A i \in Indices : Stands(i)' = Stands(i)
    BY <1>1, <1>4, <1>5, <1>7
  <2> QED
    BY <1>2, <1>3, <2>1, StandsStutter
<1>8. CASE r > 0
  <2>1. s # {} /\ s \in SUBSET Indices
    <3>1. total - n + 1 \in s
      BY <1>1, <1>8 DEF Indices
    <3> QED
      BY <3>1
  <2>2. s \subseteq B!Standing("waiting")
    BY <1>4, <1>6, StandingAre
  <2>3. \A i \in s, j \in B!Standing("waiting") \ s : i < j
    <3> SUFFICES ASSUME NEW i \in s, NEW j \in B!Standing("waiting") \ s PROVE i < j
      OBVIOUS
    <3>1. j \in Indices /\ Stands(j) = "waiting"
      BY StandingAre
    <3>2. j > total - n
      BY <1>4, <3>1
    <3> QED
      BY <1>1, <3>1, <3>2 DEF Indices
  <2>4. Cardinality(B!Standing("running") \cup s) <= (IF asked = 0 THEN 1 ELSE asked)
    <3> DEFINE held == B!Standing("running") \cup s
    <3>1. \A i \in Indices : i \in held <=> Stands(i)' = "running"
      <4> SUFFICES ASSUME NEW i \in Indices PROVE i \in held <=> Stands(i)' = "running"
        OBVIOUS
      <4>1. i \in Int
        BY DEF Indices
      <4>2. i \in held <=> Stands(i) = "running" \/ (i > total - n /\ i <= total - n + r)
        BY StandingAre
      <4> QED
        BY <1>1, <1>4, <1>5, <1>6, <4>1, <4>2
    <3>2. \A i \in Indices : Stands(i)' = "running" <=> \E k \in 1..(a + r) : active'[k] = i
      <4>1. RunsIfHeld'
        BY StandingsHold, PTL
      <4> QED
        BY <1>1, <1>2, <4>1 DEF RunsIfHeld
    <3>3. held \subseteq Indices
      BY <2>1, StandingAre
    <3>4. \A k \in 1..(a + r) : active'[k] \in held
      <4>1. \A k \in 1..(a + r) : active'[k] \in Indices
        BY <1>1, ElementOfSeq
      <4> QED
        BY <3>1, <3>2, <4>1
    <3>5. active' \in [1..(a + r) -> held]
      BY <1>1, <3>4, LenProperties
    <3>6. active' \in Surjection(1..(a + r), held)
      BY <3>1, <3>2, <3>3, <3>5 DEF Surjection
    <3>7. Cardinality(held) <= a + r /\ Cardinality(held) \in Nat
      <4>3. a + r \in Nat
        BY <1>1
      <4>1. ExistsSurjection(1..(a + r), held) /\ a + r \in Nat
        BY <3>6, <4>3, Zenon DEF ExistsSurjection
      <4>2. IsFiniteSet(held)
        BY <4>1, FS_NatSurjection
      <4> QED
        BY <4>1, <4>2, FS_SurjCardinalityBound, FS_CardinalityType
    <3>8. Limit = (IF asked = 0 THEN 1 ELSE asked) /\ Limit \in Nat
      BY <1>1 DEF Limit
    <3> QED
      BY <1>1, <3>7, <3>8
  <2>5. [i \in Indices |-> Stands(i)]'
          = [i \in Indices |-> IF i \in s THEN "running" ELSE Stands(i)]
    <3>1. \A i \in Indices : Stands(i)' = IF i \in s THEN "running" ELSE Stands(i)
      <4> SUFFICES ASSUME NEW i \in Indices
                   PROVE  Stands(i)' = IF i \in s THEN "running" ELSE Stands(i)
        OBVIOUS
      <4>1. i \in Int
        BY DEF Indices
      <4> QED
        BY <1>1, <1>4, <1>5, <1>6, <4>1
    <3> QED
      BY <1>2, <3>1
  <2> HIDE DEF s
  <2>6. [i \in Indices |-> Stands(i)]'
          = [i \in Indices |-> IF i \in s THEN "running" ELSE [j \in Indices |-> Stands(j)][i]]
    BY <2>5
  <2>8. [i \in Indices |-> Stands(i)]'
          = [i \in B!Commands |-> IF i \in s THEN "running" ELSE [j \in Indices |-> Stands(j)][i]]
    BY <2>6, CommandsAreIndices
  <2>7. B!Start(s)
    BY <1>2, <1>3, <2>1, <2>2, <2>3, <2>4, <2>8, BatchCounts, Zenon DEF B!Start
  <2> QED
    BY <2>1, <2>7, CommandsAreIndices DEF B!BatchNext
<1> QED
  BY <1>1, <1>7, <1>8

\* A future that is over is an answer.
LEMMA ReadyIsAnswer ==
    ASSUME FanoutInv, FanoutInv', PollReady
    PROVE  Polled \in B!Commands /\ B!Answers(Polled)
<1>1. /\ Polled \in Indices /\ Polled = active[cursor] /\ cursor \in 1..Len(active)
      /\ Polled \in Ops
  BY ElementOfSeq, LenProperties DEF PollReady, Polled, FanoutInv, TypeOK
<1>2. /\ UNCHANGED <<sceneVars, pending>> /\ driver = "poll" /\ driver' = "refill"
      /\ Indices' = Indices /\ total' = total /\ asked' = asked
  BY DEF PollReady, sceneVars, Indices
<1>3. Ended = "open" /\ Ended' = "open"
  BY <1>2 DEF Ended
<1>4. Stands(Polled) = "running"
  BY <1>1, <1>2, RunningAreActive
<1>5. answer[Polled] # "none"
  BY <1>1 DEF PollReady, FanoutInv, RunnerInv, RunnerTypeOK
<1>6. \A i \in Indices : slots'[i] = IF i = Polled THEN answer[Polled] ELSE slots[i]
  BY DEF PollReady, FanoutInv, TypeOK
<1>7. \A i \in Indices : Stands(i)' = IF i = Polled THEN "answered" ELSE Stands(i)
  <2>1. StandsAsSlots' /\ StandsAsSlots
    BY StandingsHold, PTL
  <2> QED
    BY <1>2, <1>5, <1>6, <2>1 DEF StandsAsSlots
<1>8. [i \in Indices |-> Stands(i)]'
        = [[i \in Indices |-> Stands(i)] EXCEPT ![Polled] = "answered"]
  BY <1>1, <1>2, <1>7
<1>9. [i \in Indices |-> Stands(i)][Polled] = "running"
  BY <1>1, <1>4
<1> QED
  BY <1>1, <1>2, <1>3, <1>8, <1>9, CommandsAreIndices, Zenon DEF B!Answers

\* A driver that is done has every answer.
LEMMA DoneIsComplete ==
    ASSUME FanoutInv, RoundEnds, driver' = "done"
    PROVE  B!Complete
<1>1. /\ UNCHANGED <<sceneVars, pending, slots>> /\ driver = "poll"
      /\ active = <<>> /\ pending = <<>> /\ Indices' = Indices /\ asked' = asked
  BY DEF RoundEnds, sceneVars, Indices
<1>2. Ended = "open" /\ Ended' = "complete"
  BY <1>1 DEF Ended
<1>3. Len(active) = 0 /\ Len(pending) = 0
  BY <1>1, EmptySeq
<1>4. \A i \in Indices : slots[i] # "none"
  BY <1>1, <1>3 DEF FanoutInv, QueueInv, TypeOK, Indices
<1>5. \A i \in Indices : Stands(i) = "answered" /\ Stands(i)' = Stands(i)
  BY <1>1, <1>4 DEF Stands
<1>6. B!Standing("answered") = B!Commands
  BY <1>5, StandingAre, CommandsAreIndices
<1>7. [i \in Indices |-> Stands(i)]' = [i \in Indices |-> Stands(i)]
  BY <1>1, <1>5
<1> QED
  BY <1>1, <1>2, <1>6, <1>7, Zenon DEF B!Complete

\* Dropping the batch discards what was not answered.
LEMMA DropIsDiscard ==
    ASSUME FanoutInv, FanoutInv', DropBatch
    PROVE  B!Discard
<1>1. /\ UNCHANGED <<sceneVars, slots>> /\ driver \in {"refill", "parked"}
      /\ driver' = "dropped" /\ Indices' = Indices /\ asked' = asked
  BY DEF DropBatch, sceneVars, Indices
<1>2. Ended = "open" /\ Ended' = "dropped"
  BY <1>1 DEF Ended
<1>3. \A i \in Indices :
        Stands(i)' = IF Stands(i) = "answered" THEN "answered" ELSE "discarded"
  <2>1. StandsAsSlots' /\ StandsAsSlots
    BY StandingsHold, PTL
  <2> QED
    BY <1>1, <2>1 DEF StandsAsSlots
<1>4. [i \in Indices |-> Stands(i)]'
        = [i \in B!Commands |-> IF [j \in Indices |-> Stands(j)][i] = "answered"
                                THEN "answered" ELSE "discarded"]
  BY <1>1, <1>3, CommandsAreIndices
<1> QED
  BY <1>1, <1>2, <1>4, Zenon DEF B!Discard

\* What leaves the queue, the slots and the end of the driver alone is a stutter.
LEMMA ElseStutters ==
    ASSUME UNCHANGED <<sceneVars, pending, slots, Ended>>,
           driver = "dropped" <=> driver' = "dropped"
    PROVE  UNCHANGED B!batchVars
<1>1. \A i \in Indices : Stands(i)' = Stands(i)
  BY DEF Stands
<1> QED
  BY <1>1, StandsStutter

\* Every step of the fan-out is one of a batch.
LEMMA BatchStep ==
    ASSUME FanoutInv, FanoutInv', [Next]_vars
    PROVE  [B!BatchNext]_B!batchVars
<1>1. CASE Refill
  BY <1>1, RefillIsStart
<1>2. CASE PollReady
  BY <1>2, ReadyIsAnswer DEF B!BatchNext
<1>3. CASE RoundEnds
  <2>1. CASE driver' = "done"
    BY <1>3, <2>1, DoneIsComplete DEF B!BatchNext
  <2>2. CASE driver' = "parked"
    <3>1. UNCHANGED <<sceneVars, pending, slots>> /\ driver = "poll"
      BY <1>3 DEF RoundEnds
    <3>2. UNCHANGED Ended
      BY <2>2, <3>1 DEF Ended
    <3> QED
      BY <2>2, <3>1, <3>2, ElseStutters
  <2> QED
    BY <1>3, <2>1, <2>2 DEF RoundEnds
<1>4. CASE DropBatch
  BY <1>4, DropIsDiscard DEF B!BatchNext
<1>5. CASE UNCHANGED <<sceneVars, pending, driver, slots>>
  <2>1. UNCHANGED Ended
    BY <1>5 DEF Ended
  <2> QED
    BY <1>5, <2>1, ElseStutters
<1>6. CASE PollMoves \/ PollPending
  BY <1>5, <1>6 DEF PollMoves, PollPending, fanoutVars
<1>7. ASSUME NEW o \in Ops, VerbMoves(o) \/ DropVerb(o) PROVE [B!BatchNext]_B!batchVars
  BY <1>5, <1>7 DEF VerbMoves, DropVerb, fanoutVars
<1>8. CASE TokenFires \/ \E o \in Ops : TimerFires(o) \/ \E k \in Tries : ChildGone(o, k)
  BY <1>5, <1>8 DEF TokenFires, TimerFires, ChildGone, Untouched
<1>9. CASE UNCHANGED vars
  BY <1>5, <1>9 DEF vars, fanoutVars
<1> QED
  BY <1>1, <1>2, <1>3, <1>4, <1>6, <1>7, <1>8, <1>9 DEF Next, Driver

\* A batch begins with every command waiting.
LEMMA BatchBegins ==
    ASSUME Init
    PROVE  B!BatchInit
<1>1. FanoutInv
  BY FanoutInit
<1>2. asked \in Nat /\ Indices \subseteq Nat
  BY <1>1 DEF FanoutInv, TypeOK, Indices
<1>3. driver = "refill" /\ \A i \in Indices : slots[i] = "none"
  BY DEF Init
<1>4. Ended = "open"
  BY <1>3 DEF Ended
<1>5. \A i \in Indices : i \in Range(pending)
  <2>1. DOMAIN pending = Indices /\ \A i \in Indices : pending[i] = i
    BY DEF Init
  <2> QED
    BY <2>1 DEF Range
<1>6. \A i \in Indices : Stands(i) = "waiting"
  BY <1>3, <1>5 DEF Stands
<1>7. [i \in Indices |-> Stands(i)] = [i \in B!Commands |-> "waiting"]
  BY <1>6, CommandsAreIndices
<1> QED
  BY <1>2, <1>4, <1>7, CommandsAreIndices, Zenon DEF B!BatchInit

\* The fan-out implements a batch: commands are started in order and never more
\* than the limit at a time, each is answered once, and a batch that ends by
\* itself has every answer.
THEOREM BatchCorrect == Spec => ImplementsBatch
<1>1. Init => B!BatchInit
  BY BatchBegins
<1>2. FanoutInv /\ FanoutInv' /\ [Next]_vars => [B!BatchNext]_B!batchVars
  BY BatchStep
<1> QED
  BY <1>1, <1>2, FanoutCorrect, PTL DEF Spec, ImplementsBatch, B!BatchSpec

-----------------------------------------------------------------------------
(* Cassette. *)

HIDE SceneAssumption

\* A set of natural numbers that is not empty has a least element.
LEMMA LeastNatural ==
    ASSUME NEW T, T \subseteq Nat, T # {}
    PROVE  \E m \in T : \A k \in T : m <= k
<1> DEFINE I == {1..n : n \in T}
<1>1. I \subseteq FiniteSubsetsOf(Nat) /\ I # {}
  <2>1. ASSUME NEW n \in T PROVE IsFiniteSet(1..n) /\ 1..n \in SUBSET Nat
    BY FS_Interval
  <2> QED BY <2>1 DEF FiniteSubsetsOf
<1>2. PICK x \in I : \A y \in I : ~ (<<y, x>> \in StrictSubsetOrdering(Nat))
  <2> HIDE DEF I
  <2> QED BY <1>1, FS_StrictSubsetOrderingWellFounded, WFMin
<1>3. PICK m \in T : x = 1..m
  OBVIOUS
<1>4. ASSUME NEW k \in T, ~ (m <= k) PROVE FALSE
  <2>1. 1..k \subseteq 1..m /\ m \in 1..m /\ m \notin 1..k
    BY <1>4
  <2>2. <<1..k, 1..m>> \in StrictSubsetOrdering(Nat)
    BY <2>1 DEF StrictSubsetOrdering
  <2> QED BY <1>2, <1>3, <2>2
<1> QED BY <1>4

\* Every position of a slot is found by its number.
LEMMA NthFound ==
    ASSUME NEW N \in Nat, NEW S \in SUBSET (1..N), NEW n \in Nat,
           1 <= n, n <= Cardinality(S)
    PROVE  Nth(S, n) \in S /\ Cardinality({j \in S : j <= Nth(S, n)}) = n
<1>0. \A j \in S : j \in Nat /\ 1 <= j /\ j <= N
  OBVIOUS
<1> DEFINE Upto(m) == {j \in S : j <= m}
           T == {m \in Nat : n <= Cardinality(Upto(m))}
<1>1. ASSUME NEW m \in Nat PROVE IsFiniteSet(Upto(m)) /\ Cardinality(Upto(m)) \in Nat
  <2>1. IsFiniteSet(1..N)
    <3>1. N \in Int /\ 1 \in Int
      OBVIOUS
    <3> QED
      BY ONLY <3>1, FS_Interval
  <2>2. Upto(m) \in SUBSET (1..N)
    OBVIOUS
  <2> HIDE DEF Upto
  <2> QED
    BY <2>1, <2>2, FS_Subset, FS_CardinalityType
<1>2. N \in T
  <2>1. Upto(N) = S
    BY <1>0
  <2> QED
    BY <2>1
<1>3. PICK m \in T : \A k \in T : m <= k
  <2>1. T \subseteq Nat /\ T # {}
    BY <1>2
  <2> HIDE DEF T
  <2> QED
    BY <2>1, LeastNatural
<1>4. m # 0
  <2>1. Upto(0) = {}
    <3>1. \A j \in S : ~(j <= 0)
      BY <1>0
    <3> QED
      BY <3>1
  <2>2. Cardinality(Upto(0)) = 0
    BY <2>1, FS_EmptySet
  <2> QED
    BY <2>2
<1>5. m - 1 \in Nat /\ m \in Nat
  BY <1>4
<1>6. Cardinality(Upto(m - 1)) < n
  <2>1. m - 1 \notin T
    <3>1. ~(m <= m - 1)
      BY <1>5
    <3> QED
      BY <1>3, <3>1 DEF StoreView!StoreNext
  <2> HIDE DEF Upto
  <2> QED
    BY <1>1, <1>5, <2>1
<1>7. m \in S
  <2> SUFFICES ASSUME m \notin S PROVE FALSE
    OBVIOUS
  <2>1. \A j \in S : j <= m <=> j <= m - 1
    BY <1>0, <1>5
  <2>2. Upto(m) = Upto(m - 1)
    BY <2>1
  <2> QED
    BY <1>1, <1>5, <1>6, <2>2
<1>8. Cardinality(Upto(m)) = n
  <2>1. Upto(m) = Upto(m - 1) \cup {m} /\ m \notin Upto(m - 1)
    <3>1. \A j \in S : j <= m <=> (j <= m - 1 \/ j = m)
      BY <1>0, <1>5
    <3>2. ~(m <= m - 1)
      BY <1>5
    <3> QED
      BY <1>7, <3>1, <3>2
  <2>2. Cardinality(Upto(m)) = Cardinality(Upto(m - 1)) + 1
    <3> HIDE DEF Upto
    <3> QED
      BY <1>1, <1>5, <2>1, FS_AddElement
  <2>3. n <= Cardinality(Upto(m))
    OBVIOUS
  <2> HIDE DEF Upto
  <2> QED
    BY <1>1, <1>5, <1>6, <2>2, <2>3
<1> QED
  BY <1>7, <1>8 DEF Nth

\* What a slot plays is one of its entries, at the position its cursor says.
LEMMA PlayedFound ==
    ASSUME CassetteTypeOK, tape # None, NEW k \in Keys, Slot(k) # {}
    PROVE  \E i \in Slot(k) :
             /\ Played(k) = tape[i]
             /\ Cardinality({j \in Slot(k) : j <= i}) =
                  IF cursors[k] < Cardinality(Slot(k)) THEN cursors[k] + 1
                  ELSE Cardinality(Slot(k))
<1> DEFINE N == Len(tape)
           n == IF cursors[k] < Cardinality(Slot(k)) THEN cursors[k] + 1
                ELSE Cardinality(Slot(k))
<1>1. N \in Nat /\ DOMAIN tape = 1..N
  BY DEF CassetteTypeOK
<1>2. Slot(k) \in SUBSET (1..N)
  BY <1>1 DEF Slot
<1>3. Cardinality(Slot(k)) \in Nat /\ Cardinality(Slot(k)) # 0
  <2>1. IsFiniteSet(Slot(k))
    <3>1. IsFiniteSet(1..N)
      <4>1. N \in Int /\ 1 \in Int
        BY <1>1
      <4> QED
        BY ONLY <4>1, FS_Interval
    <3> QED
      BY <1>2, <3>1, FS_Subset
  <2> QED
    BY <2>1, FS_CardinalityType, FS_EmptySet
<1>4. cursors[k] \in Nat
  BY DEF CassetteTypeOK
<1>5. n \in Nat /\ 1 <= n /\ n <= Cardinality(Slot(k))
  BY <1>3, <1>4
<1>6. Nth(Slot(k), n) \in Slot(k) /\ Cardinality({j \in Slot(k) : j <= Nth(Slot(k), n)}) = n
  <2> HIDE DEF n, N
  <2> QED
    BY <1>1, <1>2, <1>5, NthFound
<1> QED
  BY <1>6 DEF Played

-----------------------------------------------------------------------------
\* Keys are keys.
LEMMA KeyType == \A p \in Callers, b \in BOOLEAN : KeyOf(p, b) \in Keys
  BY DEF Keys

LEMMA CassetteTypeInit == CassetteInit => CassetteTypeOK
<1> SUFFICES ASSUME CassetteInit PROVE CassetteTypeOK
  OBVIOUS
<1>1. <<>> \in Seq(Entry) /\ <<>> \in Seq(Entry \cup {None})
  OBVIOUS
<1>2. NoFile \in Files
  BY <1>1 DEF NoFile, Files
<1>3. versions \in Seq([file : Files \cup {Torn}, synced : BOOLEAN]) /\ versions # <<>>
  BY <1>2 DEF CassetteInit
<1> QED
  BY <1>1, <1>2, <1>3 DEF CassetteInit, CassetteTypeOK, Steps

\* A file a save may write.
LEMMA FileType == ASSUME CassetteTypeOK, NEW r \in Recorders PROVE File(r) \in Files
  BY DEF CassetteTypeOK, Files, File

\* The path holds a file, at the last of the versions.
LEMMA PathType ==
    ASSUME CassetteTypeOK
    PROVE  /\ Len(versions) \in Nat \ {0} /\ DOMAIN versions = 1..Len(versions)
           /\ Len(versions) \in DOMAIN versions
           /\ \A i \in DOMAIN versions : versions[i] \in [file : Files \cup {Torn}, synced : BOOLEAN]
<1>1. Len(versions) \in Nat /\ DOMAIN versions = 1..Len(versions) /\ Len(versions) # 0
  BY EmptySeq, LenProperties DEF CassetteTypeOK
<1>2. \A i \in DOMAIN versions : versions[i] \in [file : Files \cup {Torn}, synced : BOOLEAN]
  BY <1>1, ElementOfSeq DEF CassetteTypeOK
<1> QED
  BY <1>1, <1>2

LEMMA CassetteTypeStep == ASSUME CassetteTypeOK, [CassetteNext]_cassetteVars PROVE CassetteTypeOK'
<1> USE DEF CassetteTypeOK, cassetteVars, recorderVars, saveVars, fileVars, playerVars
<1>1. ASSUME NEW p \in Callers, Runs(p) PROVE CassetteTypeOK'
  BY <1>1 DEF Runs
<1>2. ASSUME NEW p \in Callers, Records(p) PROVE CassetteTypeOK'
  <2>1. [key |-> KeyOf(p, policy.record), by |-> p, run |-> seen[p] + 1] \in Entry
    BY KeyType DEF Entry
  <2>2. Append(recorded[Home[p]], [key |-> KeyOf(p, policy.record), by |-> p, run |-> seen[p] + 1])
          \in Seq(Entry)
    BY <2>1, AppendProperties, CallersAssumption
  <2>3. recorded' \in [Recorders -> Seq(Entry)]
    BY <1>2, <2>2 DEF Records
  <2> QED
    BY <1>2, <2>3 DEF Records
<1>3. ASSUME NEW p \in Callers, RunIsLost(p) PROVE CassetteTypeOK'
  BY <1>3 DEF RunIsLost
<1>4. ASSUME NEW r \in Recorders, Clones(r)
      PROVE  step' \in [Recorders -> Steps]
             /\ temp' \in [Recorders -> [entries : Seq(Entry), synced : BOOLEAN]]
  BY <1>4 DEF Clones, Steps
<1>5. ASSUME NEW r \in Recorders, Save(r) PROVE CassetteTypeOK'
  BY <1>4, <1>5 DEF Save
<1>6. ASSUME NEW r \in Recorders, DropRecorder(r) PROVE CassetteTypeOK'
  <2>1. CASE Clones(r) /\ dropping' = dropping \cup {r}
    BY <1>4, <1>6, <2>1 DEF DropRecorder
  <2>2. CASE step' = [step EXCEPT ![r] = "gone"] /\ UNCHANGED <<dropping, temp>>
    BY <1>6, <2>2 DEF DropRecorder, Steps
  <2> QED
    BY <1>6, <2>1, <2>2 DEF DropRecorder
<1>7. ASSUME NEW r \in Recorders, TakesLock(r) \/ WritesTemp(r) PROVE CassetteTypeOK'
  BY <1>7 DEF TakesLock, WritesTemp, Steps
<1>8. ASSUME NEW r \in Recorders, SyncsTemp(r) PROVE CassetteTypeOK'
  BY <1>8 DEF SyncsTemp, Steps
<1>9. ASSUME NEW r \in Recorders, Renames(r) PROVE CassetteTypeOK'
  <2>1. [file |-> File(r), synced |-> temp[r].synced] \in [file : Files \cup {Torn}, synced : BOOLEAN]
    BY FileType
  <2>2. versions' \in Seq([file : Files \cup {Torn}, synced : BOOLEAN]) /\ versions' # <<>>
    <3> DEFINE Version == [file : Files \cup {Torn}, synced : BOOLEAN]
    <3>1. versions \in Seq(Version)
      OBVIOUS
    <3>2. versions' = Append(versions, [file |-> File(r), synced |-> temp[r].synced])
      BY <1>9 DEF Renames
    <3>3. [file |-> File(r), synced |-> temp[r].synced] \in Version
      BY <2>1
    <3> HIDE DEF Version
    <3>4. versions' \in Seq(Version) /\ Len(versions') = Len(versions) + 1 /\ Len(versions) \in Nat
      BY ONLY <3>1, <3>2, <3>3, AppendProperties, LenProperties
    <3>5. versions' # <<>>
      BY ONLY <3>4, EmptySeq
    <3> QED
      BY <3>4, <3>5 DEF Version
  <2> QED
    BY <1>9, <2>2 DEF Renames, Steps
<1>10. ASSUME NEW r \in Recorders, SyncsDirectory(r) PROVE CassetteTypeOK'
  <2>1. versions' \in Seq([file : Files \cup {Torn}, synced : BOOLEAN]) /\ versions' # <<>>
    BY <1>10, PathType DEF SyncsDirectory
  <2> QED
    BY <1>10, <2>1 DEF SyncsDirectory, Steps
<1>11. ASSUME NEW r \in Recorders, Saved(r) PROVE CassetteTypeOK'
  BY <1>11, FileType DEF Saved, Leaves, Steps
<1>12. ASSUME NEW r \in Recorders, SaveFails(r) PROVE CassetteTypeOK'
  BY <1>12 DEF SaveFails, Leaves, Steps
<1>13. ASSUME NEW r \in Recorders, Crash(r) PROVE CassetteTypeOK'
  BY <1>13 DEF Crash, Steps
<1>14. CASE Load
  <2>1. Path \in Files
    <3>1. Path \in Files \cup {Torn}
      BY PathType DEF Path
    <3> QED
      BY <1>14, <3>1 DEF Load
  <2>2. tape' \in Seq(Entry)
    BY <1>14, <2>1 DEF Load, Files
  <2> QED
    BY <1>14, <2>2 DEF Load
<1>15. ASSUME NEW p \in Callers, Plays(p) PROVE CassetteTypeOK'
  <2> DEFINE k == KeyOf(p, policy.replay)
  <2>1. k \in Keys
    BY KeyType
  <2>2. CASE Slot(k) # {}
    <3>1. Played(k) \in Entry
      <4>1. PICK i \in Slot(k) : Played(k) = tape[i]
        BY <1>15, <2>1, <2>2, PlayedFound DEF Plays
      <4>2. i \in DOMAIN tape /\ tape \in Seq(Entry)
        BY <1>15 DEF Plays, Slot
      <4> QED
        BY <4>1, <4>2
    <3>2. Append(replayed[p], Played(k)) \in Seq(Entry \cup {None})
      BY <3>1, AppendProperties
    <3>3. /\ replayed' = [replayed EXCEPT ![p] = Append(@, Played(k))]
          /\ cursors' = [cursors EXCEPT ![k] = @ + 1]
      BY <1>15, <2>2 DEF Plays
    <3>4. replayed' \in [Callers -> Seq(Entry \cup {None})] /\ cursors' \in [Keys -> Nat]
      <4> HIDE DEF k
      <4> QED
        BY <2>1, <3>2, <3>3
    <3> QED
      BY <1>15, <3>4 DEF Plays
  <2>3. CASE Slot(k) = {}
    <3>1. Append(replayed[p], None) \in Seq(Entry \cup {None})
      BY AppendProperties
    <3>2. replayed' = [replayed EXCEPT ![p] = Append(@, None)] /\ cursors' = cursors
      BY <1>15, <2>3 DEF Plays
    <3> QED
      BY <1>15, <3>1, <3>2 DEF Plays
  <2> QED
    BY <2>2, <2>3
<1>16. CASE PowerLoss
  <2>1. PICK v \in Range(versions) : versions' = <<[v EXCEPT !.file = IF v.synced THEN @ ELSE Torn]>>
    BY <1>16 DEF PowerLoss
  <2>2. v \in [file : Files \cup {Torn}, synced : BOOLEAN]
    BY PathType DEF Range
  <2>3. [v EXCEPT !.file = IF v.synced THEN @ ELSE Torn] \in [file : Files \cup {Torn}, synced : BOOLEAN]
    BY <2>2
  <2>4. versions' \in Seq([file : Files \cup {Torn}, synced : BOOLEAN]) /\ versions' # <<>>
    BY <2>1, <2>3
  <2>5. <<>> \in Seq(Entry \cup {None})
    OBVIOUS
  <2> QED
    BY <1>16, <2>4, <2>5 DEF PowerLoss, Steps
<1>17. CASE UNCHANGED cassetteVars
  BY <1>17
<1> QED
  BY <1>1, <1>2, <1>3, <1>5, <1>6, <1>7, <1>8, <1>9, <1>10, <1>11, <1>12, <1>13, <1>14, <1>15, <1>16, <1>17
     DEF CassetteNext

-----------------------------------------------------------------------------
(* Saving.                                                                   *)

\* A step that leaves a recorder's save where it was, or ends it, keeps what it
\* cloned; nothing is recorded under it.
LEMMA CloneStep ==
    ASSUME CassetteTypeOK, CloneInv, [CassetteNext]_cassetteVars PROVE CloneInv'
<1> USE DEF CloneInv, CleanIsSaved, cassetteVars, recorderVars, saveVars, fileVars, playerVars
<1>0. /\ step \in [Recorders -> Steps] /\ temp \in [Recorders -> [entries : Seq(Entry), synced : BOOLEAN]]
      /\ recorded \in [Recorders -> Seq(Entry)] /\ dirty \in [Recorders -> BOOLEAN]
  BY DEF CassetteTypeOK
<1>1. ASSUME NEW p \in Callers, Runs(p) \/ RunIsLost(p) \/ Plays(p) PROVE CloneInv'
  <2>1. UNCHANGED <<recorded, dirty, step, temp, kept>>
    BY <1>1 DEF Runs, RunIsLost, Plays
  <2> QED
    BY <2>1
<1>2. ASSUME NEW p \in Callers, Records(p) PROVE CloneInv'
  <2>1. Home[p] \in Recorders
    BY CallersAssumption
  <2>2. /\ step[Home[p]] = "idle" /\ dirty'[Home[p]]
        /\ UNCHANGED <<step, temp, kept>>
        /\ \A r \in Recorders \ {Home[p]} : recorded'[r] = recorded[r] /\ dirty'[r] = dirty[r]
    BY <1>0, <1>2, <2>1 DEF Records, Unlocked
  <2> QED
    BY <2>2
<1>3. ASSUME NEW r \in Recorders, Clones(r), UNCHANGED <<recorded, dirty, kept>> PROVE CloneInv'
  BY <1>0, <1>3 DEF Clones
<1>4. ASSUME NEW r \in Recorders, NEW place \in Steps, step' = [step EXCEPT ![r] = place],
             UNCHANGED <<recorded, dirty, kept>>, temp' = temp \/ temp' = [temp EXCEPT ![r].synced = TRUE],
             step[r] \notin {"idle", "gone"} \/ place = "gone"
      PROVE  CloneInv'
  <2>1. \A q \in Recorders : temp'[q].entries = temp[q].entries
    <3>1. CASE temp' = temp
      BY <3>1
    <3>2. CASE temp' = [temp EXCEPT ![r].synced = TRUE]
      <4>1. \A q \in Recorders : temp[q] \in [entries : Seq(Entry), synced : BOOLEAN]
        BY <1>0
      <4>2. \A q \in Recorders : temp'[q] = IF q = r THEN [temp[r] EXCEPT !.synced = TRUE] ELSE temp[q]
        BY <1>0, <3>2
      <4> QED
        BY <4>1, <4>2
    <3> QED
      BY <1>4, <3>1, <3>2
  <2>2. \A q \in Recorders : step'[q] = IF q = r THEN place ELSE step[q]
    BY <1>0, <1>4
  <2> QED
    BY <1>4, <2>1, <2>2
<1> USE DEF Steps
<1>5. ASSUME NEW r \in Recorders, Save(r) PROVE CloneInv'
  BY <1>3, <1>5 DEF Save
<1>6. ASSUME NEW r \in Recorders, DropRecorder(r) PROVE CloneInv'
  BY <1>3, <1>4, <1>6 DEF DropRecorder
<1>7. ASSUME NEW r \in Recorders, TakesLock(r) \/ WritesTemp(r) \/ Renames(r) \/ SyncsDirectory(r) PROVE CloneInv'
  BY <1>4, <1>7 DEF TakesLock, WritesTemp, Renames, SyncsDirectory
<1>8. ASSUME NEW r \in Recorders, SyncsTemp(r) PROVE CloneInv'
  BY <1>4, <1>8 DEF SyncsTemp
<1>9. ASSUME NEW r \in Recorders, Saved(r) PROVE CloneInv'
  <2>1. UNCHANGED <<recorded, temp>> /\ step[r] = "clean"
    BY <1>9 DEF Saved
  <2>3. kept'.by = r /\ kept'.entries = recorded[r] /\ None \notin Recorders
    BY <1>9, <2>1, CallersAssumption DEF Saved, File
  <2>2. \A q \in Recorders \ {r} : step'[q] = step[q] /\ dirty'[q] = dirty[q]
    BY <1>0, <1>9 DEF Saved, Leaves
  <2> QED
    BY <2>1, <2>2, <2>3
<1>10. ASSUME NEW r \in Recorders, SaveFails(r) PROVE CloneInv'
  BY <1>4, <1>10 DEF SaveFails, Leaves
<1>11. ASSUME NEW r \in Recorders, Crash(r) PROVE CloneInv'
  BY <1>4, <1>11 DEF Crash
<1>12. CASE PowerLoss
  BY <1>12 DEF PowerLoss
<1>13. CASE Load \/ UNCHANGED cassetteVars
  <2>1. UNCHANGED <<recorded, dirty, step, temp, kept>>
    BY <1>13 DEF Load
  <2> QED
    BY <2>1
<1> QED
  BY <1>1, <1>2, <1>5, <1>6, <1>7, <1>8, <1>9, <1>10, <1>11, <1>12, <1>13 DEF CassetteNext

\* What is left of a recorder's file once the step of its save moves on.
FileKept(r) == temp'[r] = temp[r] /\ step'[r] = step[r]

\* The versions, when a save moves a recorder on.
LEMMA FileStep ==
    ASSUME CassetteTypeOK, FileInv, [CassetteNext]_cassetteVars PROVE FileInv'
<1> USE DEF FileInv, cassetteVars, recorderVars, saveVars, fileVars, playerVars, Path, File
<1>0. /\ step \in [Recorders -> Steps] /\ temp \in [Recorders -> [entries : Seq(Entry), synced : BOOLEAN]]
      /\ lock \in Recorders \cup {None}
  BY DEF CassetteTypeOK
<1>1. CASE UNCHANGED <<step, temp, lock, versions>>
  BY <1>1
<1>2. ASSUME NEW p \in Callers, Runs(p) \/ RunIsLost(p) \/ Plays(p) \/ Records(p) PROVE FileInv'
  BY <1>1, <1>2 DEF Runs, RunIsLost, Plays, Records
<1>3. ASSUME NEW r \in Recorders, step[r] \in {"idle", "lock", "gone"} \/ step'[r] \in {"idle", "gone"},
             step'[r] \in {"idle", "lock", "gone"},
             \A q \in Recorders \ {r} : FileKept(q), versions' = versions,
             lock' = lock \/ lock = r
      PROVE  FileInv'
  BY <1>3 DEF FileKept
<1>4. ASSUME NEW r \in Recorders, Save(r) \/ DropRecorder(r) PROVE FileInv'
  <2>1. step[r] = "idle" /\ UNCHANGED <<versions, lock>>
    BY <1>4 DEF Save, DropRecorder
  <2>2. step'[r] \in {"lock", "gone"} /\ \A q \in Recorders \ {r} : FileKept(q)
    BY <1>0, <1>4 DEF Save, DropRecorder, Clones, FileKept
  <2> QED
    BY <1>3, <2>1, <2>2
<1>5. ASSUME NEW r \in Recorders, SaveFails(r) \/ Crash(r) PROVE FileInv'
  <2>1. versions' = versions /\ (lock' = lock \/ lock = r)
    BY <1>5 DEF SaveFails, Crash, Leaves
  <2>2. step'[r] \in {"idle", "gone"} /\ \A q \in Recorders \ {r} : FileKept(q)
    BY <1>0, <1>5 DEF SaveFails, Crash, Leaves, FileKept
  <2> QED
    BY <1>3, <2>1, <2>2
<1>6. ASSUME NEW r \in Recorders, Saved(r) PROVE FileInv'
  <2>1. versions' = versions /\ (lock' = lock \/ lock = r)
    BY <1>6 DEF Saved, Leaves
  <2>2. step'[r] \in {"idle", "gone"} /\ \A q \in Recorders \ {r} : FileKept(q)
    BY <1>0, <1>6 DEF Saved, Leaves, FileKept
  <2> QED
    BY <1>3, <2>1, <2>2
<1>7. ASSUME NEW r \in Recorders, TakesLock(r) PROVE FileInv'
  <2>1. /\ \A q \in Recorders : step'[q] = IF q = r THEN "write" ELSE step[q]
        /\ lock = None /\ lock' = r /\ UNCHANGED <<temp, versions>>
    BY <1>0, <1>7 DEF TakesLock
  <2>2. \A q \in Recorders : step[q] \notin {"write", "sync", "rename", "directory", "clean"}
    BY <2>1, CallersAssumption
  <2> QED
    BY <2>1, <2>2
<1>8. ASSUME NEW r \in Recorders, WritesTemp(r) PROVE FileInv'
  <2>1. /\ \A q \in Recorders : step'[q] = IF q = r THEN "sync" ELSE step[q]
        /\ step[r] = "write" /\ UNCHANGED <<lock, temp, versions>>
    BY <1>0, <1>8 DEF WritesTemp
  <2> QED
    BY <2>1
<1>9. ASSUME NEW r \in Recorders, SyncsTemp(r) PROVE FileInv'
  <2>1. /\ \A q \in Recorders : step'[q] = IF q = r THEN "rename" ELSE step[q]
        /\ \A q \in Recorders \ {r} : temp'[q] = temp[q]
        /\ temp'[r].synced
        /\ step[r] = "sync" /\ UNCHANGED <<lock, versions>>
    BY <1>0, <1>9 DEF SyncsTemp
  <2> QED
    BY <2>1
<1>10. ASSUME NEW r \in Recorders, Renames(r) PROVE FileInv'
  <2>1. /\ \A q \in Recorders : step'[q] = IF q = r THEN "directory" ELSE step[q]
        /\ step[r] = "rename" /\ UNCHANGED <<lock, temp>>
        /\ versions' = Append(versions, [file |-> File(r), synced |-> temp[r].synced])
    BY <1>0, <1>10 DEF Renames
  <2>2. /\ Len(versions') = Len(versions) + 1 /\ Len(versions) \in Nat
        /\ DOMAIN versions = 1..Len(versions) /\ DOMAIN versions' = 1..(Len(versions) + 1)
        /\ \A i \in DOMAIN versions : versions'[i] = versions[i]
        /\ versions'[Len(versions) + 1] = [file |-> File(r), synced |-> temp[r].synced]
    BY <2>1, PathType, AppendProperties DEF CassetteTypeOK
  <2>3. \A q \in Recorders \ {r} : step[q] \notin {"directory", "clean"}
    BY <2>1
  <2>4. File(r) # Torn
    BY CallersAssumption DEF Torn
  <2>5. \A i \in DOMAIN versions' : versions'[i].synced /\ versions'[i].file # Torn
    <3>1. \A i \in DOMAIN versions' : i \in DOMAIN versions \/ i = Len(versions) + 1
      BY <2>2
    <3>2. temp[r].synced
      BY <2>1
    <3> QED
      BY <2>2, <2>4, <3>1, <3>2
  <2>6. Path' = File(r)
    BY <2>2
  <2> QED
    BY <2>1, <2>3, <2>5, <2>6
<1>11. ASSUME NEW r \in Recorders, SyncsDirectory(r) PROVE FileInv'
  <2>1. /\ \A q \in Recorders : step'[q] = IF q = r THEN "clean" ELSE step[q]
        /\ step[r] = "directory" /\ UNCHANGED <<lock, temp>>
        /\ versions' = <<versions[Len(versions)]>>
    BY <1>0, <1>11 DEF SyncsDirectory
  <2>2. Len(versions') = 1 /\ versions'[1] = versions[Len(versions)] /\ DOMAIN versions' = {1}
    BY <2>1
  <2>3. versions'[1].synced /\ versions'[1].file # Torn /\ Path' = File(r)
    BY <2>1, <2>2, PathType
  <2>4. \A q \in Recorders \ {r} : step[q] \notin {"directory", "clean"}
    BY <2>1
  <2> QED
    BY <2>1, <2>2, <2>3, <2>4
<1>12. CASE PowerLoss
  <2>1. PICK v \in Range(versions) : versions' = <<[v EXCEPT !.file = IF v.synced THEN @ ELSE Torn]>>
    BY <1>12 DEF PowerLoss
  <2>2. PICK i \in DOMAIN versions : v = versions[i]
    BY <2>1 DEF Range
  <2>3. v \in [file : Files \cup {Torn}, synced : BOOLEAN] /\ v.synced /\ v.file # Torn
    BY <2>2, PathType
  <2>4. versions' = <<v>>
    BY <2>1, <2>3
  <2>5. \A j \in DOMAIN versions' : versions'[j] = v
    BY <2>4
  <2>6. \A q \in Recorders : step'[q] = "gone"
    BY <1>12 DEF PowerLoss
  <2> QED
    BY <2>3, <2>5, <2>6
<1>13. CASE Load
  BY <1>1, <1>13 DEF Load
<1>14. CASE UNCHANGED cassetteVars
  BY <1>1, <1>14
<1> QED
  BY <1>2, <1>4, <1>5, <1>6, <1>7, <1>8, <1>9, <1>10, <1>11, <1>12, <1>13, <1>14 DEF CassetteNext

\* What the store sees of the versions: the files alone.
Held == [i \in DOMAIN versions |-> versions[i].file]

\* The versions as the store sees them, after a renaming and after a sync.
LEMMA HeldAppend ==
    ASSUME CassetteTypeOK, NEW v, versions' = Append(versions, v)
    PROVE  /\ Held' = Append(Held, v.file)
           /\ v.file \in {Held'[i] : i \in DOMAIN Held'}
<1> DEFINE n == Len(versions)
<1>1. n \in Nat /\ DOMAIN versions = 1..n
  BY PathType
<1>2. /\ DOMAIN versions' = 1..(n + 1)
      /\ \A i \in 1..n : versions'[i] = versions[i]
      /\ versions'[n + 1] = v
  BY <1>1, AppendProperties DEF CassetteTypeOK
<1> HIDE DEF n
<1>3. Held = [i \in 1..n |-> versions[i].file]
  BY <1>1 DEF Held
<1>4. Held' = [i \in 1..(n + 1) |-> versions'[i].file]
  BY <1>2 DEF Held
<1>5. Held \in Seq({versions[i].file : i \in 1..n} \cup {v.file}) /\ Len(Held) = n
  BY <1>1, <1>3
<1>6. Append(Held, v.file) = [i \in 1..(n + 1) |-> IF i <= n THEN Held[i] ELSE v.file]
  BY <1>1, <1>5
<1>7. \A i \in 1..(n + 1) : Held'[i] = IF i <= n THEN Held[i] ELSE v.file
  <2>1. \A i \in 1..(n + 1) : (i \in 1..n /\ i <= n) \/ (i = n + 1 /\ ~(i <= n))
    BY <1>1
  <2> QED
    BY <1>2, <1>3, <1>4, <2>1
<1>8. Held' = Append(Held, v.file)
  BY <1>4, <1>6, <1>7
<1>9. n + 1 \in DOMAIN Held' /\ Held'[n + 1] = v.file
  BY <1>1, <1>2, <1>4
<1> QED
  BY <1>8, <1>9

LEMMA HeldOne ==
    ASSUME NEW v, versions' = <<v>> PROVE Held' = <<v.file>>
<1>1. DOMAIN versions' = 1..1 /\ versions'[1] = v
  OBVIOUS
<1>2. Held' = [i \in 1..1 |-> v.file]
  BY <1>1 DEF Held
<1> QED
  BY <1>2

\* A step is the installation of a file, a loss of other versions, a confirmation,
\* or nothing to the store.
LEMMA StoreStep ==
    ASSUME CassetteTypeOK, FileInv, [CassetteNext]_cassetteVars PROVE [StoreView!StoreNext]_(StoreView!storeVars)
<1> USE DEF cassetteVars, recorderVars, saveVars, fileVars, playerVars
<1>1. ASSUME UNCHANGED <<versions, kept>> PROVE UNCHANGED StoreView!storeVars
  BY <1>1 DEF StoreView!storeVars
<1>2. ASSUME NEW r \in Recorders, Renames(r) PROVE StoreView!Install
  <2>1. versions' = Append(versions, [file |-> File(r), synced |-> temp[r].synced]) /\ kept' = kept
    BY <1>2 DEF Renames
  <2>2. Held' = Append(Held, File(r)) /\ File(r) \in {Held'[i] : i \in DOMAIN Held'}
    BY <2>1, HeldAppend
  <2>3. File(r) # Torn
    BY CallersAssumption DEF Torn, File
  <2> QED
    BY <2>1, <2>2, <2>3 DEF StoreView!Install, Held
<1>3. ASSUME NEW i \in DOMAIN versions, versions' = <<versions[i]>>, kept' = kept PROVE StoreView!Settle
  <2>1. Held' = <<Held[i]>> /\ DOMAIN Held = DOMAIN versions
    BY <1>3, HeldOne DEF Held
  <2> QED
    BY <1>3, <2>1 DEF StoreView!Settle, Held
<1>4. ASSUME NEW r \in Recorders, SyncsDirectory(r) PROVE StoreView!Settle
  BY <1>3, <1>4, PathType DEF SyncsDirectory
<1>5. ASSUME NEW r \in Recorders, Saved(r) PROVE StoreView!Confirm
  <2>1. Len(versions) = 1 /\ Path = File(r) /\ kept' = File(r) /\ versions' = versions
    BY <1>5 DEF FileInv, Saved
  <2>2. \A i \in DOMAIN versions : versions[i].file = kept'
    BY <2>1, PathType DEF Path
  <2> QED
    BY <2>1, <2>2 DEF StoreView!Confirm
<1>6. CASE PowerLoss
  <2>1. PICK v \in Range(versions) : versions' = <<[v EXCEPT !.file = IF v.synced THEN @ ELSE Torn]>>
    BY <1>6 DEF PowerLoss
  <2>2. PICK i \in DOMAIN versions : v = versions[i]
    BY <2>1 DEF Range
  <2>3. v \in [file : Files \cup {Torn}, synced : BOOLEAN] /\ v.synced
    BY <2>2, PathType DEF FileInv
  <2>4. versions' = <<v>>
    BY <2>1, <2>3
  <2> QED
    <3>1. versions' = <<versions[i]>> /\ kept' = kept
      BY <1>6, <2>2, <2>4 DEF PowerLoss
    <3> QED
      BY <1>3, <3>1 DEF StoreView!StoreNext
<1>7. ASSUME NEW p \in Callers, Runs(p) \/ RunIsLost(p) \/ Plays(p) \/ Records(p) PROVE UNCHANGED StoreView!storeVars
  BY <1>1, <1>7 DEF Runs, RunIsLost, Plays, Records
<1>8. ASSUME NEW r \in Recorders, Save(r) \/ DropRecorder(r) \/ TakesLock(r) \/ WritesTemp(r)
                                 \/ SyncsTemp(r) \/ SaveFails(r) \/ Crash(r)
      PROVE  UNCHANGED StoreView!storeVars
  BY <1>1, <1>8 DEF Save, DropRecorder, TakesLock, WritesTemp, SyncsTemp, SaveFails, Crash
<1>9. CASE Load
  BY <1>1, <1>9 DEF Load
<1>10. CASE UNCHANGED cassetteVars
  BY <1>1, <1>10
<1> QED
  BY <1>2, <1>4, <1>5, <1>6, <1>7, <1>8, <1>9, <1>10 DEF CassetteNext, StoreView!StoreNext

\* At first the path holds no file, and that is what is kept.
LEMMA StoreStart == CassetteInit => StoreView!StoreInit
<1> SUFFICES ASSUME CassetteInit PROVE StoreView!StoreInit
  OBVIOUS
<1>1. versions = <<[file |-> NoFile, synced |-> TRUE]>> /\ kept = NoFile
  BY DEF CassetteInit
<1>2. Held = <<NoFile>>
  <2>1. DOMAIN versions = 1..1 /\ versions[1].file = NoFile
    BY <1>1
  <2>2. Held = [i \in 1..1 |-> NoFile]
    BY <2>1 DEF Held
  <2> QED
    BY <2>2
<1>3. NoFile # Torn
  BY CallersAssumption DEF NoFile, Torn
<1> QED
  BY <1>1, <1>2, <1>3 DEF StoreView!StoreInit, Held

-----------------------------------------------------------------------------
(* The order of entries.                                                     *)

\* The entries of a caller up to a position are finitely many.
LEMMA EarlierFinite ==
    ASSUME NEW es, NEW p, NEW i \in Nat
    PROVE  /\ IsFiniteSet(EarlierOf(es, p, i)) /\ Cardinality(EarlierOf(es, p, i)) \in Nat
<1>1. IsFiniteSet(1..i)
  <2>1. i \in Int /\ 1 \in Int
    OBVIOUS
  <2> QED
    BY ONLY <2>1, FS_Interval
<1>2. EarlierOf(es, p, i) \in SUBSET (1..i)
  BY DEF EarlierOf
<1> QED
  BY <1>1, <1>2, FS_Subset, FS_CardinalityType

\* A caller has one entry more up to each of its own.
LEMMA EarlierGrows ==
    ASSUME NEW es, NEW p, NEW i \in Nat \ {0}
    PROVE  Cardinality(EarlierOf(es, p, i)) =
             IF es[i].by = p THEN Cardinality(EarlierOf(es, p, i - 1)) + 1
             ELSE Cardinality(EarlierOf(es, p, i - 1))
<1>1. /\ i - 1 \in Nat
      /\ \A j : j \in 1..i <=> j \in 1..(i - 1) \/ j = i
      /\ i \notin 1..(i - 1)
  OBVIOUS
<1>2. IsFiniteSet(EarlierOf(es, p, i - 1))
  BY <1>1, EarlierFinite
<1>3. CASE es[i].by = p
  <2>1. EarlierOf(es, p, i) = EarlierOf(es, p, i - 1) \cup {i} /\ i \notin EarlierOf(es, p, i - 1)
    BY <1>1, <1>3 DEF EarlierOf
  <2> QED
    BY <1>2, <1>3, <2>1, FS_AddElement
<1>4. CASE es[i].by # p
  <2>1. EarlierOf(es, p, i) = EarlierOf(es, p, i - 1)
    BY <1>1, <1>4 DEF EarlierOf
  <2> QED
    BY <1>4, <2>1
<1> QED
  BY <1>3, <1>4

\* An entry with its caller's next number, under its key, keeps the order.
LEMMA OrderlyAppend ==
    ASSUME policy \in [record : BOOLEAN, replay : BOOLEAN],
           NEW es \in Seq(Entry), Orderly(es), NEW e \in Entry,
           e.key = KeyOf(e.by, policy.record),
           e.run = Cardinality(EarlierOf(es, e.by, Len(es))) + 1
    PROVE  /\ Orderly(Append(es, e))
           /\ \A p \in Callers :
                Cardinality(EarlierOf(Append(es, e), p, Len(Append(es, e)))) =
                  IF p = e.by THEN Cardinality(EarlierOf(es, p, Len(es))) + 1
                  ELSE Cardinality(EarlierOf(es, p, Len(es)))
<1> DEFINE n == Len(es)
           t == Append(es, e)
<1>1. /\ n \in Nat /\ DOMAIN es = 1..n /\ Len(t) = n + 1 /\ DOMAIN t = 1..(n + 1)
      /\ t[n + 1] = e
      /\ \A i \in 1..n : t[i] = es[i]
  BY AppendProperties, LenProperties
<1> HIDE DEF n, t
<1>2. ASSUME NEW p, NEW i \in Nat, i <= n PROVE EarlierOf(t, p, i) = EarlierOf(es, p, i)
  <2>1. \A j \in 1..i : j \in 1..n
    BY <1>1, <1>2
  <2> QED
    BY <1>1, <2>1 DEF EarlierOf
<1>3. n <= n /\ n + 1 \in Nat \ {0} /\ (n + 1) - 1 = n
  BY <1>1
<1>4. ASSUME NEW p PROVE Cardinality(EarlierOf(t, p, n + 1)) =
                           IF p = e.by THEN Cardinality(EarlierOf(es, p, n)) + 1
                           ELSE Cardinality(EarlierOf(es, p, n))
  <2>1. Cardinality(EarlierOf(t, p, n + 1)) =
             IF t[n + 1].by = p THEN Cardinality(EarlierOf(t, p, n)) + 1
             ELSE Cardinality(EarlierOf(t, p, n))
    BY <1>3, EarlierGrows
  <2>2. EarlierOf(t, p, n) = EarlierOf(es, p, n)
    BY <1>1, <1>2, <1>3
  <2> QED
    BY <1>1, <2>1, <2>2
<1>5. ASSUME NEW i \in DOMAIN t
      PROVE  t[i].key = KeyOf(t[i].by, policy.record) /\ t[i].run = Cardinality(EarlierOf(t, t[i].by, i))
  <2>1. CASE i \in 1..n
    <3>1. i \in Nat /\ i <= n /\ t[i] = es[i] /\ i \in DOMAIN es
      BY <1>1, <2>1
    <3>2. EarlierOf(t, t[i].by, i) = EarlierOf(es, es[i].by, i)
      BY <1>2, <3>1
    <3> QED
      BY <3>1, <3>2 DEF Orderly
  <2>2. CASE i = n + 1
    BY <1>1, <1>4, <2>2 DEF n
  <2> QED
    BY <1>1, <2>1, <2>2
<1>6. Orderly(t)
  BY <1>5 DEF Orderly
<1> QED
  BY <1>1, <1>4, <1>6 DEF n, t

\* What is orderly stays so, since the policy does not change.
LEMMA OrderlyStays ==
    ASSUME [CassetteNext]_cassetteVars
    PROVE  policy' = policy
  BY DEF CassetteNext, cassetteVars, Runs, Records, RunIsLost, Plays, Save, DropRecorder, TakesLock,
         WritesTemp, SyncsTemp, Renames, SyncsDirectory, Saved, SaveFails, Crash, Load, PowerLoss

\* Entries are recorded in their callers' order, and every copy keeps it.
LEMMA OrderStep ==
    ASSUME CassetteTypeOK, OrderInv, [CassetteNext]_cassetteVars PROVE OrderInv'
<1> USE DEF cassetteVars, recorderVars, saveVars, fileVars, playerVars
<1>0. /\ recorded \in [Recorders -> Seq(Entry)] /\ seen \in [Callers -> Nat]
      /\ temp \in [Recorders -> [entries : Seq(Entry), synced : BOOLEAN]]
      /\ policy \in [record : BOOLEAN, replay : BOOLEAN]
  BY DEF CassetteTypeOK
<1>p. policy' = policy
  BY OrderlyStays
<1> DEFINE Good(es) == \A i \in DOMAIN es : /\ es[i].key = KeyOf(es[i].by, policy.record)
                                            /\ es[i].run = Cardinality(EarlierOf(es, es[i].by, i))
           RecordedOK == /\ \A r \in Recorders : Good(recorded'[r])
                         /\ \A p \in Callers :
                              seen'[p] = Cardinality(EarlierOf(recorded'[Home[p]], p, Len(recorded'[Home[p]])))
           TempOK == \A r \in Recorders : Good(temp'[r].entries)
           VersionsOK == \A i \in DOMAIN versions' : versions'[i].file # Torn => Good(versions'[i].file.entries)
           TapeOK == tape' # None => Good(tape')
<1>1. SUFFICES RecordedOK /\ TempOK /\ VersionsOK /\ TapeOK
  BY <1>p DEF OrderInv, Orderly, KeyOf, EarlierOf, Torn
<1>2. /\ \A r \in Recorders : Good(recorded[r]) /\ Good(temp[r].entries)
      /\ \A p \in Callers :
           seen[p] = Cardinality(EarlierOf(recorded[Home[p]], p, Len(recorded[Home[p]])))
      /\ \A i \in DOMAIN versions : versions[i].file # Torn => Good(versions[i].file.entries)
      /\ tape # None => Good(tape)
  BY DEF OrderInv, Orderly
<1>3. \A es : Good(es) <=> Orderly(es)
  BY DEF Orderly
<1> HIDE DEF Good
<1>4. UNCHANGED <<recorded, seen>> => RecordedOK
  BY <1>2
<1>5. UNCHANGED temp => TempOK
  BY <1>2
<1>6. UNCHANGED versions => VersionsOK
  BY <1>2
<1>7. UNCHANGED tape => TapeOK
  BY <1>2
<1>8. ASSUME NEW p \in Callers, Records(p) PROVE RecordedOK
  <2> DEFINE h == Home[p]
             e == [key |-> KeyOf(p, policy.record), by |-> p, run |-> seen[p] + 1]
  <2>1. /\ h \in Recorders /\ e \in Entry
        /\ e.key = KeyOf(e.by, policy.record) /\ e.by = p
        /\ e.run = Cardinality(EarlierOf(recorded[h], e.by, Len(recorded[h]))) + 1
    BY <1>0, <1>2, KeyType, CallersAssumption DEF Entry
  <2>2. /\ recorded'[h] = Append(recorded[h], e)
        /\ \A r \in Recorders \ {h} : recorded'[r] = recorded[r]
        /\ \A q \in Callers : seen'[q] = IF q = p THEN seen[p] + 1 ELSE seen[q]
    BY <1>0, <1>8, <2>1 DEF Records
  <2>3. recorded[h] \in Seq(Entry) /\ Orderly(recorded[h])
    BY <1>0, <1>2, <1>3, <2>1
  <2> HIDE DEF h, e
  <2>4. /\ Orderly(Append(recorded[h], e))
        /\ \A q \in Callers :
             Cardinality(EarlierOf(Append(recorded[h], e), q, Len(Append(recorded[h], e)))) =
               IF q = e.by THEN Cardinality(EarlierOf(recorded[h], q, Len(recorded[h]))) + 1
               ELSE Cardinality(EarlierOf(recorded[h], q, Len(recorded[h])))
    BY <1>0, <2>1, <2>3, OrderlyAppend
  <2>5. \A r \in Recorders : Good(recorded'[r])
    BY <1>2, <1>3, <2>2, <2>4
  <2>6. ASSUME NEW q \in Callers
        PROVE  seen'[q] = Cardinality(EarlierOf(recorded'[Home[q]], q, Len(recorded'[Home[q]])))
    <3>1. Home[q] \in Recorders
      BY CallersAssumption
    <3>2. CASE Home[q] = h
      <4>1. seen[q] = Cardinality(EarlierOf(recorded[h], q, Len(recorded[h])))
        BY <1>2, <3>2
      <4>2. recorded'[Home[q]] = Append(recorded[h], e)
        BY <2>2, <3>2
      <4>3. seen'[q] = IF q = e.by THEN seen[q] + 1 ELSE seen[q]
        BY <2>1, <2>2
      <4> QED
        BY <2>4, <4>1, <4>2, <4>3
    <3>3. CASE Home[q] # h
      <4>1. q # p
        BY <3>3 DEF h
      <4> QED
        BY <1>2, <2>2, <3>1, <3>3, <4>1
    <3> QED
      BY <3>2, <3>3
  <2> QED
    BY <2>5, <2>6
<1>9. ASSUME NEW r \in Recorders, Clones(r) PROVE TempOK
  <2>1. \A q \in Recorders : temp'[q].entries = IF q = r THEN recorded[r] ELSE temp[q].entries
    BY <1>0, <1>9 DEF Clones
  <2> QED
    BY <1>2, <2>1
<1>10. ASSUME NEW r \in Recorders, SyncsTemp(r) PROVE TempOK
  <2>1. \A q \in Recorders : temp'[q].entries = temp[q].entries
    BY <1>0, <1>10 DEF SyncsTemp
  <2> QED
    BY <1>2, <2>1
<1>11. ASSUME NEW r \in Recorders, Renames(r) PROVE VersionsOK
  <2>1. versions' = Append(versions, [file |-> File(r), synced |-> temp[r].synced])
    BY <1>11 DEF Renames
  <2>2. /\ DOMAIN versions = 1..Len(versions) /\ DOMAIN versions' = 1..(Len(versions) + 1)
        /\ \A i \in DOMAIN versions : versions'[i] = versions[i]
        /\ versions'[Len(versions) + 1] = [file |-> File(r), synced |-> temp[r].synced]
        /\ Len(versions) \in Nat
    BY <2>1, PathType, AppendProperties DEF CassetteTypeOK
  <2>3. versions'[Len(versions) + 1].file.entries = temp[r].entries
    BY <2>2 DEF File
  <2>4. \A i \in DOMAIN versions' : i \in DOMAIN versions \/ i = Len(versions) + 1
    BY <2>2
  <2> QED
    BY <1>2, <2>2, <2>3, <2>4
<1>12. ASSUME NEW r \in Recorders, SyncsDirectory(r) PROVE VersionsOK
  <2>1. versions' = <<versions[Len(versions)]>> /\ Len(versions) \in DOMAIN versions
    BY <1>12, PathType DEF SyncsDirectory
  <2>2. \A i \in DOMAIN versions' : versions'[i] = versions[Len(versions)]
    BY <2>1
  <2> QED
    BY <1>2, <2>1, <2>2
<1>13. CASE PowerLoss
  <2>1. PICK v \in Range(versions) : versions' = <<[v EXCEPT !.file = IF v.synced THEN @ ELSE Torn]>>
    BY <1>13 DEF PowerLoss
  <2>2. PICK i \in DOMAIN versions : v = versions[i]
    BY <2>1 DEF Range
  <2>3. v \in [file : Files \cup {Torn}, synced : BOOLEAN]
    BY <2>2, PathType
  <2>4. \A j \in DOMAIN versions' : versions'[j].file = v.file \/ versions'[j].file = Torn
    BY <2>1, <2>3
  <2>5. VersionsOK
    BY <1>2, <2>2, <2>4
  <2>6. RecordedOK /\ TempOK
    BY <1>4, <1>5, <1>13 DEF PowerLoss
  <2>7. TapeOK
    BY <1>13 DEF PowerLoss
  <2> QED
    BY <2>5, <2>6, <2>7
<1>14. CASE Load
  <2>1. Path # Torn /\ tape' = Path.entries /\ Len(versions) \in DOMAIN versions
    BY <1>14, PathType DEF Load
  <2>2. TapeOK
    BY <1>2, <2>1 DEF Path
  <2>3. UNCHANGED <<recorded, seen, temp, versions>>
    BY <1>14 DEF Load
  <2> QED
    BY <1>4, <1>5, <1>6, <2>2, <2>3
<1> HIDE DEF RecordedOK, TempOK, VersionsOK, TapeOK
<1>15. ASSUME NEW p \in Callers, Runs(p) \/ RunIsLost(p) \/ Plays(p)
       PROVE  RecordedOK /\ TempOK /\ VersionsOK /\ TapeOK
  BY <1>4, <1>5, <1>6, <1>7, <1>15 DEF Runs, RunIsLost, Plays
<1>16. ASSUME NEW p \in Callers, Records(p) PROVE RecordedOK /\ TempOK /\ VersionsOK /\ TapeOK
  BY <1>5, <1>6, <1>7, <1>8, <1>16 DEF Records
<1>17. ASSUME NEW r \in Recorders, Save(r) \/ DropRecorder(r) PROVE RecordedOK /\ TempOK /\ VersionsOK /\ TapeOK
  BY <1>4, <1>5, <1>6, <1>7, <1>9, <1>17 DEF Save, DropRecorder
<1>18. ASSUME NEW r \in Recorders, SyncsTemp(r) PROVE RecordedOK /\ TempOK /\ VersionsOK /\ TapeOK
  BY <1>4, <1>6, <1>7, <1>10, <1>18 DEF SyncsTemp
<1>19. ASSUME NEW r \in Recorders, Renames(r) \/ SyncsDirectory(r) PROVE RecordedOK /\ TempOK /\ VersionsOK /\ TapeOK
  BY <1>4, <1>5, <1>7, <1>11, <1>12, <1>19 DEF Renames, SyncsDirectory
<1>20. ASSUME NEW r \in Recorders, TakesLock(r) \/ WritesTemp(r) \/ Saved(r) \/ SaveFails(r) \/ Crash(r)
       PROVE  RecordedOK /\ TempOK /\ VersionsOK /\ TapeOK
  BY <1>4, <1>5, <1>6, <1>7, <1>20 DEF TakesLock, WritesTemp, Saved, SaveFails, Crash
<1>21. CASE UNCHANGED cassetteVars
  BY <1>4, <1>5, <1>6, <1>7, <1>21
<1> QED
  BY <1>13, <1>14, <1>15, <1>16, <1>17, <1>18, <1>19, <1>20, <1>21 DEF CassetteNext

-----------------------------------------------------------------------------
(* Replaying.                                                                *)

Mine(p) == {f \in Range(tape) : f.by = p}

\* Keys that agree are of one command, and of one directory if either has one.
LEMMA KeysAgree ==
    ASSUME NEW q \in Callers, NEW p \in Callers, NEW c \in BOOLEAN, NEW d \in BOOLEAN,
           KeyOf(q, c) = KeyOf(p, d)
    PROVE  Command[q] = Command[p] /\ (c \/ d => Cwd[q] = Cwd[p])
  BY CallersAssumption DEF KeyOf

\* The slot of a caller whose key is its own holds its entries and no others.
LEMMA SlotIsMine ==
    ASSUME CassetteTypeOK, tape # None, Orderly(tape), policy.record = policy.replay,
           NEW p \in Callers, OthersOf(p) = {}
    PROVE  /\ Slot(KeyOf(p, policy.replay)) = {i \in DOMAIN tape : tape[i].by = p}
           /\ Cardinality(Mine(p)) = Cardinality(Slot(KeyOf(p, policy.replay)))
           /\ Mine(p) = {} <=> Slot(KeyOf(p, policy.replay)) = {}
<1> DEFINE k == KeyOf(p, policy.replay)
           n == Len(tape)
<1>1. /\ n \in Nat /\ DOMAIN tape = 1..n
      /\ \A i \in 1..n : tape[i] \in Entry
  <2>1. tape \in Seq(Entry)
    BY DEF CassetteTypeOK
  <2> QED
    BY <2>1, LenProperties, ElementOfSeq
<1>2. \A i \in 1..n : /\ tape[i].by \in Callers
                      /\ tape[i].key = KeyOf(tape[i].by, policy.record)
                      /\ tape[i].run = Cardinality(EarlierOf(tape, tape[i].by, i))
  BY <1>1 DEF Orderly, Entry
<1>3. \A i \in DOMAIN tape : tape[i].key = k <=> tape[i].by = p
  BY <1>1, <1>2 DEF OthersOf
<1>4. Slot(k) = {i \in DOMAIN tape : tape[i].by = p}
  BY <1>3 DEF Slot
<1> HIDE DEF k, n
<1>5. IsFiniteSet(Slot(k))
  <2>1. IsFiniteSet(1..n)
    <3>1. n \in Int /\ 1 \in Int
      BY <1>1
    <3> QED
      BY ONLY <3>1, FS_Interval
  <2>2. Slot(k) \in SUBSET (1..n)
    BY <1>1, <1>4
  <2> QED
    BY <2>1, <2>2, FS_Subset
<1>6. ASSUME NEW i \in Slot(k), NEW j \in Slot(k), i < j PROVE tape[i] # tape[j]
  <2>1. i \in 1..n /\ j \in 1..n /\ tape[i].by = p /\ tape[j].by = p
    BY <1>1, <1>4
  <2>2. /\ EarlierOf(tape, p, i) \in SUBSET EarlierOf(tape, p, j)
        /\ j \in EarlierOf(tape, p, j) /\ j \notin EarlierOf(tape, p, i)
    BY <1>6, <2>1 DEF EarlierOf
  <2>3. IsFiniteSet(EarlierOf(tape, p, j))
    BY <2>1, EarlierFinite
  <2>4. Cardinality(EarlierOf(tape, p, i)) # Cardinality(EarlierOf(tape, p, j))
    BY <2>2, <2>3, FS_Subset
  <2> QED
    BY <1>2, <2>1, <2>4
<1>7. ASSUME NEW i \in Slot(k), NEW j \in Slot(k), tape[i] = tape[j] PROVE i = j
  <2>1. i \in Nat /\ j \in Nat
    BY <1>1, <1>4
  <2>2. i < j \/ j < i \/ i = j
    BY <2>1
  <2> QED
    BY <1>6, <1>7, <2>2
<1>8. Mine(p) = {tape[i] : i \in Slot(k)}
  BY <1>1, <1>4 DEF Mine, Range
<1>9. ExistsBijection(Slot(k), Mine(p))
  <2> DEFINE f == [i \in Slot(k) |-> tape[i]]
  <2>1. f \in [Slot(k) -> Mine(p)]
    BY <1>8
  <2>2. \A i, j \in Slot(k) : f[i] = f[j] => i = j
    BY <1>7
  <2>3. \A m \in Mine(p) : \E i \in Slot(k) : f[i] = m
    BY <1>8
  <2> HIDE DEF f
  <2>4. f \in Bijection(Slot(k), Mine(p))
    BY <2>1, <2>2, <2>3 DEF Bijection, Injection, Surjection, IsInjective
  <2> QED
    BY <2>4 DEF ExistsBijection
<1>10. Cardinality(Mine(p)) = Cardinality(Slot(k))
  BY <1>5, <1>9, FS_Bijection
<1>11. Mine(p) = {} <=> Slot(k) = {}
  BY <1>8
<1> QED
  BY <1>4, <1>10, <1>11 DEF k

\* What ReplayAgrees says of one answer e, the n-th that p was served.
Agrees(p, n, e) ==
  /\ e # None => /\ Command[e.by] = Command[p]
                 /\ policy.record \/ policy.replay => Cwd[e.by] = Cwd[p]
  /\ policy.record = policy.replay /\ OthersOf(p) = {} =>
       IF Mine(p) = {} THEN e = None
       ELSE e.by = p /\ e.run = (IF n < Cardinality(Mine(p)) THEN n ELSE Cardinality(Mine(p)))

LEMMA ReplayAgreesAll ==
    ReplayAgrees <=> \A p \in Callers : \A n \in 1..Len(replayed[p]) : Agrees(p, n, replayed[p][n])
  BY DEF ReplayAgrees, Agrees, Mine

\* An answer from the slot agrees.
LEMMA HitAgrees ==
    ASSUME CassetteTypeOK, OrderInv, PlayInv, tape # None, NEW p \in Callers,
           Slot(KeyOf(p, policy.replay)) # {}
    PROVE  Agrees(p, Len(replayed[p]) + 1, Played(KeyOf(p, policy.replay)))
<1> DEFINE k == KeyOf(p, policy.replay)
           n == Len(replayed[p])
<1>1. k \in Keys /\ policy.record \in BOOLEAN /\ policy.replay \in BOOLEAN
  BY KeyType DEF CassetteTypeOK
<1>2. PICK i \in Slot(k) :
        /\ Played(k) = tape[i]
        /\ Cardinality({j \in Slot(k) : j <= i}) =
             IF cursors[k] < Cardinality(Slot(k)) THEN cursors[k] + 1 ELSE Cardinality(Slot(k))
  BY <1>1, PlayedFound
<1>3. /\ Orderly(tape) /\ i \in DOMAIN tape /\ tape[i].key = k
      /\ Len(tape) \in Nat /\ DOMAIN tape = 1..Len(tape)
  BY <1>2, LenProperties DEF OrderInv, Slot, CassetteTypeOK
<1>4. tape[i].by \in Callers /\ tape[i].key = KeyOf(tape[i].by, policy.record)
      /\ tape[i].run = Cardinality(EarlierOf(tape, tape[i].by, i))
  <2>1. tape[i] \in Entry
    BY <1>3, ElementOfSeq DEF CassetteTypeOK
  <2> QED
    BY <1>3, <2>1 DEF Orderly, Entry
<1>5. Command[tape[i].by] = Command[p] /\ (policy.record \/ policy.replay => Cwd[tape[i].by] = Cwd[p])
  <2>1. KeyOf(tape[i].by, policy.record) = KeyOf(p, policy.replay)
    BY <1>3, <1>4
  <2> HIDE DEF k
  <2> QED
    BY <1>1, <1>4, <2>1, KeysAgree
<1>6. ASSUME policy.record = policy.replay, OthersOf(p) = {}
      PROVE  /\ Mine(p) # {} /\ tape[i].by = p
             /\ tape[i].run = IF n + 1 < Cardinality(Mine(p)) THEN n + 1 ELSE Cardinality(Mine(p))
  <2>1. /\ Slot(k) = {j \in DOMAIN tape : tape[j].by = p}
        /\ Cardinality(Mine(p)) = Cardinality(Slot(k))
        /\ Mine(p) # {}
    BY <1>3, <1>6, SlotIsMine
  <2>2. tape[i].by = p
    BY <1>2, <2>1
  <2>3. cursors[k] = n
    BY <1>6 DEF PlayInv
  <2>4. EarlierOf(tape, p, i) = {j \in Slot(k) : j <= i}
    <3>1. \A j : j \in 1..i <=> j \in DOMAIN tape /\ j <= i
      BY <1>3
    <3> QED
      BY <2>1, <3>1 DEF EarlierOf
  <2>5. tape[i].run = IF n < Cardinality(Slot(k)) THEN n + 1 ELSE Cardinality(Slot(k))
    BY <1>2, <1>4, <2>2, <2>3, <2>4
  <2>6. n \in Nat /\ Cardinality(Slot(k)) \in Nat
    <3>1. IsFiniteSet(DOMAIN tape)
      <4>1. Len(tape) \in Int /\ 1 \in Int
        BY <1>3
      <4>2. IsFiniteSet(1..Len(tape))
        BY ONLY <4>1, FS_Interval
      <4> QED
        BY <1>3, <4>2
    <3>2. Slot(k) \in SUBSET DOMAIN tape
      BY DEF Slot
    <3>3. n \in Nat
      BY LenProperties DEF CassetteTypeOK
    <3> QED
      BY <3>1, <3>2, <3>3, FS_Subset, FS_CardinalityType
  <2>7. (IF n < Cardinality(Slot(k)) THEN n + 1 ELSE Cardinality(Slot(k)))
          = IF n + 1 < Cardinality(Slot(k)) THEN n + 1 ELSE Cardinality(Slot(k))
    BY <2>6
  <2> QED
    BY <2>1, <2>2, <2>5, <2>7
<1> QED
  BY <1>2, <1>5, <1>6 DEF Agrees

\* A miss agrees.
LEMMA MissAgrees ==
    ASSUME CassetteTypeOK, OrderInv, tape # None, NEW p \in Callers,
           Slot(KeyOf(p, policy.replay)) = {}, NEW n
    PROVE  Agrees(p, n, None)
  BY SlotIsMine DEF Agrees, OrderInv

\* Serving a caller extends what it was served by one answer.
LEMMA ServedStep ==
    ASSUME CassetteTypeOK, NEW p \in Callers, NEW e, replayed' = [replayed EXCEPT ![p] = Append(@, e)]
    PROVE  /\ Len(replayed'[p]) = Len(replayed[p]) + 1
           /\ replayed'[p][Len(replayed[p]) + 1] = e
           /\ \A n \in 1..Len(replayed[p]) : replayed'[p][n] = replayed[p][n]
           /\ \A q \in Callers \ {p} : replayed'[q] = replayed[q]
           /\ \A n \in 1..Len(replayed'[p]) : n \in 1..Len(replayed[p]) \/ n = Len(replayed[p]) + 1
<1> DEFINE s == replayed[p]
<1>1. s \in Seq(Entry \cup {None}) /\ replayed'[p] = Append(s, e)
  BY DEF CassetteTypeOK
<1>2. \A q \in Callers \ {p} : replayed'[q] = replayed[q]
  BY DEF CassetteTypeOK
<1> HIDE DEF s
<1>3. s \in Seq((Entry \cup {None}) \cup {e})
  BY <1>1, SeqMonotonic
<1>4. /\ Len(Append(s, e)) = Len(s) + 1 /\ Len(s) \in Nat
      /\ Append(s, e)[Len(s) + 1] = e
      /\ \A n \in 1..Len(s) : Append(s, e)[n] = s[n]
  BY <1>3, AppendProperties, LenProperties
<1>5. \A n \in 1..(Len(s) + 1) : n \in 1..Len(s) \/ n = Len(s) + 1
  BY <1>4
<1> QED
  BY <1>1, <1>2, <1>4, <1>5 DEF s

\* A step that serves nobody keeps what was served, or drops it all with the tape.
LEMMA PlayKept ==
    ASSUME PlayInv, UNCHANGED <<policy, tape, cursors, replayed>> PROVE PlayInv'
<1>1. /\ \A p : OthersOf(p)' = OthersOf(p)
      /\ \A k : Slot(k)' = Slot(k)
      /\ \A p, b : KeyOf(p, b)' = KeyOf(p, b)
  BY DEF OthersOf, Slot, KeyOf
<1> QED
  BY <1>1 DEF PlayInv, ReplayAgrees, KeyOf

\* A call of a replay.
LEMMA PlayStep ==
    ASSUME CassetteTypeOK, OrderInv, PlayInv, NEW p \in Callers, Plays(p) PROVE PlayInv'
<1> DEFINE k == KeyOf(p, policy.replay)
<1>0. /\ policy' = policy /\ tape' = tape /\ tape # None /\ k \in Keys
      /\ policy.record \in BOOLEAN /\ policy.replay \in BOOLEAN
  BY KeyType DEF Plays, playerVars, CassetteTypeOK
<1>1. /\ \A q : OthersOf(q)' = OthersOf(q)
      /\ \A l : Slot(l)' = Slot(l)
      /\ \A q : Mine(q)' = Mine(q)
  BY <1>0 DEF OthersOf, Slot, KeyOf, Mine, Range
<1>2. PICK e : /\ replayed' = [replayed EXCEPT ![p] = Append(@, e)]
               /\ Agrees(p, Len(replayed[p]) + 1, e)
  <2>1. CASE Slot(k) # {}
    <3>1. replayed' = [replayed EXCEPT ![p] = Append(@, Played(k))]
      BY <2>1 DEF Plays
    <3> QED
      BY <1>0, <2>1, <3>1, HitAgrees
  <2>2. CASE Slot(k) = {}
    <3>1. replayed' = [replayed EXCEPT ![p] = Append(@, None)]
      BY <2>2 DEF Plays
    <3> QED
      BY <1>0, <2>2, <3>1, MissAgrees
  <2> QED
    BY <2>1, <2>2
<1>3. /\ Len(replayed'[p]) = Len(replayed[p]) + 1
      /\ replayed'[p][Len(replayed[p]) + 1] = e
      /\ \A n \in 1..Len(replayed[p]) : replayed'[p][n] = replayed[p][n]
      /\ \A q \in Callers \ {p} : replayed'[q] = replayed[q]
      /\ \A n \in 1..Len(replayed'[p]) : n \in 1..Len(replayed[p]) \/ n = Len(replayed[p]) + 1
  BY <1>2, ServedStep
<1> HIDE DEF k
<1>4. ASSUME NEW q \in Callers, NEW n \in 1..Len(replayed'[q]) PROVE Agrees(q, n, replayed'[q][n])
  <2>1. \A r \in Callers : \A m \in 1..Len(replayed[r]) : Agrees(r, m, replayed[r][m])
    BY ReplayAgreesAll DEF PlayInv
  <2>2. CASE q # p
    BY <1>3, <1>4, <2>1, <2>2
  <2>3. CASE q = p /\ n \in 1..Len(replayed[p])
    BY <1>3, <2>1, <2>3
  <2>4. CASE q = p /\ n = Len(replayed[p]) + 1
    BY <1>2, <1>3, <2>4
  <2> QED
    BY <1>3, <1>4, <2>2, <2>3, <2>4
<1>5. ReplayAgrees'
  BY <1>0, <1>1, <1>4 DEF ReplayAgrees, Agrees, Mine
<1>6. ASSUME NEW q \in Callers, policy.record = policy.replay, OthersOf(q) = {},
             Slot(KeyOf(q, policy.replay)) # {}
      PROVE  cursors'[KeyOf(q, policy.replay)] = Len(replayed'[q])
  <2>1. cursors[KeyOf(q, policy.replay)] = Len(replayed[q])
    BY <1>0, <1>6 DEF PlayInv
  <2>2. KeyOf(q, policy.replay) \in Keys /\ cursors \in [Keys -> Nat]
    BY <1>0, KeyType DEF CassetteTypeOK
  <2>3. CASE q = p
    <3>1. cursors' = [cursors EXCEPT ![k] = @ + 1]
      BY <1>6, <2>3 DEF Plays, k
    <3>2. cursors'[k] = cursors[k] + 1
      BY <1>0, <2>2, <3>1
    <3> QED
      BY <1>3, <2>1, <2>3, <3>2 DEF k
  <2>4. CASE q # p
    <3>1. KeyOf(q, policy.replay) # k
      BY <1>6, <2>4 DEF OthersOf, k
    <3>2. cursors' = cursors \/ cursors' = [cursors EXCEPT ![k] = @ + 1]
      BY DEF Plays, k
    <3>3. cursors'[KeyOf(q, policy.replay)] = cursors[KeyOf(q, policy.replay)]
      BY <2>2, <3>1, <3>2
    <3> QED
      BY <1>3, <2>1, <2>4, <3>3
  <2> QED
    BY <2>3, <2>4
<1>7. \A q : KeyOf(q, policy.replay)' = KeyOf(q, policy.replay)
  BY <1>0 DEF KeyOf
<1> QED
  BY <1>0, <1>1, <1>5, <1>6, <1>7 DEF PlayInv

\* What the replay has served and counted stays in step.
LEMMA ReplayStep ==
    ASSUME CassetteTypeOK, OrderInv, PlayInv, [CassetteNext]_cassetteVars PROVE PlayInv'
<1> USE DEF cassetteVars, recorderVars, saveVars, fileVars, playerVars
<1>1. ASSUME NEW p \in Callers, Plays(p) PROVE PlayInv'
  BY <1>1, PlayStep
<1>2. ASSUME NEW p \in Callers, Runs(p) \/ Records(p) \/ RunIsLost(p) PROVE PlayInv'
  BY <1>2, PlayKept DEF Runs, Records, RunIsLost
<1>3. ASSUME NEW r \in Recorders, Save(r) \/ DropRecorder(r) \/ TakesLock(r) \/ WritesTemp(r) \/ SyncsTemp(r)
      PROVE  PlayInv'
  BY <1>3, PlayKept DEF Save, DropRecorder, TakesLock, WritesTemp, SyncsTemp
<1>4. ASSUME NEW r \in Recorders, Renames(r) \/ SyncsDirectory(r) \/ Saved(r) \/ SaveFails(r) \/ Crash(r)
      PROVE  PlayInv'
  BY <1>4, PlayKept DEF Renames, SyncsDirectory, Saved, SaveFails, Crash
<1>5. ASSUME \A q \in Callers : replayed'[q] = <<>>, \A k \in Keys : cursors'[k] = 0, policy' = policy
      PROVE  PlayInv'
  <2>1. \A q \in Callers : Len(replayed'[q]) = 0 /\ 1..Len(replayed'[q]) = {}
    BY <1>5
  <2>2. \A q \in Callers : KeyOf(q, policy.replay)' \in Keys
    BY <1>5, KeyType DEF KeyOf, CassetteTypeOK
  <2> QED
    BY <1>5, <2>1, <2>2 DEF PlayInv, ReplayAgrees
<1>6. CASE Load
  BY <1>5, <1>6 DEF Load, PlayInv
<1>7. CASE PowerLoss
  BY <1>5, <1>7 DEF PowerLoss
<1>8. CASE UNCHANGED cassetteVars
  BY <1>8, PlayKept
<1> QED
  BY <1>1, <1>2, <1>3, <1>4, <1>6, <1>7, <1>8 DEF CassetteNext

-----------------------------------------------------------------------------
(* The theorems.                                                             *)

LEMMA CassetteStart == CassetteInit => CassetteInv
<1> SUFFICES ASSUME CassetteInit PROVE CassetteInv
  OBVIOUS
<1>1. CassetteTypeOK
  BY CassetteTypeInit
<1>2. CloneInv
  BY CallersAssumption DEF CassetteInit, CloneInv, CleanIsSaved, NoFile
<1>3. versions = <<[file |-> NoFile, synced |-> TRUE]>>
  BY DEF CassetteInit
<1>4. \A i \in DOMAIN versions : versions[i] = [file |-> NoFile, synced |-> TRUE]
  <2>1. DOMAIN versions = 1..1 /\ versions[1] = [file |-> NoFile, synced |-> TRUE]
    BY <1>3
  <2> QED
    BY <2>1
<1>5. NoFile # Torn
  BY CallersAssumption DEF NoFile, Torn
<1>6. FileInv
  BY <1>4, <1>5 DEF CassetteInit, FileInv
<1>7. Orderly(<<>>)
  BY DEF Orderly
<1>8. \A p : Cardinality(EarlierOf(<<>>, p, Len(<<>>))) = 0
  <2>1. 1..Len(<<>>) = {}
    OBVIOUS
  <2> QED
    BY <2>1, FS_EmptySet DEF EarlierOf
<1>9. OrderInv
  BY <1>4, <1>7, <1>8, CallersAssumption DEF CassetteInit, OrderInv, NoFile
<1>10. PlayInv
  <2>1. \A p \in Callers : replayed[p] = <<>> /\ 1..Len(replayed[p]) = {}
    BY DEF CassetteInit
  <2> QED
    BY <2>1 DEF CassetteInit, PlayInv, ReplayAgrees
<1> QED
  BY <1>1, <1>2, <1>6, <1>9, <1>10 DEF CassetteInv

\* The invariant of recorders, files and players holds in every state.
THEOREM CassetteCorrect == CassetteSpec => []CassetteInv
<1>1. CassetteInv /\ [CassetteNext]_cassetteVars => CassetteInv'
  BY CassetteTypeStep, CloneStep, FileStep, OrderStep, ReplayStep DEF CassetteInv
<1> QED
  BY <1>1, CassetteStart, PTL DEF CassetteSpec

\* A recorder that is clean has saved all that was recorded, however runs and
\* saves meet.
THEOREM CleanCorrect == CassetteSpec => []CleanIsSaved
<1>1. CassetteInv => CleanIsSaved
  BY DEF CassetteInv, CloneInv
<1> QED
  BY <1>1, CassetteCorrect, PTL

\* A replay serves each caller its own answers in their order, however many callers
\* there are and however often each runs.
THEOREM ReplayCorrect == CassetteSpec => []ReplayAgrees
<1>1. CassetteInv => ReplayAgrees
  BY DEF CassetteInv, PlayInv
<1> QED
  BY <1>1, CassetteCorrect, PTL

\* Any number of recorders save atomically and durably, whatever fails or dies at
\* whichever step.
THEOREM StoreCorrect == CassetteSpec => ImplementsStore
<1>1. CassetteInv /\ [CassetteNext]_cassetteVars => [StoreView!StoreNext]_(StoreView!storeVars)
  BY StoreStep DEF CassetteInv
<1> QED
  BY <1>1, StoreStart, CassetteCorrect, PTL DEF CassetteSpec, ImplementsStore, StoreView!StoreSpec

=============================================================================
