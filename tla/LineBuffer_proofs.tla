------------------------- MODULE LineBuffer_proofs -------------------------
(* For any script, policy and prompt: no wake-up of a waiter of SharedLines is *)
(* lost, the argument in the comments of publish_change and changed; a frozen  *)
(* head is a prefix of the output; and, with the invariant about the data, no  *)
(* line reaches the caller twice and a capture is what it says it is.          *)
EXTENDS LineBuffer, FiniteSetTheorems, SequenceTheorems, WellFoundedInduction, TLAPS

Places == {"look", "missed", "enabled", "parked", "done", "gone"}
PumpPlaces == {"read", "split", "retain", "oversized", "lost", "publish", "notify",
               "last", "close", "done"}
FinPlaces == {"live", "join", "collect", "lost", "publish", "notify", "judge", "done"}
Fields == {"lines", "bytes", "seen", "closed", "overflowed", "maxLines", "maxBytes", "mode",
           "discarding", "sealed", "tail", "tailPending", "tailOversized", "tailFinal"}

\* As much typing as the argument needs: what Inner has, and where everybody is.
Typed ==
    /\ DOMAIN inner = Fields /\ inner.mode \in Modes
    /\ generation \in Nat
    /\ at \in [Waiters -> Places] /\ observed \in [Waiters -> Nat]
    /\ pumpAt \in PumpPlaces /\ then \in {"read", "split", "last", "close", "done"}
    /\ fin \in FinPlaces

\* Somebody changed the buffer and has not advanced the generation yet.
Unpublished == pumpAt \in {"lost", "publish"} \/ fin \in {"lost", "publish"}

\* What a waiter saw is no newer than the generation, and if there is something
\* for it since then, it will find a newer generation before it sleeps.
Noticed ==
    \A w \in Waiters :
        /\ observed[w] <= generation
        /\ at[w] \in {"missed", "enabled"} /\ Ready(w)
             => observed[w] < generation \/ Unpublished

WakeInv == Typed /\ Noticed /\ NoLostWakeup

-----------------------------------------------------------------------------
(* What recording a line leaves alone.                                         *)

SameShape(a, b) == DOMAIN b = DOMAIN a /\ b.mode = a.mode

\* Neither a retained nor a skipped line changes the fields or the mode.
LEMMA RecordingKeepsShape ==
    ASSUME NEW in, DOMAIN in = Fields, in.mode \in Modes, NEW line, NEW total
    PROVE  SameShape(in, Retained(in, line, total).inner) /\ SameShape(in, Skipped(in).inner)
<1>1. \A x, l : DOMAIN x = Fields => SameShape(x, Appended(x, l)) /\ SameShape(x, Superseded(x))
  BY DEF SameShape, Appended, Superseded, Fields
<1>2. \A x, k : DOMAIN x = Fields => SameShape(x, Without(x, k))
  BY DEF SameShape, Without, Fields
<1>3. DOMAIN Superseded(in) = Fields /\ Superseded(in).mode = in.mode
  BY <1>1 DEF SameShape
<1>4. SameShape(in, Skipped(in).inner)
  BY <1>3 DEF Skipped, Outcome, SameShape, Fields
<1> DEFINE s == Superseded(in)
<1>5. SameShape(s, ByMode(s, line, total).inner)
  <2>1. CASE s.mode = "Error"
    BY <1>1, <1>3, <2>1 DEF ByMode, Ceiled, Outcome, SameShape, Fields
  <2>2. CASE s.mode = "DropOldest"
    <3>1. SameShape(s, Appended(s, line))
      BY <1>1, <1>3
    <3>2. SameShape(Appended(s, line), Without(Appended(s, line), Evicted(Appended(s, line))))
      BY <1>2, <1>3, <3>1 DEF SameShape
    <3> QED BY <2>2, <3>1, <3>2 DEF ByMode, Rolled, Outcome, SameShape
  <2>3. CASE s.mode = "DropNewest"
    BY <1>1, <1>3, <2>3 DEF ByMode, Headed, Outcome, SameShape, Fields
  <2> QED BY <1>3, <2>1, <2>2, <2>3 DEF Modes
<1> QED BY <1>3, <1>4, <1>5 DEF Retained, Outcome, SameShape

\* Nor does the fold of a tail; with no live tail it does nothing.
LEMMA FoldKeepsShape ==
    ASSUME NEW in, DOMAIN in = Fields, in.mode \in Modes, NEW total
    PROVE  /\ SameShape(in, WithTail(in, total).inner)
           /\ ~HasTail(in) => WithTail(in, total) = Outcome(in, FALSE)
<1> DEFINE taken == [in EXCEPT !.tail = NoTail, !.tailPending = FALSE, !.tailFinal = TRUE]
<1>1. DOMAIN taken = Fields /\ taken.mode = in.mode
  BY DEF Fields
<1>2. /\ SameShape(taken, Retained(taken, in.tail, total).inner)
      /\ SameShape(taken, Skipped(taken).inner)
  <2> HIDE DEF taken
  <2> QED BY <1>1, RecordingKeepsShape
<1>3. WithTail(in, total) = IF ~HasTail(in) THEN Outcome(in, FALSE)
                            ELSE IF in.tailOversized THEN Skipped(taken)
                            ELSE Retained(taken, in.tail, total)
  BY DEF WithTail
<1> HIDE DEF taken
<1> QED BY <1>1, <1>2, <1>3 DEF SameShape, Outcome

-----------------------------------------------------------------------------
(* Initially nobody has looked; then one step for each action.                 *)

LEMMA WakeInit == Init => WakeInv
<1> SUFFICES ASSUME Init PROVE WakeInv
  OBVIOUS
<1>1. setup.policy.mode \in Modes
  BY LineAssumption DEF Init
<1>2. Typed
  BY <1>1 DEF Init, Typed, NewInner, Fields, Places, PumpPlaces, FinPlaces
<1>3. Noticed /\ NoLostWakeup
  BY DEF Init, Noticed, NoLostWakeup
<1> QED BY <1>2, <1>3 DEF WakeInv

\* A step that leaves the waiters alone, gives none of them a reason to wake,
\* and takes no publisher away.
LEMMA QuietStep ==
    ASSUME WakeInv, Typed', UNCHANGED <<generation, at, observed>>,
           \A w \in Waiters : Ready(w)' => Ready(w),
           Unpublished => Unpublished', Changing => Changing'
    PROVE  WakeInv'
BY DEF WakeInv, Noticed, NoLostWakeup

\* A step after which somebody has yet to publish.
LEMMA LoudStep ==
    ASSUME WakeInv, Typed', UNCHANGED <<generation, at, observed>>, Unpublished'
    PROVE  WakeInv'
BY DEF WakeInv, Noticed, NoLostWakeup, Unpublished, Changing

\* Advancing the generation is seen by all who have not gone to sleep, and the
\* broadcast that is still to come by the others.
LEMMA PublishStep ==
    ASSUME WakeInv, Typed', UNCHANGED <<inner, at, observed>>,
           generation' = generation + 1, Changing'
    PROVE  WakeInv'
<1>1. Noticed'
  BY DEF WakeInv, Typed, Noticed, Ready, Matches
<1>2. NoLostWakeup'
  BY DEF NoLostWakeup
<1> QED BY <1>1, <1>2 DEF WakeInv

\* After the broadcast nobody is enabled or asleep.
LEMMA NotifyStep ==
    ASSUME WakeInv, Typed', UNCHANGED <<inner, generation, observed>>, at' = Woken,
           Unpublished => Unpublished'
    PROVE  WakeInv'
<1>1. \A w \in Waiters : at'[w] \notin {"enabled", "parked"}
                        /\ (at'[w] = "missed" => at[w] = "missed")
  BY DEF Woken
<1>2. Noticed'
  BY <1>1 DEF WakeInv, Noticed, Ready, Matches
<1> QED BY <1>1, <1>2 DEF WakeInv, NoLostWakeup

-----------------------------------------------------------------------------
(* The pump.                                                                   *)

LEMMA PumpStep == ASSUME WakeInv, PumpSteps \/ ChildFeeds PROVE WakeInv'
<1> USE DEF waiting, sink, pumping
<1>0. Typed
  BY DEF WakeInv
<1>1. CASE PumpReads
  <2>1. Typed'
    BY <1>0, <1>1 DEF Typed, PumpReads, Fields, PumpPlaces
  <2>2. \A w \in Waiters : Ready(w)' => Ready(w)
    BY <1>0, <1>1 DEF Typed, PumpReads, Fields, Ready, Matches
  <2> QED BY <1>1, <2>1, <2>2, QuietStep DEF PumpReads, Unpublished, Changing
<1>2. CASE PumpReadEnds
  BY <1>0, <1>2, QuietStep
     DEF PumpReadEnds, Typed, PumpPlaces, Unpublished, Changing, Ready, Matches
<1>3. CASE PumpAborted
  BY <1>0, <1>3, QuietStep
     DEF PumpAborted, Typed, PumpPlaces, Unpublished, Changing, Ready, Matches
<1>4. ASSUME NEW next \in {"split", "close"}, pumpAt \in {"split", "last"}, Counts(next)
      PROVE  WakeInv'
  BY <1>0, <1>4, QuietStep
     DEF Counts, Typed, PumpPlaces, Unpublished, Changing, Ready, Matches
<1>5. CASE PumpCountsLine \/ PumpCountsLast
  BY <1>4, <1>5 DEF PumpCountsLine, PumpCountsLast
<1>6. ASSUME NEW outcome, SameShape(inner, outcome.inner), Records(outcome)
      PROVE  WakeInv'
  <2>1. Typed' /\ Unpublished'
    BY <1>0, <1>6 DEF Records, Typed, SameShape, PumpPlaces, Unpublished
  <2> QED BY <1>6, <2>1, LoudStep DEF Records
<1>7. CASE PumpRetains
  <2>1. SameShape(inner, Retained(inner, Entry, pump.total).inner)
    BY <1>0, RecordingKeepsShape DEF Typed
  <2> QED BY <1>6, <1>7, <2>1 DEF PumpRetains
<1>8. CASE PumpSkips
  <2>1. SameShape(inner, Skipped(inner).inner)
    BY <1>0, RecordingKeepsShape DEF Typed
  <2> QED BY <1>6, <1>8, <2>1 DEF PumpSkips
<1>9. CASE PumpCountsLoss
  <2>1. Typed' /\ Unpublished'
    BY <1>0, <1>9 DEF PumpCountsLoss, Typed, PumpPlaces, Unpublished
  <2> QED BY <1>9, <2>1, LoudStep DEF PumpCountsLoss
<1>10. CASE PumpPublishes
  <2>1. Typed' /\ Changing'
    BY <1>0, <1>10 DEF PumpPublishes, Typed, PumpPlaces, Changing
  <2> QED BY <1>10, <2>1, PublishStep DEF PumpPublishes
<1>11. CASE PumpNotifies
  <2>1. Typed'
    BY <1>0, <1>11 DEF PumpNotifies, Typed, Woken, Places, PumpPlaces
  <2>2. Unpublished => Unpublished'
    BY <1>11 DEF PumpNotifies, Unpublished
  <2> QED BY <1>11, <2>1, <2>2, NotifyStep DEF PumpNotifies
<1>12. CASE PumpSetsTail
  <2>1. PICK tail, oversized :
          /\ inner' = TailSet(inner, tail, oversized)
          /\ then' \in {"read", "last"}
          /\ pumpAt' = IF TailChanged(inner, tail, oversized) THEN "publish" ELSE then'
    BY <1>12 DEF PumpSetsTail
  <2>2. UNCHANGED <<generation, fin, at, observed>> /\ pumpAt = "split"
    BY <1>12 DEF PumpSetsTail
  <2>3. Typed'
    BY <1>0, <2>1, <2>2 DEF Typed, TailSet, Fields, PumpPlaces
  <2>4. CASE TailChanged(inner, tail, oversized)
    BY <2>1, <2>2, <2>3, <2>4, LoudStep DEF Unpublished
  <2>5. CASE ~TailChanged(inner, tail, oversized)
    <3>1. \A w \in Waiters : Ready(w)' => Ready(w)
      BY <1>0, <2>1, <2>5 DEF Typed, TailSet, TailChanged, Fields, Ready, Matches
    <3> QED BY <2>1, <2>2, <2>3, <2>5, <3>1, QuietStep DEF Unpublished, Changing
  <2> QED BY <2>4, <2>5
<1>13. CASE PumpHasNoLast
  BY <1>0, <1>13, QuietStep
     DEF PumpHasNoLast, Typed, PumpPlaces, Unpublished, Changing, Ready, Matches
<1>14. CASE PumpCloses
  <2>1. Typed' /\ Unpublished'
    BY <1>0, <1>14 DEF PumpCloses, Typed, Fields, PumpPlaces, Unpublished
  <2> QED BY <1>14, <2>1, LoudStep DEF PumpCloses
<1> QED BY <1>1, <1>2, <1>3, <1>5, <1>7, <1>8, <1>9, <1>10, <1>11, <1>12, <1>13, <1>14
        DEF PumpSteps, ChildFeeds

-----------------------------------------------------------------------------
(* The waiters.                                                                *)

LEMMA WaiterStep ==
    ASSUME WakeInv, ReaderSteps \/ ProbeSteps \/ \E w \in Waiters : GivesUp(w)
    PROVE  WakeInv'
<1> USE DEF waiting, sink, pumping
<1>0. Typed /\ Noticed /\ NoLostWakeup
  BY DEF WakeInv
<1>1. CASE ReaderPops
  <2>1. Typed'
    BY <1>0, <1>1 DEF ReaderPops, Typed, Fields
  <2>2. \A w \in Waiters : Ready(w)' => Ready(w)
    BY <1>0, <1>1 DEF ReaderPops, Typed, Fields, Ready, Matches
  <2> QED BY <1>1, <2>1, <2>2, QuietStep DEF ReaderPops, Unpublished, Changing
<1>2. ASSUME NEW v \in Waiters, NEW place \in {"look", "done", "gone"},
             at' = [at EXCEPT ![v] = place],
             UNCHANGED <<inner, generation, pumpAt, then, fin, observed>>
      PROVE  WakeInv'
  <2>1. Typed'
    BY <1>0, <1>2 DEF Typed, Places
  <2>2. \A w \in Waiters : at'[w] \in {"missed", "enabled", "parked"} => at'[w] = at[w]
    BY <1>0, <1>2 DEF Typed
  <2> QED BY <1>0, <1>2, <2>1, <2>2
          DEF WakeInv, Noticed, NoLostWakeup, Unpublished, Changing, Ready, Matches
<1>3. CASE ReaderEnds
  BY <1>2, <1>3 DEF ReaderEnds, Waiters
<1>4. CASE ProbeMatches
  BY <1>2, <1>4 DEF ProbeMatches, Waiters
<1>5. ASSUME NEW v \in Waiters, GivesUp(v) PROVE WakeInv'
  BY <1>2, <1>5 DEF GivesUp
<1>6. ASSUME NEW v \in Waiters, Misses(v) PROVE WakeInv'
  <2>1. Typed'
    BY <1>0, <1>6 DEF Misses, Typed, Places
  <2>2. \A w \in Waiters : w # v => at'[w] = at[w] /\ observed'[w] = observed[w]
    BY <1>0, <1>6 DEF Misses, Typed
  <2>3. at'[v] = "missed" /\ observed'[v] = generation /\ ~Ready(v)'
    BY <1>0, <1>6 DEF Misses, Typed, Ready, Matches
  <2> QED BY <1>0, <1>6, <2>1, <2>2, <2>3
          DEF Misses, Typed, WakeInv, Noticed, NoLostWakeup, Unpublished, Changing, Ready, Matches
<1>7. ASSUME NEW v \in Waiters, Enables(v) PROVE WakeInv'
  <2>1. Typed'
    BY <1>0, <1>7 DEF Enables, Typed, Places
  <2>2. \A w \in Waiters : at'[w] = IF w = v THEN "enabled" ELSE at[w]
    BY <1>0, <1>7 DEF Enables, Typed
  <2> QED BY <1>0, <1>7, <2>1, <2>2
          DEF Enables, WakeInv, Noticed, NoLostWakeup, Unpublished, Changing, Ready, Matches
<1>8. ASSUME NEW v \in Waiters, Parks(v) PROVE WakeInv'
  <2>1. CASE generation # observed[v]
    BY <1>2, <1>8, <2>1 DEF Parks
  <2>2. CASE generation = observed[v]
    <3>1. at' = [at EXCEPT ![v] = "parked"] /\ at[v] = "enabled"
      BY <1>8, <2>2 DEF Parks
    <3>2. Typed'
      BY <1>0, <1>8, <3>1 DEF Parks, Typed, Places
    <3>3. \A w \in Waiters : at'[w] = IF w = v THEN "parked" ELSE at[w]
      BY <1>0, <3>1 DEF Typed
    <3>4. Ready(v) => Changing
      <4>1. ~(observed[v] < generation)
        BY <1>0, <2>2 DEF Typed
      <4>2. Ready(v) => Unpublished
        BY <1>0, <1>8, <3>1, <4>1 DEF Noticed
      <4> QED BY <4>2 DEF Unpublished, Changing
    <3> QED BY <1>0, <1>8, <3>2, <3>3, <3>4
            DEF Parks, WakeInv, Noticed, NoLostWakeup, Unpublished, Changing, Ready, Matches
  <2> QED BY <2>1, <2>2
<1> QED BY <1>1, <1>3, <1>4, <1>5, <1>6, <1>7, <1>8
        DEF ReaderSteps, ProbeSteps, Waits, Waiters

-----------------------------------------------------------------------------
(* The verb that finishes the run.                                             *)

LEMMA FinishStep ==
    ASSUME WakeInv, FinishSteps \/ FinishJoins \/ FinishDiscards \/ JoinOverruns \/ ChainGivesUp
    PROVE  WakeInv'
<1> USE DEF waiting, sink, pumping
<1>0. Typed
  BY DEF WakeInv
<1>1. ASSUME UNCHANGED <<inner, generation, pumpAt, then, at, observed>>,
             fin \notin {"lost", "publish", "notify"}, fin' \in FinPlaces
      PROVE  WakeInv'
  BY <1>0, <1>1, QuietStep DEF Typed, Unpublished, Changing, Ready, Matches
<1>2. CASE FinishJoins \/ JoinOverruns \/ ChainGivesUp
  BY <1>1, <1>2 DEF FinishJoins, JoinOverruns, ChainGivesUp, Goes, FinPlaces
<1>3. CASE JoinEnds \/ CollectNothing \/ Judges
  BY <1>1, <1>3 DEF JoinEnds, CollectNothing, Judges, Goes, FinPlaces
<1>4. CASE FinishDiscards
  <2>1. Typed'
    BY <1>0, <1>4 DEF FinishDiscards, Typed, Discarding, Drained, Fields, FinPlaces
  <2>2. \A w \in Waiters : Ready(w)' => Ready(w)
    BY <1>0, <1>4, LineAssumption
       DEF FinishDiscards, Typed, Discarding, Drained, NoTail, Fields, Ready, Matches
  <2> QED BY <1>4, <2>1, <2>2, QuietStep DEF FinishDiscards, Unpublished, Changing
<1>5. \A in : DOMAIN in = Fields =>
          /\ SameShape(in, Drained(in)) /\ Drained(in).lines = <<>>
          /\ Drained(in).closed = in.closed /\ Drained(in).tail = in.tail
  BY DEF Drained, Fields, SameShape
<1>6. CASE CollectDrains
  <2>1. Typed'
    BY <1>0, <1>5, <1>6 DEF CollectDrains, Typed, SameShape, FinPlaces
  <2>2. \A w \in Waiters : Ready(w)' => Ready(w)
    BY <1>0, <1>5, <1>6 DEF CollectDrains, Typed, Ready, Matches
  <2> QED BY <1>6, <2>1, <2>2, QuietStep DEF CollectDrains, Unpublished, Changing
<1>7. CASE CollectSalvages
  <2> DEFINE folded == WithTail(inner, count + 1)
  <2>1. /\ inner' = Drained(folded.inner) /\ fin = "collect"
        /\ fin' = CASE folded.lost -> "lost"
                     [] ~folded.lost /\ HasTail(inner) -> "publish"
                     [] OTHER -> "judge"
        /\ UNCHANGED <<generation, pumpAt, then, at, observed>>
    BY <1>7 DEF CollectSalvages
  <2>2. SameShape(inner, folded.inner) /\ (~HasTail(inner) => folded = Outcome(inner, FALSE))
    BY <1>0, FoldKeepsShape DEF Typed
  <2> HIDE DEF folded
  <2>3. Typed'
    BY <1>0, <1>5, <2>1, <2>2 DEF Typed, SameShape, FinPlaces
  <2>4. CASE HasTail(inner)
    BY <2>1, <2>3, <2>4, LoudStep DEF Unpublished
  <2>5. CASE ~HasTail(inner)
    <3>1. fin' = "judge" /\ inner' = Drained(inner)
      BY <2>1, <2>2, <2>5 DEF Outcome
    <3>2. \A w \in Waiters : Ready(w)' => Ready(w)
      BY <1>0, <1>5, <3>1 DEF Typed, Ready, Matches
    <3> QED BY <2>1, <2>3, <3>1, <3>2, QuietStep DEF Unpublished, Changing
  <2> QED BY <2>4, <2>5
<1>8. CASE SalvageCountsLoss
  <2>1. Typed' /\ Unpublished'
    BY <1>0, <1>8 DEF SalvageCountsLoss, Typed, FinPlaces, Unpublished
  <2> QED BY <1>8, <2>1, LoudStep DEF SalvageCountsLoss
<1>9. CASE SalvagePublishes
  <2>1. Typed' /\ Changing'
    BY <1>0, <1>9 DEF SalvagePublishes, Typed, FinPlaces, Changing
  <2> QED BY <1>9, <2>1, PublishStep DEF SalvagePublishes
<1>10. CASE SalvageNotifies
  <2>1. Typed'
    BY <1>0, <1>10 DEF SalvageNotifies, Typed, Woken, Places, FinPlaces
  <2>2. Unpublished => Unpublished'
    BY <1>10 DEF SalvageNotifies, Unpublished
  <2> QED BY <1>10, <2>1, <2>2, NotifyStep DEF SalvageNotifies
<1> QED BY <1>2, <1>3, <1>4, <1>6, <1>7, <1>8, <1>9, <1>10 DEF FinishSteps

-----------------------------------------------------------------------------
(* The theorem.                                                                *)

LEMMA WakeStep == WakeInv /\ [Next]_vars => WakeInv'
<1> SUFFICES ASSUME WakeInv, [Next]_vars PROVE WakeInv'
  OBVIOUS
<1>1. CASE Finished \/ UNCHANGED vars
  <2>1. UNCHANGED vars
    BY <1>1 DEF Finished
  <2> QED BY <2>1 DEF vars, sink, pumping, waiting, WakeInv, Typed, Noticed, NoLostWakeup,
                    Unpublished, Changing, Ready, Matches
<1> QED BY <1>1, PumpStep, WaiterStep, FinishStep DEF Next, Choices

\* No run ever leaves a reader or a probe asleep on a line, a prompt or an end
\* that is already there, unless the task that brought it has yet to broadcast.
THEOREM WakeCorrect == Spec => []NoLostWakeup
<1>1. WakeInv => NoLostWakeup
  BY DEF WakeInv
<1> QED BY <1>1, WakeInit, WakeStep, PTL DEF Spec

-----------------------------------------------------------------------------
(* The head of DropNewest.  Sequences of lines, whatever a line may be.        *)

IsSeq(q) == \E S : q \in Seq(S)

LEMMA SeqShape ==
    ASSUME NEW q, IsSeq(q)
    PROVE  Len(q) \in Nat /\ DOMAIN q = 1..Len(q) /\ (Len(q) = 0 => q = <<>>)
<1> PICK S : q \in Seq(S)
  BY DEF IsSeq
<1> QED OBVIOUS

LEMMA SeqEmpty == IsSeq(<<>>) /\ Len(<<>>) = 0
<1>1. <<>> \in Seq({})
  OBVIOUS
<1> QED BY <1>1 DEF IsSeq

LEMMA SeqAppend ==
    ASSUME NEW q, IsSeq(q), NEW x
    PROVE  /\ IsSeq(Append(q, x)) /\ Len(Append(q, x)) = Len(q) + 1
           /\ \A i \in 1..Len(q) : Append(q, x)[i] = q[i]
           /\ Append(q, x)[Len(q) + 1] = x
<1> PICK S : q \in Seq(S)
  BY DEF IsSeq
<1>1. q \in Seq(S \cup {x}) /\ x \in S \cup {x}
  OBVIOUS
<1>2. Append(q, x) \in Seq(S \cup {x})
  BY <1>1
<1> QED BY <1>1, <1>2 DEF IsSeq

LEMMA SeqTail ==
    ASSUME NEW q, IsSeq(q), q # <<>>
    PROVE  /\ IsSeq(Tail(q)) /\ Len(Tail(q)) = Len(q) - 1 /\ Len(q) > 0
           /\ \A i \in 1..Len(Tail(q)) : Tail(q)[i] = q[i + 1]
           /\ Head(q) = q[1]
<1> PICK S : q \in Seq(S)
  BY DEF IsSeq
<1>1. Tail(q) \in Seq(S)
  OBVIOUS
<1> QED BY <1>1 DEF IsSeq

LEMMA SeqConcat ==
    ASSUME NEW q, IsSeq(q), NEW r, IsSeq(r)
    PROVE  /\ DOMAIN (q \o r) = 1..Len(q) + Len(r)
           /\ \A i \in 1..Len(q) + Len(r) :
                (q \o r)[i] = IF i <= Len(q) THEN q[i] ELSE r[i - Len(q)]
<1> PICK S : q \in Seq(S)
  BY DEF IsSeq
<1> PICK R : r \in Seq(R)
  BY DEF IsSeq
<1>1. q \in Seq(S \cup R) /\ r \in Seq(S \cup R)
  OBVIOUS
<1> QED BY <1>1

-----------------------------------------------------------------------------
(* The invariant.  While nothing has been taken out behind the stream's back,  *)
(* delivered lines and backlog count up from one, and an open head has all     *)
(* lines the pump is through with; so a line that is let in is the next one.   *)

NumberedFrom(n, q) == \A i \in 1..Len(q) : q[i].no = n + i

\* Nobody has drained the buffer.
Undrained == Streamed \/ fin \in {"live", "join", "collect"}

HeadShape ==
    /\ DOMAIN inner = Fields /\ inner.mode = "DropNewest"
    /\ IsSeq(inner.lines) /\ IsSeq(delivered) /\ IsSeq(result.lines)
    /\ DOMAIN pump = DOMAIN NewPump /\ pump.next \in Nat
    /\ DOMAIN result = DOMAIN NoResult
    /\ at \in [Waiters -> Places]
    /\ ~Streamed => delivered = <<>> /\ at["reader"] \in {"done", "gone"}
    /\ inner.discarding => Streamed /\ inner.lines = <<>>
    /\ result.how = "none" => fin \in {"live", "join"}
    /\ result.how = "salvaged" => ~Streamed

HeadOpen ==
    Undrained /\ ~inner.discarding =>
        /\ NumberedFrom(Len(delivered), inner.lines)
        /\ ~inner.sealed => pump.next = Len(delivered) + Len(inner.lines) + 1

TailIsNext ==
    Undrained /\ HasTail(inner) /\ ~inner.tailOversized => inner.tail.no = pump.next

HeadInv ==
    setup.policy.mode = "DropNewest" =>
        /\ HeadShape /\ HeadOpen /\ TailIsNext
        /\ NumberedFrom(0, delivered) /\ NumberedFrom(0, result.lines)

LEMMA HeadInit == Init => HeadInv
<1> SUFFICES ASSUME Init, setup.policy.mode = "DropNewest" PROVE HeadInv
  BY DEF HeadInv
<1>1. HeadShape
  <2>1. DOMAIN inner = Fields /\ inner.mode = "DropNewest" /\ inner.lines = <<>>
        /\ inner.discarding = FALSE
    BY DEF Init, NewInner, Fields
  <2>2. result.lines = <<>> /\ result.how = "none" /\ DOMAIN result = DOMAIN NoResult
    BY DEF Init, NoResult
  <2>3. DOMAIN pump = DOMAIN NewPump /\ pump.next \in Nat
    BY DEF Init, NewPump
  <2>4. at \in [Waiters -> Places] /\ (~Streamed => at["reader"] = "gone")
    BY DEF Init, Waiters, Places, Streamed
  <2>5. delivered = <<>> /\ fin = "live"
    BY DEF Init
  <2> QED BY SeqEmpty, <2>1, <2>2, <2>3, <2>4, <2>5 DEF HeadShape
<1>2. HeadOpen /\ TailIsNext
  BY SeqEmpty DEF Init, HeadOpen, TailIsNext, HasTail, NumberedFrom, NewInner, NewPump
<1>3. NumberedFrom(0, delivered) /\ NumberedFrom(0, result.lines)
  BY SeqEmpty DEF Init, NumberedFrom, NoResult
<1> QED BY <1>1, <1>2, <1>3 DEF HeadInv

\* What a line that is recorded does to a head.
LEMMA HeadRetains ==
    ASSUME NEW in, DOMAIN in = Fields, in.mode = "DropNewest", IsSeq(in.lines),
           NEW line, NEW total
    PROVE  LET out == Retained(in, line, total).inner IN
           /\ DOMAIN out = Fields /\ out.mode = "DropNewest"
           /\ out.discarding = in.discarding
           /\ ~HasTail(out)
           /\ \/ out.lines = in.lines /\ (~in.discarding => out.sealed)
              \/ /\ ~in.discarding /\ ~in.sealed /\ ~out.sealed
                 /\ out.lines = Append(in.lines, line)
<1> DEFINE s == Superseded(in)
<1>1. /\ DOMAIN s = Fields /\ s.mode = "DropNewest" /\ s.lines = in.lines
      /\ s.discarding = in.discarding /\ s.sealed = in.sealed
      /\ s.tailPending = in.tailPending /\ (in.tailPending => s.tailFinal)
  BY DEF Superseded, Fields
<1>2. ByMode(s, line, total) = Headed(s, line)
  BY <1>1 DEF ByMode
<1>3. Retained(in, line, total) = IF in.discarding THEN Outcome(s, FALSE) ELSE Headed(s, line)
  BY <1>2 DEF Retained
<1> HIDE DEF s
<1> QED BY <1>1, <1>3 DEF Headed, Appended, Outcome, HasTail, Fields

LEMMA HeadSkips ==
    ASSUME NEW in, DOMAIN in = Fields, in.mode = "DropNewest"
    PROVE  LET out == Skipped(in).inner IN
           /\ DOMAIN out = Fields /\ out.mode = "DropNewest"
           /\ out.discarding = in.discarding
           /\ ~HasTail(out)
           /\ out.lines = in.lines /\ (~in.discarding => out.sealed)
<1> DEFINE s == Superseded(in)
<1>1. /\ DOMAIN s = Fields /\ s.mode = "DropNewest" /\ s.lines = in.lines
      /\ s.discarding = in.discarding /\ s.sealed = in.sealed
      /\ s.tailPending = in.tailPending /\ (in.tailPending => s.tailFinal)
  BY DEF Superseded, Fields
<1>2. Skipped(in) = IF in.discarding THEN Outcome(s, FALSE)
                    ELSE Outcome([s EXCEPT !.overflowed = @ \/ in.mode = "Error",
                                           !.sealed = @ \/ in.mode = "DropNewest"], TRUE)
  BY DEF Skipped
<1> HIDE DEF s
<1>3. CASE in.discarding
  <2>1. Skipped(in).inner = s
    BY <1>2, <1>3 DEF Outcome
  <2> QED BY <1>1, <1>3, <2>1 DEF HasTail
<1>4. CASE ~in.discarding
  <2> DEFINE o == [s EXCEPT !.overflowed = @ \/ in.mode = "Error",
                            !.sealed = @ \/ in.mode = "DropNewest"]
  <2>1. Skipped(in).inner = o
    BY <1>2, <1>4 DEF Outcome
  <2>2. /\ DOMAIN o = Fields /\ o.mode = "DropNewest" /\ o.discarding = s.discarding
        /\ o.lines = s.lines /\ o.tailPending = s.tailPending /\ o.tailFinal = s.tailFinal
    BY <1>1 DEF Fields
  <2>3. o.sealed
    BY <1>1 DEF Fields
  <2> HIDE DEF o
  <2> QED BY <1>1, <2>1, <2>2, <2>3 DEF HasTail
<1> QED BY <1>3, <1>4

\* A step that leaves alone what the invariant is about.
LEMMA HeadSame ==
    ASSUME HeadInv, UNCHANGED <<setup, delivered>>,
           setup.policy.mode = "DropNewest" =>
             /\ HeadShape' /\ (Undrained' => Undrained)
             /\ result'.lines = result.lines /\ pump'.next = pump.next
             /\ inner'.lines = inner.lines /\ inner'.sealed = inner.sealed
             /\ inner'.discarding = inner.discarding /\ inner'.tail = inner.tail
             /\ inner'.tailPending = inner.tailPending
             /\ inner'.tailFinal = inner.tailFinal
             /\ inner'.tailOversized = inner.tailOversized
    PROVE  HeadInv'
<1> SUFFICES ASSUME setup.policy.mode = "DropNewest" PROVE HeadInv'
  BY DEF HeadInv
<1>1. HeadOpen'
  BY DEF HeadInv, HeadOpen, NumberedFrom
<1>2. TailIsNext'
  BY DEF HeadInv, TailIsNext, HasTail
<1>3. NumberedFrom(0, delivered)' /\ NumberedFrom(0, result.lines)'
  BY DEF HeadInv, NumberedFrom
<1> QED BY <1>1, <1>2, <1>3 DEF HeadInv

\* The line the pump records is the next one of an open head.
LEMMA HeadRecords ==
    ASSUME HeadInv, PumpRetains \/ PumpSkips
    PROVE  HeadInv'
<1> SUFFICES ASSUME setup.policy.mode = "DropNewest" PROVE HeadInv'
  BY DEF HeadInv, PumpRetains, PumpSkips, Records
<1> USE DEF waiting
<1>0. HeadShape /\ HeadOpen /\ NumberedFrom(0, delivered) /\ NumberedFrom(0, result.lines)
  BY DEF HeadInv
<1>1. PICK out : /\ inner' = out /\ DOMAIN out = Fields /\ out.mode = "DropNewest"
                 /\ out.discarding = inner.discarding /\ ~HasTail(out)
                 /\ \/ out.lines = inner.lines /\ (~inner.discarding => out.sealed)
                    \/ /\ ~inner.discarding /\ ~inner.sealed /\ ~out.sealed
                       /\ out.lines = Append(inner.lines, Entry)
  <2>1. CASE PumpRetains
    <3>1. inner' = Retained(inner, Entry, pump.total).inner
      BY <2>1 DEF PumpRetains, Records
    <3> QED BY <1>0, <3>1, HeadRetains DEF HeadShape
  <2>2. CASE PumpSkips
    <3>1. inner' = Skipped(inner).inner
      BY <2>2 DEF PumpSkips, Records
    <3> QED BY <1>0, <3>1, HeadSkips DEF HeadShape
  <2> QED BY <2>1, <2>2
<1>2. /\ UNCHANGED <<setup, delivered, result, fin, at>>
      /\ DOMAIN pump' = DOMAIN pump /\ pump'.next = pump.next + 1
  <2>1. pump' = [pump EXCEPT !.next = @ + 1, !.skipping = FALSE]
    BY DEF PumpRetains, PumpSkips, Records
  <2>2. UNCHANGED <<setup, delivered, result, fin, at>>
    BY DEF PumpRetains, PumpSkips, Records
  <2> QED BY <1>0, <2>1, <2>2 DEF HeadShape, NewPump
<1>3. Entry.no = pump.next
  BY DEF Entry
<1>4. IsSeq(inner.lines) /\ IsSeq(delivered)
  BY <1>0 DEF HeadShape
<1>5. IsSeq(inner'.lines)
  <2>1. IsSeq(Append(inner.lines, Entry))
    BY <1>4, SeqAppend
  <2> QED BY <1>1, <1>4, <2>1
<1>6. HeadShape'
  BY <1>0, <1>1, <1>2, <1>5 DEF HeadShape, Streamed
<1>7. HeadOpen'
  <2> SUFFICES ASSUME Undrained, ~inner.discarding
               PROVE  /\ NumberedFrom(Len(delivered), inner'.lines)
                      /\ ~inner'.sealed => pump'.next = Len(delivered) + Len(inner'.lines) + 1
    BY <1>1, <1>2 DEF HeadOpen, Undrained, Streamed
  <2>1. CASE inner'.lines = inner.lines /\ inner'.sealed
    BY <1>0, <2>1 DEF HeadOpen, NumberedFrom
  <2>2. CASE ~inner.sealed /\ inner'.lines = Append(inner.lines, Entry)
    <3>1. pump.next = Len(delivered) + Len(inner.lines) + 1
      BY <1>0, <2>2 DEF HeadOpen
    <3>2. Len(inner'.lines) = Len(inner.lines) + 1
      BY <1>4, <2>2, SeqAppend
    <3>3. ASSUME NEW i \in 1..Len(inner'.lines) PROVE inner'.lines[i].no = Len(delivered) + i
      <4>1. CASE i = Len(inner.lines) + 1
        BY <1>3, <1>4, <2>2, <3>1, <4>1, SeqAppend, SeqShape
      <4>2. CASE i # Len(inner.lines) + 1
        <5>1. i \in 1..Len(inner.lines)
          BY <1>4, <3>2, <4>2, SeqShape
        <5> QED BY <1>0, <1>4, <2>2, <5>1, SeqAppend DEF HeadOpen, NumberedFrom
      <4> QED BY <4>1, <4>2
    <3> QED BY <1>2, <1>4, <3>1, <3>2, <3>3, SeqShape DEF NumberedFrom
  <2> QED BY <1>1, <2>1, <2>2
<1>8. TailIsNext'
  BY <1>1 DEF TailIsNext, HasTail
<1> QED BY <1>0, <1>2, <1>6, <1>7, <1>8 DEF HeadInv, NumberedFrom

\* Every other step of the pump.
LEMMA HeadPump ==
    ASSUME HeadInv, PumpSteps \/ ChildFeeds
    PROVE  HeadInv'
<1> SUFFICES ASSUME setup.policy.mode = "DropNewest" PROVE HeadInv'
  BY DEF HeadInv, PumpSteps, ChildFeeds, PumpReads, PumpReadEnds, PumpAborted, PumpCountsLine,
         PumpCountsLast, Counts, PumpRetains, PumpSkips, Records, PumpCountsLoss, PumpPublishes,
         PumpNotifies, PumpSetsTail, PumpHasNoLast, PumpCloses
<1> USE DEF waiting, sink, pumping
<1>0. HeadShape
  BY DEF HeadInv
<1>1. CASE PumpReads
  BY <1>0, <1>1, HeadSame
     DEF PumpReads, HeadShape, Fields, NewPump, Undrained, Streamed
<1>2. CASE PumpReadEnds
  BY <1>0, <1>2, HeadSame
     DEF PumpReadEnds, HeadShape, NewPump, Undrained, Streamed
<1>3. CASE PumpCountsLine \/ PumpCountsLast
  <2>1. /\ UNCHANGED <<setup, inner, delivered, result, fin, at>>
        /\ pump' = [pump EXCEPT !.total = count + 1]
    BY <1>3 DEF PumpCountsLine, PumpCountsLast, Counts
  <2> QED BY <1>0, <2>1, HeadSame DEF HeadShape, NewPump, Undrained, Streamed
<1>4. CASE PumpRetains \/ PumpSkips
  BY <1>4, HeadRecords
<1>5. CASE PumpAborted \/ PumpCountsLoss \/ PumpPublishes \/ PumpHasNoLast
  <2>1. UNCHANGED <<setup, inner, delivered, result, fin, at, pump>>
    BY <1>5 DEF PumpAborted, PumpCountsLoss, PumpPublishes, PumpHasNoLast
  <2> QED BY <1>0, <2>1, HeadSame DEF HeadShape, Undrained, Streamed
<1>6. CASE PumpNotifies
  <2>1. UNCHANGED <<setup, inner, delivered, result, fin, pump>> /\ at' = Woken
    BY <1>6 DEF PumpNotifies
  <2>2. HeadShape'
    BY <1>0, <2>1 DEF HeadShape, Woken, Waiters, Places, Streamed
  <2> QED BY <2>1, <2>2, HeadSame DEF Undrained, Streamed
<1>7. CASE PumpSetsTail
  <2>1. PICK tail, oversized :
          /\ inner' = TailSet(inner, tail, oversized)
          /\ pump' = [pump EXCEPT !.skipping = oversized]
          /\ tail = NoTail \/ tail.no = pump.next
          /\ oversized \in BOOLEAN
    <3> DEFINE o == pump.skipping \/ OverCap(Pending)
               t == IF o \/ Pending = 0 THEN NoTail ELSE [no |-> pump.next, len |-> Pending]
    <3>1. inner' = TailSet(inner, t, o) /\ pump' = [pump EXCEPT !.skipping = o]
      BY <1>7 DEF PumpSetsTail
    <3>2. t = NoTail \/ t.no = pump.next
      OBVIOUS
    <3>3. o \in BOOLEAN
      OBVIOUS
    <3> QED BY <3>1, <3>2, <3>3
  <2>2. UNCHANGED <<setup, delivered, result, fin, at>>
    BY <1>7 DEF PumpSetsTail
  <2>3. /\ DOMAIN inner' = Fields /\ inner'.mode = inner.mode /\ inner'.lines = inner.lines
        /\ inner'.discarding = inner.discarding /\ inner'.sealed = inner.sealed
        /\ inner'.tail = tail /\ inner'.tailOversized = oversized
        /\ inner'.tailPending = (oversized \/ tail.len > 0)
    BY <1>0, <2>1 DEF HeadShape, TailSet, Fields
  <2>4. DOMAIN pump' = DOMAIN pump /\ pump'.next = pump.next
    BY <1>0, <2>1 DEF HeadShape, NewPump
  <2>5. HeadShape'
    BY <1>0, <2>2, <2>3, <2>4 DEF HeadShape, Streamed
  <2>6. HeadOpen'
    BY <2>2, <2>3, <2>4 DEF HeadInv, HeadOpen, NumberedFrom, Undrained, Streamed
  <2>7. TailIsNext'
    BY <2>1, <2>3, <2>4 DEF TailIsNext, HasTail, NoTail
  <2> QED BY <2>2, <2>5, <2>6, <2>7 DEF HeadInv, NumberedFrom
<1>8. CASE PumpCloses
  BY <1>0, <1>8, HeadSame
     DEF PumpCloses, HeadShape, Fields, Undrained, Streamed
<1> QED BY <1>1, <1>2, <1>3, <1>4, <1>5, <1>6, <1>7, <1>8 DEF PumpSteps, ChildFeeds

\* A stream takes the oldest line of its backlog, which is the next it yields.
LEMMA HeadPops ==
    ASSUME HeadInv, ReaderPops
    PROVE  HeadInv'
<1> SUFFICES ASSUME setup.policy.mode = "DropNewest" PROVE HeadInv'
  BY DEF HeadInv, ReaderPops
<1> USE DEF pumping
<1>0. HeadShape /\ HeadOpen /\ TailIsNext
      /\ NumberedFrom(0, delivered) /\ NumberedFrom(0, result.lines)
  BY DEF HeadInv
<1>1. IsSeq(inner.lines) /\ IsSeq(delivered) /\ inner.lines # <<>>
  BY <1>0 DEF HeadShape, ReaderPops
<1>2. /\ delivered' = Append(delivered, Head(inner.lines))
      /\ inner' = [inner EXCEPT !.lines = Tail(@), !.bytes = Less(@, Head(inner.lines).len)]
      /\ UNCHANGED <<setup, pump, at, fin, result>> /\ at["reader"] = "look"
  BY DEF ReaderPops
<1>3. /\ DOMAIN inner' = Fields /\ inner'.mode = inner.mode /\ inner'.lines = Tail(inner.lines)
      /\ inner'.discarding = inner.discarding /\ inner'.sealed = inner.sealed
      /\ inner'.tail = inner.tail /\ inner'.tailOversized = inner.tailOversized
      /\ inner'.tailPending = inner.tailPending /\ inner'.tailFinal = inner.tailFinal
  BY <1>0, <1>2 DEF HeadShape, Fields
<1>4. Streamed /\ ~inner.discarding
  BY <1>0, <1>1, <1>2 DEF HeadShape
<1>5. /\ IsSeq(inner'.lines) /\ Len(inner'.lines) = Len(inner.lines) - 1
      /\ \A i \in 1..Len(inner'.lines) : inner'.lines[i] = inner.lines[i + 1]
      /\ Len(inner.lines) > 0 /\ Head(inner.lines) = inner.lines[1]
  BY <1>1, <1>3, SeqTail
<1>6. /\ IsSeq(delivered') /\ Len(delivered') = Len(delivered) + 1
      /\ \A i \in 1..Len(delivered) : delivered'[i] = delivered[i]
      /\ delivered'[Len(delivered) + 1] = Head(inner.lines)
  BY <1>1, <1>2, SeqAppend
<1>7. Len(inner.lines) \in Nat /\ Len(delivered) \in Nat
  BY <1>1, SeqShape
<1>8. HeadShape'
  BY <1>0, <1>2, <1>3, <1>4, <1>5, <1>6 DEF HeadShape, Streamed
<1>9. /\ \A i \in 1..Len(inner.lines) : inner.lines[i].no = Len(delivered) + i
      /\ ~inner.sealed => pump.next = Len(delivered) + Len(inner.lines) + 1
  BY <1>0, <1>4 DEF HeadOpen, Undrained, NumberedFrom
<1>10. HeadOpen'
  <2>1. ASSUME NEW i \in 1..Len(inner'.lines) PROVE inner'.lines[i].no = Len(delivered') + i
    <3>1. i + 1 \in 1..Len(inner.lines)
      BY <1>5, <1>7
    <3>2. inner.lines[i + 1].no = Len(delivered) + (i + 1)
      BY <1>9, <3>1
    <3> QED BY <1>5, <1>6, <1>7, <3>2
  <2>2. ASSUME ~inner'.sealed PROVE pump'.next = Len(delivered') + Len(inner'.lines) + 1
    <3>1. pump'.next = pump.next /\ ~inner.sealed
      BY <1>2, <1>3, <2>2
    <3>2. pump.next = Len(delivered) + Len(inner.lines) + 1
      BY <1>9, <3>1
    <3>3. Len(inner'.lines) = Len(inner.lines) - 1 /\ Len(delivered') = Len(delivered) + 1
      BY <1>5, <1>6
    <3>4. \A m, n \in Nat : m + n = (m + 1) + (n - 1)
      OBVIOUS
    <3>5. Len(delivered) + Len(inner.lines) = Len(delivered') + Len(inner'.lines)
      BY <1>7, <3>3, <3>4
    <3> QED BY <3>1, <3>2, <3>5
  <2> QED BY <2>1, <2>2 DEF HeadOpen, NumberedFrom
<1>11. NumberedFrom(0, delivered)'
  <2> SUFFICES ASSUME NEW i \in 1..Len(delivered') PROVE delivered'[i].no = 0 + i
    BY DEF NumberedFrom
  <2>1. CASE i = Len(delivered) + 1
    <3>1. inner.lines[1].no = Len(delivered) + 1
      BY <1>5, <1>7, <1>9
    <3> QED BY <1>5, <1>6, <1>7, <2>1, <3>1
  <2>2. CASE i # Len(delivered) + 1
    <3>1. i \in 1..Len(delivered)
      BY <1>6, <1>7, <2>2
    <3> QED BY <1>0, <1>6, <3>1 DEF NumberedFrom
  <2> QED BY <2>1, <2>2
<1>12. TailIsNext'
  BY <1>0, <1>2, <1>3 DEF TailIsNext, HasTail, Undrained, Streamed
<1> QED BY <1>0, <1>2, <1>8, <1>10, <1>11, <1>12 DEF HeadInv, NumberedFrom

LEMMA HeadWaiters ==
    ASSUME HeadInv, ReaderSteps \/ ProbeSteps \/ \E w \in Waiters : GivesUp(w)
    PROVE  HeadInv'
<1> USE DEF sink, pumping
<1>1. CASE ReaderPops
  BY <1>1, HeadPops
<1>2. CASE ~ReaderPops
  <2>1. /\ UNCHANGED <<setup, inner, delivered, result, fin, pump>>
        /\ \E w \in Waiters, place \in Places :
             at' = [at EXCEPT ![w] = place] /\ at[w] \notin {"done", "gone"}
    BY <1>2 DEF ReaderSteps, ProbeSteps, Waits, ReaderEnds, ProbeMatches, Misses, Enables,
                Parks, GivesUp, Waiters, Places
  <2>2. setup.policy.mode = "DropNewest" => HeadShape'
    BY <2>1 DEF HeadInv, HeadShape, Streamed, Waiters
  <2> QED BY <2>1, <2>2, HeadSame DEF Undrained, Streamed
<1> QED BY <1>1, <1>2

\* The lines a capture takes are the backlog, and the live tail is the line that
\* the pump is at.
LEMMA HeadCollects ==
    ASSUME HeadInv, CollectDrains \/ CollectSalvages
    PROVE  HeadInv'
<1> SUFFICES ASSUME setup.policy.mode = "DropNewest" PROVE HeadInv'
  BY DEF HeadInv, CollectDrains, CollectSalvages
<1> USE DEF pumping, waiting
<1>0. HeadShape /\ HeadOpen /\ TailIsNext
      /\ NumberedFrom(0, delivered) /\ NumberedFrom(0, result.lines)
  BY DEF HeadInv
<1>1. ~Streamed /\ fin = "collect" /\ delivered = <<>> /\ ~inner.discarding /\ Undrained
  BY <1>0 DEF HeadShape, CollectDrains, CollectSalvages, Undrained
<1>2. IsSeq(inner.lines) /\ Len(inner.lines) \in Nat /\ Len(delivered) = 0
  BY <1>0, <1>1, SeqShape, SeqEmpty DEF HeadShape
<1>3. \A i \in 1..Len(inner.lines) : inner.lines[i].no = i
  BY <1>0, <1>1, <1>2 DEF HeadOpen, NumberedFrom
<1>a. NumberedFrom(0, inner.lines)
  BY <1>2, <1>3 DEF NumberedFrom
<1>b. DOMAIN inner = Fields /\ inner.mode = "DropNewest"
  BY <1>0 DEF HeadShape
<1>4. PICK out :
        /\ DOMAIN out = Fields /\ out.mode = "DropNewest" /\ ~out.discarding
        /\ inner' = Drained(out)
        /\ result' = [result EXCEPT !.lines = out.lines]
        /\ IsSeq(out.lines) /\ NumberedFrom(0, out.lines)
  <2>1. CASE CollectDrains
    <3>1. inner' = Drained(inner) /\ result' = [result EXCEPT !.lines = inner.lines]
      BY <2>1 DEF CollectDrains
    <3> QED BY <1>a, <1>b, <1>1, <1>2, <3>1
  <2>2. CASE CollectSalvages
    <3> DEFINE folded == WithTail(inner, count + 1)
               taken == [inner EXCEPT !.tail = NoTail, !.tailPending = FALSE, !.tailFinal = TRUE]
    <3>1. inner' = Drained(folded.inner) /\ result' = [result EXCEPT !.lines = folded.inner.lines]
      BY <2>2 DEF CollectSalvages
    <3>2. /\ DOMAIN taken = Fields /\ taken.mode = "DropNewest" /\ taken.lines = inner.lines
          /\ taken.discarding = inner.discarding /\ taken.sealed = inner.sealed
      BY <1>0 DEF HeadShape, Fields
    <3>3. folded = IF ~HasTail(inner) THEN Outcome(inner, FALSE)
                   ELSE IF inner.tailOversized THEN Skipped(taken)
                   ELSE Retained(taken, inner.tail, count + 1)
      BY DEF WithTail
    <3> HIDE DEF folded, taken
    <3>4. CASE ~HasTail(inner)
      <4>1. folded.inner = inner
        BY <3>3, <3>4 DEF Outcome
      <4>2. inner' = Drained(inner) /\ result' = [result EXCEPT !.lines = inner.lines]
        BY <3>1, <4>1
      <4> QED BY <1>a, <1>b, <1>1, <1>2, <4>2
    <3>5. CASE HasTail(inner) /\ inner.tailOversized
      <4>1. folded.inner = Skipped(taken).inner
        BY <3>3, <3>5
      <4> DEFINE o == folded.inner
      <4>2. /\ DOMAIN o = Fields /\ o.mode = "DropNewest" /\ ~o.discarding
            /\ o.lines = inner.lines
        BY <1>1, <3>2, <4>1, HeadSkips
      <4>3. IsSeq(o.lines) /\ NumberedFrom(0, o.lines)
        BY <1>a, <1>2, <4>2
      <4>4. inner' = Drained(o) /\ result' = [result EXCEPT !.lines = o.lines]
        BY <3>1
      <4> HIDE DEF o
      <4> QED BY <4>2, <4>3, <4>4
    <3>6. CASE HasTail(inner) /\ ~inner.tailOversized
      <4> DEFINE o == folded.inner
      <4>1. o = Retained(taken, inner.tail, count + 1).inner
        BY <3>3, <3>6
      <4>2. inner.tail.no = pump.next
        BY <1>0, <1>1, <3>6 DEF TailIsNext
      <4>3. /\ DOMAIN o = Fields /\ o.mode = "DropNewest" /\ o.discarding = inner.discarding
            /\ \/ o.lines = inner.lines
               \/ ~inner.sealed /\ o.lines = Append(inner.lines, inner.tail)
        BY <1>2, <3>2, <4>1, HeadRetains
      <4> HIDE DEF o
      <4>4. CASE o.lines = inner.lines
        <5>1. IsSeq(o.lines) /\ NumberedFrom(0, o.lines)
          BY <1>a, <1>2, <4>4
        <5>2. inner' = Drained(o) /\ result' = [result EXCEPT !.lines = o.lines]
          BY <3>1 DEF o
        <5> QED BY <1>1, <4>3, <5>1, <5>2
      <4>5. CASE ~inner.sealed /\ o.lines = Append(inner.lines, inner.tail)
        <5>1. pump.next = Len(inner.lines) + 1
          BY <1>0, <1>1, <1>2, <4>5 DEF HeadOpen
        <5>2. /\ IsSeq(o.lines) /\ Len(o.lines) = Len(inner.lines) + 1
              /\ \A i \in 1..Len(inner.lines) : o.lines[i] = inner.lines[i]
              /\ o.lines[Len(inner.lines) + 1] = inner.tail
          BY <1>2, <4>5, SeqAppend
        <5>3. NumberedFrom(0, o.lines)
          <6> SUFFICES ASSUME NEW i \in 1..Len(o.lines) PROVE o.lines[i].no = 0 + i
            BY DEF NumberedFrom
          <6>1. CASE i = Len(inner.lines) + 1
            BY <4>2, <5>1, <5>2, <6>1
          <6>2. CASE i # Len(inner.lines) + 1
            BY <1>2, <1>3, <5>2, <6>2
          <6> QED BY <6>1, <6>2
        <5> QED BY <1>1, <3>1, <4>3, <5>2, <5>3 DEF o
      <4> QED BY <4>3, <4>4, <4>5
    <3> QED BY <3>4, <3>5, <3>6
  <2> QED BY <2>1, <2>2
<1>5. /\ UNCHANGED <<setup, delivered, pump, at>> /\ result.how # "none"
      /\ fin' \in {"judge", "lost", "publish"}
  BY <1>0, <1>1 DEF HeadShape, CollectDrains, CollectSalvages
<1>6. /\ DOMAIN inner' = Fields /\ inner'.mode = "DropNewest" /\ inner'.lines = <<>>
      /\ inner'.discarding = out.discarding
  BY <1>4 DEF Drained, Fields
<1>7. DOMAIN result' = DOMAIN result /\ result'.lines = out.lines /\ result'.how = result.how
  BY <1>0, <1>4 DEF HeadShape, NoResult
<1>8. HeadShape'
  BY <1>0, <1>1, <1>4, <1>5, <1>6, <1>7, SeqEmpty DEF HeadShape, Streamed
<1>9. ~Undrained'
  BY <1>1, <1>5 DEF Undrained, Streamed
<1> QED BY <1>0, <1>4, <1>5, <1>7, <1>8, <1>9 DEF HeadInv, HeadOpen, TailIsNext, NumberedFrom

LEMMA HeadFinish ==
    ASSUME HeadInv,
           FinishSteps \/ FinishJoins \/ FinishDiscards \/ JoinOverruns \/ ChainGivesUp
    PROVE  HeadInv'
<1> SUFFICES ASSUME setup.policy.mode = "DropNewest" PROVE HeadInv'
  BY DEF HeadInv, FinishSteps, FinishJoins, FinishDiscards, JoinOverruns, ChainGivesUp, JoinEnds,
         CollectDrains, CollectNothing, CollectSalvages, SalvageCountsLoss, SalvagePublishes,
         SalvageNotifies, Judges
<1> USE DEF waiting, sink, pumping
<1>0. HeadShape
  BY DEF HeadInv
<1>1. CASE FinishJoins
  BY <1>0, <1>1, HeadSame DEF FinishJoins, HeadShape, Undrained, Streamed
<1>2. ASSUME NEW how \in {"joined", "overrun", "salvaged"}, Goes(how),
             how = "salvaged" => ~Streamed, fin \in {"live", "join"},
             UNCHANGED <<setup, inner, delivered, at, pump>>
      PROVE  HeadInv'
  <2>1. result' = [result EXCEPT !.how = how] /\ fin' = "collect"
    BY <1>2 DEF Goes
  <2>2. DOMAIN result' = DOMAIN result /\ result'.lines = result.lines /\ result'.how = how
    BY <1>0, <2>1 DEF HeadShape, NoResult
  <2> QED BY <1>0, <1>2, <2>1, <2>2, HeadSame DEF HeadShape, Undrained, Streamed
<1>3. CASE JoinEnds \/ JoinOverruns \/ ChainGivesUp
  BY <1>2, <1>3 DEF JoinEnds, JoinOverruns, ChainGivesUp
<1>4. CASE FinishDiscards
  <2>1. /\ inner' = Discarding(inner) /\ Streamed /\ fin' = "join"
        /\ UNCHANGED <<setup, delivered, result, at, pump>>
    BY <1>4 DEF FinishDiscards
  <2>2. /\ DOMAIN inner' = Fields /\ inner'.mode = inner.mode /\ inner'.lines = <<>>
        /\ inner'.discarding /\ ~inner'.tailPending
    BY <1>0, <2>1 DEF HeadShape, Discarding, Drained, Fields
  <2>3. HeadShape'
    BY <1>0, <2>1, <2>2, SeqEmpty DEF HeadShape, Streamed
  <2> QED BY <2>1, <2>2, <2>3 DEF HeadInv, HeadOpen, TailIsNext, HasTail, NumberedFrom
<1>5. CASE CollectDrains \/ CollectSalvages
  BY <1>5, HeadCollects
<1>6. CASE CollectNothing \/ SalvageCountsLoss \/ SalvagePublishes
  <2>1. /\ UNCHANGED <<setup, inner, delivered, result, at, pump>>
        /\ fin \notin {"live", "join"} /\ fin' \notin {"live", "join", "collect"}
    BY <1>6 DEF CollectNothing, SalvageCountsLoss, SalvagePublishes
  <2> QED BY <1>0, <2>1, HeadSame DEF HeadShape, Undrained, Streamed
<1>7. CASE SalvageNotifies
  <2>1. /\ UNCHANGED <<setup, inner, delivered, result, pump>> /\ at' = Woken
        /\ fin = "notify" /\ fin' = "judge"
    BY <1>7 DEF SalvageNotifies
  <2>2. HeadShape'
    BY <1>0, <2>1 DEF HeadShape, Woken, Waiters, Places, Streamed
  <2> QED BY <2>1, <2>2, HeadSame DEF Undrained, Streamed
<1>8. CASE Judges
  <2>1. /\ result' = [result EXCEPT !.truncated = dropped > 0, !.overflowed = inner.overflowed,
                                    !.failed = readError]
        /\ UNCHANGED <<setup, inner, delivered, at, pump>> /\ fin = "judge" /\ fin' = "done"
    BY <1>8 DEF Judges
  <2>2. DOMAIN result' = DOMAIN result /\ result'.lines = result.lines /\ result'.how = result.how
    BY <1>0, <2>1 DEF HeadShape, NoResult
  <2> QED BY <1>0, <2>1, <2>2, HeadSame DEF HeadShape, Undrained, Streamed
<1> QED BY <1>1, <1>3, <1>4, <1>5, <1>6, <1>7, <1>8 DEF FinishSteps

LEMMA HeadStep == HeadInv /\ [Next]_vars => HeadInv'
<1> SUFFICES ASSUME HeadInv, [Next]_vars PROVE HeadInv'
  OBVIOUS
<1>1. CASE Finished \/ UNCHANGED vars
  <2>1. UNCHANGED vars
    BY <1>1 DEF Finished
  <2> QED BY <2>1 DEF vars, sink, pumping, waiting, HeadInv, HeadShape, HeadOpen, TailIsNext,
                    HasTail, NumberedFrom, Undrained, Streamed
<1> QED BY <1>1, HeadPump, HeadWaiters, HeadFinish DEF Next, Choices

\* A DropNewest buffer of any size, whatever the child writes and however it is
\* read, yields, keeps and returns the first lines of the output and skips none.
THEOREM HeadCorrect == Spec => []HeadIsPrefix
<1>1. HeadInv => HeadIsPrefix
  <2> SUFFICES ASSUME HeadInv, setup.policy.mode = "DropNewest" PROVE HeadIsPrefix
    BY DEF HeadIsPrefix
  <2>1. HeadShape /\ HeadOpen /\ NumberedFrom(0, delivered) /\ NumberedFrom(0, result.lines)
    BY DEF HeadInv
  <2>2. IsPrefix(result.lines)
    BY <2>1, SeqShape DEF HeadShape, IsPrefix, NumberedFrom
  <2>3. ASSUME ~inner.discarding, result.how = "none" PROVE IsPrefix(delivered \o inner.lines)
    <3>1. NumberedFrom(Len(delivered), inner.lines)
      BY <2>1, <2>3 DEF HeadShape, HeadOpen, Undrained
    <3>2. IsSeq(delivered) /\ IsSeq(inner.lines)
      BY <2>1 DEF HeadShape
    <3>3. Len(delivered) \in Nat /\ Len(inner.lines) \in Nat
      BY <3>2, SeqShape
    <3> SUFFICES ASSUME NEW i \in 1..Len(delivered) + Len(inner.lines)
                 PROVE  (delivered \o inner.lines)[i].no = i
      BY <3>2, SeqConcat DEF IsPrefix
    <3>4. CASE i <= Len(delivered)
      BY <2>1, <3>2, <3>3, <3>4, SeqConcat DEF NumberedFrom
    <3>5. CASE ~(i <= Len(delivered))
      <4>1. i - Len(delivered) \in 1..Len(inner.lines)
        BY <3>3, <3>5
      <4>2. inner.lines[i - Len(delivered)].no = Len(delivered) + (i - Len(delivered))
        BY <3>1, <4>1 DEF NumberedFrom
      <4> QED BY <3>2, <3>3, <3>5, <4>2, SeqConcat
    <3> QED BY <3>4, <3>5
  <2> QED BY <2>2, <2>3 DEF HeadIsPrefix
<1> QED BY <1>1, HeadInit, HeadStep, PTL DEF Spec

-----------------------------------------------------------------------------
(* Induction over the naturals, in terms of sets: the least element is that of *)
(* the smallest of the intervals 1..n.                                         *)

LEMMA LeastNatural ==
    ASSUME NEW T, T \subseteq Nat, T # {}
    PROVE  \E m \in T : \A k \in T : m <= k
<1> DEFINE I == {1..n : n \in T}
<1>1. I \subseteq FiniteSubsetsOf(Nat) /\ I # {}
  <2>1. ASSUME NEW n \in T PROVE IsFiniteSet(1..n) /\ 1..n \in SUBSET Nat
    BY FS_Interval
  <2> QED BY <2>1 DEF FiniteSubsetsOf
<1>2. PICK x \in I : \A y \in I : ~ (<<y, x>> \in StrictSubsetOrdering(Nat))
  <2> HIDE DEF I
  <2> QED BY <1>1, FS_StrictSubsetOrderingWellFounded, WFMin
<1>3. PICK m \in T : x = 1..m
  OBVIOUS
<1>4. ASSUME NEW k \in T, ~ (m <= k) PROVE FALSE
  <2>1. 1..k \subseteq 1..m /\ m \in 1..m /\ m \notin 1..k
    BY <1>4
  <2>2. <<1..k, 1..m>> \in StrictSubsetOrdering(Nat)
    BY <2>1 DEF StrictSubsetOrdering
  <2> QED BY <1>2, <1>3, <2>2
<1> QED BY <1>4

LEMMA SetInduction ==
    ASSUME NEW S, 0 \in S, \A n \in Nat : n \in S => n + 1 \in S
    PROVE  Nat \subseteq S
<1> SUFFICES ASSUME Nat \ S # {} PROVE FALSE
  OBVIOUS
<1>1. PICK m \in Nat \ S : \A k \in Nat \ S : m <= k
  BY LeastNatural
<1>2. m # 0 /\ m - 1 \in Nat /\ m - 1 \notin Nat \ S
  BY <1>1
<1>3. (m - 1) + 1 \in S
  BY <1>2
<1> QED BY <1>2, <1>3

\* A recursion whose step from k - 1 to k adds t[k]: how StartOf and BytesOf sum.
Sums(f, t, n) ==
    f \in [0..n -> Nat] /\ f[0] = 0 /\ \A k \in 1..n : f[k] = f[k - 1] + t[k]

LEMMA SumExists ==
    ASSUME NEW n \in Nat, NEW t \in [1..n -> Nat]
    PROVE  \E f : Sums(f, t, n)
<1> DEFINE S == {m \in Nat : m <= n => \E f : Sums(f, t, m)}
<1>1. 0 \in S
  <2> DEFINE f == [k \in 0..0 |-> 0]
  <2>1. f \in [0..0 -> Nat] /\ f[0] = 0 /\ \A k \in 1..0 : f[k] = f[k - 1] + t[k]
    OBVIOUS
  <2> QED BY <2>1 DEF Sums
<1>2. ASSUME NEW m \in Nat, m \in S PROVE m + 1 \in S
  <2> SUFFICES ASSUME m + 1 <= n PROVE \E f : Sums(f, t, m + 1)
    OBVIOUS
  <2>0. m <= n /\ m + 1 \in 1..n
    OBVIOUS
  <2>1. PICK f : Sums(f, t, m)
    BY <1>2, <2>0
  <2> DEFINE g == [k \in 0..m + 1 |-> IF k = m + 1 THEN f[m] + t[m + 1] ELSE f[k]]
  <2>2. f[m] \in Nat /\ t[m + 1] \in Nat
    BY <2>0, <2>1 DEF Sums
  <2>3. g \in [0..m + 1 -> Nat] /\ g[0] = 0
    BY <2>1, <2>2 DEF Sums
  <2>4. ASSUME NEW k \in 1..m + 1 PROVE g[k] = g[k - 1] + t[k]
    <3>1. CASE k = m + 1
      <4>1. g[k] = f[m] + t[m + 1] /\ g[k - 1] = f[m]
        BY <3>1
      <4> QED BY <3>1, <4>1
    <3>2. CASE k # m + 1
      <4>1. k \in 1..m /\ k - 1 \in 0..m
        BY <3>2
      <4> QED BY <2>1, <4>1 DEF Sums
    <3> QED BY <3>1, <3>2
  <2>5. Sums(g, t, m + 1)
    <3> HIDE DEF g
    <3> QED BY <2>3, <2>4 DEF Sums
  <2> QED BY <2>5
<1>3. Nat \subseteq S
  <2> HIDE DEF S
  <2> QED BY <1>1, <1>2, SetInduction
<1> QED BY <1>3

LEMMA SumUnique ==
    ASSUME NEW n \in Nat, NEW t, NEW f, NEW g, Sums(f, t, n), Sums(g, t, n)
    PROVE  f = g
<1> DEFINE S == {m \in Nat : m <= n => f[m] = g[m]}
<1>1. 0 \in S
  BY DEF Sums
<1>2. ASSUME NEW m \in Nat, m \in S PROVE m + 1 \in S
  <2> SUFFICES ASSUME m + 1 <= n PROVE f[m + 1] = g[m + 1]
    OBVIOUS
  <2>1. f[m] = g[m] /\ m + 1 \in 1..n /\ (m + 1) - 1 = m
    BY <1>2
  <2> QED BY <2>1 DEF Sums
<1>3. Nat \subseteq S
  <2> HIDE DEF S
  <2> QED BY <1>1, <1>2, SetInduction
<1>4. \A m \in 0..n : f[m] = g[m]
  BY <1>3
<1> QED BY <1>4 DEF Sums

\* A sum only grows.
LEMMA SumGrows ==
    ASSUME NEW n \in Nat, NEW t \in [1..n -> Nat], NEW f, Sums(f, t, n),
           NEW i \in 0..n, NEW j \in i..n
    PROVE  f[i] <= f[j]
<1> DEFINE S == {m \in Nat : i + m <= n => f[i] <= f[i + m]}
<1>1. 0 \in S
  BY DEF Sums
<1>2. ASSUME NEW m \in Nat, m \in S PROVE m + 1 \in S
  <2> SUFFICES ASSUME i + (m + 1) <= n PROVE f[i] <= f[i + (m + 1)]
    OBVIOUS
  <2>1. f[i] <= f[i + m] /\ i + (m + 1) \in 1..n /\ i + (m + 1) - 1 = i + m
    BY <1>2
  <2>2. f[i + (m + 1)] = f[i + m] + t[i + (m + 1)]
    BY <2>1 DEF Sums
  <2>3. f[i + m] \in Nat /\ f[i] \in Nat /\ t[i + (m + 1)] \in Nat
    BY <2>1 DEF Sums
  <2> QED BY <2>1, <2>2, <2>3
<1>3. j - i \in S
  <2> HIDE DEF S
  <2>1. j - i \in Nat
    OBVIOUS
  <2> QED BY <1>1, <1>2, <2>1, SetInduction
<1>4. i + (j - i) = j
  OBVIOUS
<1> QED BY <1>3, <1>4

Size(q) == [k \in 1..Len(q) |-> q[k].len]

\* BytesOf is the sum of the lengths, and StartOf the sum of lengths and terminators.
LEMMA BytesSum ==
    ASSUME NEW q \in Seq(Line)
    PROVE  \E f : Sums(f, Size(q), Len(q)) /\ BytesOf(q) = f[Len(q)]
<1>1. Len(q) \in Nat /\ Size(q) \in [1..Len(q) -> Nat]
  <2>1. \A k \in 1..Len(q) : q[k] \in Line
    BY ElementOfSeq
  <2> QED BY <2>1 DEF Size, Line
<1>2. PICK f : Sums(f, Size(q), Len(q))
  BY <1>1, SumExists
<1> DEFINE sum == CHOOSE g : g = [k \in 0..Len(q) |-> IF k = 0 THEN 0 ELSE g[k - 1] + q[k].len]
<1>3. f = [k \in 0..Len(q) |-> IF k = 0 THEN 0 ELSE f[k - 1] + q[k].len]
  BY <1>1, <1>2 DEF Sums, Size
<1>4. sum = [k \in 0..Len(q) |-> IF k = 0 THEN 0 ELSE sum[k - 1] + q[k].len]
  BY <1>3
<1>5. BytesOf(q) = sum[Len(q)]
  BY DEF BytesOf
<1>6. ASSUME NEW g, g = [k \in 0..Len(q) |-> IF k = 0 THEN 0 ELSE g[k - 1] + q[k].len]
      PROVE  g = f
  <2> DEFINE S == {m \in Nat : m <= Len(q) => g[m] = f[m]}
  <2>1. 0 \in S
    BY <1>1, <1>2, <1>6 DEF Sums
  <2>2. ASSUME NEW m \in Nat, m \in S PROVE m + 1 \in S
    <3> SUFFICES ASSUME m + 1 <= Len(q) PROVE g[m + 1] = f[m + 1]
      OBVIOUS
    <3>1. g[m] = f[m] /\ m + 1 \in 0..Len(q) /\ (m + 1) - 1 = m /\ m + 1 # 0
      BY <1>1, <2>2
    <3> QED BY <1>3, <1>6, <3>1
  <2>3. Nat \subseteq S
    <3> HIDE DEF S
    <3> QED BY <2>1, <2>2, SetInduction
  <2>4. \A m \in 0..Len(q) : g[m] = f[m]
    BY <1>1, <2>3
  <2> QED BY <1>3, <1>6, <2>4
<1>7. sum = f
  <2> HIDE DEF sum
  <2> QED BY <1>4, <1>6
<1> QED BY <1>2, <1>5, <1>7

LEMMA BytesType == ASSUME NEW q \in Seq(Line) PROVE BytesOf(q) \in Nat
<1>1. PICK f : Sums(f, Size(q), Len(q)) /\ BytesOf(q) = f[Len(q)]
  BY BytesSum
<1> QED BY <1>1, LenProperties DEF Sums

LEMMA BytesEmpty == BytesOf(<<>>) = 0
<1>1. <<>> \in Seq(Line) /\ Len(<<>>) = 0
  BY EmptySeq
<1>2. PICK f : Sums(f, Size(<<>>), Len(<<>>)) /\ BytesOf(<<>>) = f[Len(<<>>)]
  BY <1>1, BytesSum
<1> QED BY <1>1, <1>2 DEF Sums

LEMMA BytesAppend ==
    ASSUME NEW q \in Seq(Line), NEW e \in Line
    PROVE  BytesOf(Append(q, e)) = BytesOf(q) + e.len
<1> DEFINE r == Append(q, e)
           n == Len(q)
<1>1. r \in Seq(Line) /\ Len(r) = n + 1 /\ n \in Nat
      /\ (\A i \in 1..n : r[i] = q[i]) /\ r[n + 1] = e
  BY AppendProperties, LenProperties
<1> HIDE DEF r
<1>2. PICK f : Sums(f, Size(r), n + 1) /\ BytesOf(r) = f[n + 1]
  BY <1>1, BytesSum
<1>3. PICK g : Sums(g, Size(q), n) /\ BytesOf(q) = g[n]
  BY BytesSum
<1> DEFINE h == [k \in 0..n |-> f[k]]
<1>4. Sums(h, Size(q), n)
  <2>1. h \in [0..n -> Nat] /\ h[0] = 0
    BY <1>1, <1>2 DEF Sums
  <2>2. ASSUME NEW k \in 1..n PROVE h[k] = h[k - 1] + Size(q)[k]
    <3>1. k \in 1..n + 1 /\ k - 1 \in 0..n
      BY <1>1
    <3>2. f[k] = f[k - 1] + Size(r)[k]
      BY <1>2, <3>1 DEF Sums
    <3>3. Size(r)[k] = Size(q)[k]
      BY <1>1, <3>1 DEF Size
    <3> QED BY <3>1, <3>2, <3>3
  <2> HIDE DEF h
  <2> QED BY <2>1, <2>2 DEF Sums
<1>5. g = h
  <2> HIDE DEF h
  <2> QED BY <1>1, <1>3, <1>4, SumUnique
<1>6. g[n] = f[n]
  BY <1>1, <1>5
<1>7. n + 1 \in 1..n + 1 /\ (n + 1) - 1 = n
  BY <1>1
<1>8. f[n + 1] = f[n] + Size(r)[n + 1]
  BY <1>2, <1>7 DEF Sums
<1>9. Size(r)[n + 1] = e.len
  BY <1>1, <1>7 DEF Size
<1> QED BY <1>2, <1>3, <1>6, <1>8, <1>9 DEF r

\* The bytes of a sequence that is cut in two.
LEMMA BytesSplit ==
    ASSUME NEW q \in Seq(Line), NEW k \in 0..Len(q)
    PROVE  LET a == SubSeq(q, 1, k)  b == SubSeq(q, k + 1, Len(q)) IN
           /\ a \in Seq(Line) /\ Len(a) = k /\ b \in Seq(Line) /\ Len(b) = Len(q) - k
           /\ \A i \in 1..Len(q) - k : b[i] = q[k + i]
           /\ BytesOf(q) = BytesOf(a) + BytesOf(b)
<1> DEFINE a == SubSeq(q, 1, k)
           b == SubSeq(q, k + 1, Len(q))
           n == Len(q)
<1>0. n \in Nat /\ k \in Nat /\ k <= n /\ \A i \in 1..n : q[i] \in Line
  BY LenProperties, ElementOfSeq
<1>1. a \in Seq(Line) /\ Len(a) = k /\ \A i \in 1..k : a[i] = q[i]
  <2>1. \A i \in 1..k : q[i] \in Line
    BY <1>0
  <2>2. /\ SubSeq(q, 1, k) \in Seq(Line)
        /\ Len(SubSeq(q, 1, k)) = IF 1 <= k THEN k - 1 + 1 ELSE 0
        /\ \A i \in 1..k - 1 + 1 : SubSeq(q, 1, k)[i] = q[1 + i - 1]
    BY <1>0, <2>1, SubSeqProperties
  <2>3. ASSUME NEW i \in 1..k PROVE a[i] = q[i]
    <3>1. i \in 1..k - 1 + 1 /\ 1 + i - 1 = i
      BY <1>0
    <3> QED BY <2>2, <3>1
  <2> QED BY <1>0, <2>2, <2>3
<1>2. b \in Seq(Line) /\ Len(b) = n - k /\ \A i \in 1..n - k : b[i] = q[k + i]
  <2>1. \A i \in k + 1..n : q[i] \in Line
    BY <1>0
  <2>2. /\ SubSeq(q, k + 1, n) \in Seq(Line)
        /\ Len(SubSeq(q, k + 1, n)) = IF k + 1 <= n THEN n - (k + 1) + 1 ELSE 0
        /\ \A i \in 1..n - (k + 1) + 1 : SubSeq(q, k + 1, n)[i] = q[(k + 1) + i - 1]
    BY <1>0, <2>1, SubSeqProperties
  <2>3. ASSUME NEW i \in 1..n - k PROVE b[i] = q[k + i]
    <3>1. i \in 1..n - (k + 1) + 1 /\ (k + 1) + i - 1 = k + i
      BY <1>0
    <3> QED BY <2>2, <3>1
  <2> QED BY <1>0, <2>2, <2>3
<1> HIDE DEF a, b
<1>3. PICK f : Sums(f, Size(q), n) /\ BytesOf(q) = f[n]
  BY BytesSum
<1>4. PICK g : Sums(g, Size(a), k) /\ BytesOf(a) = g[k]
  BY <1>1, BytesSum
<1>5. PICK h : Sums(h, Size(b), n - k) /\ BytesOf(b) = h[n - k]
  BY <1>2, BytesSum
<1> DEFINE s == [i \in 0..n |-> IF i <= k THEN g[i] ELSE g[k] + h[i - k]]
<1>6. g[k] \in Nat /\ h[0] = 0 /\ \A i \in 0..n - k : h[i] \in Nat
  <2>1. g \in [0..k -> Nat] /\ h \in [0..n - k -> Nat] /\ h[0] = 0 /\ k \in 0..k
    BY <1>0, <1>4, <1>5 DEF Sums
  <2> QED BY <2>1
<1>7. s \in [0..n -> Nat] /\ s[0] = 0
  <2>1. ASSUME NEW i \in 0..n PROVE s[i] \in Nat
    <3>1. CASE i <= k
      BY <1>0, <1>4, <3>1 DEF Sums
    <3>2. CASE ~ (i <= k)
      <4>1. i - k \in 0..n - k
        BY <1>0, <3>2
      <4> QED BY <1>6, <3>2, <4>1
    <3> QED BY <3>1, <3>2
  <2> QED BY <1>0, <1>4, <2>1 DEF Sums
<1>8. ASSUME NEW i \in 1..n PROVE s[i] = s[i - 1] + Size(q)[i]
  <2>1. CASE i <= k
    <3>1. i \in 1..k /\ i - 1 \in 0..n /\ i - 1 <= k
      BY <1>0, <2>1
    <3>2. g[i] = g[i - 1] + Size(a)[i] /\ Size(a)[i] = Size(q)[i]
      BY <1>1, <1>4, <3>1 DEF Sums, Size
    <3> QED BY <2>1, <3>1, <3>2
  <2>2. CASE ~ (i <= k)
    <3>1. i - k \in 1..n - k /\ i - 1 \in 0..n /\ k + (i - k) = i /\ (i - k) - 1 = (i - 1) - k
      BY <1>0, <2>2
    <3>2. h[i - k] = h[(i - k) - 1] + Size(b)[i - k] /\ Size(b)[i - k] = Size(q)[i]
      BY <1>2, <1>5, <3>1 DEF Sums, Size
    <3>3. Size(q)[i] \in Nat
      BY <1>0 DEF Size, Line
    <3>4. s[i] = g[k] + h[i - k]
      BY <2>2
    <3>5. s[i - 1] = g[k] + h[(i - k) - 1]
      <4>1. CASE i - 1 <= k
        <5>1. i - 1 = k /\ (i - k) - 1 = 0
          BY <1>0, <2>2, <4>1
        <5> QED BY <1>6, <3>1, <4>1, <5>1
      <4>2. CASE ~ (i - 1 <= k)
        BY <3>1, <4>2
      <4> QED BY <4>1, <4>2
    <3>6. h[(i - k) - 1] \in Nat
      BY <1>0, <1>6, <3>1
    <3> QED BY <1>6, <3>2, <3>3, <3>4, <3>5, <3>6
  <2> QED BY <2>1, <2>2
<1>9. s = f
  <2>1. Sums(s, Size(q), n)
    <3> HIDE DEF s
    <3> QED BY <1>7, <1>8 DEF Sums
  <2> HIDE DEF s
  <2> QED BY <1>0, <1>3, <2>1, SumUnique
<1>10. s[n] = g[k] + h[n - k]
  <2>1. CASE n = k
    BY <1>0, <1>6, <2>1
  <2>2. CASE n # k
    BY <1>0, <2>2
  <2> QED BY <2>1, <2>2
<1>11. BytesOf(q) = BytesOf(a) + BytesOf(b)
  <2> HIDE DEF s
  <2> QED BY <1>3, <1>4, <1>5, <1>9, <1>10
<1> QED BY <1>1, <1>2, <1>11 DEF a, b

LEMMA BytesTail ==
    ASSUME NEW q \in Seq(Line), q # <<>>
    PROVE  BytesOf(q) = Head(q).len + BytesOf(Tail(q)) /\ Head(q) \in Line
<1>1. Len(q) \in Nat /\ Len(q) >= 1 /\ 1 \in 0..Len(q) /\ q[1] \in Line /\ Head(q) = q[1]
  BY EmptySeq, ElementOfSeq
<1>2. Tail(q) = SubSeq(q, 2, Len(q))
  BY TailIsSubSeq
<1>3. BytesOf(q) = BytesOf(SubSeq(q, 1, 1)) + BytesOf(SubSeq(q, 1 + 1, Len(q)))
  BY <1>1, BytesSplit
<1>4. SubSeq(q, 1, 1) = Append(<<>>, q[1])
  <2>1. SubSeq(q, 1, 1) \in Seq(Line) /\ Len(SubSeq(q, 1, 1)) = 1 /\ SubSeq(q, 1, 1)[1] = q[1]
    BY <1>1, SubSeqProperties
  <2>2. Append(<<>>, q[1]) \in Seq(Line) /\ Len(Append(<<>>, q[1])) = 1
        /\ Append(<<>>, q[1])[1] = q[1]
    <3>1. <<>> \in Seq(Line) /\ Len(<<>>) = 0
      BY EmptySeq
    <3>2. /\ Append(<<>>, q[1]) \in Seq(Line)
          /\ Len(Append(<<>>, q[1])) = Len(<<>>) + 1
          /\ Append(<<>>, q[1])[Len(<<>>) + 1] = q[1]
      BY <1>1, <3>1, AppendProperties
    <3> QED BY <3>1, <3>2
  <2>3. \A i \in 1..1 : SubSeq(q, 1, 1)[i] = Append(<<>>, q[1])[i]
    BY <2>1, <2>2
  <2> QED BY <2>1, <2>2, <2>3, SeqEqual
<1>5. BytesOf(Append(<<>>, q[1])) = 0 + q[1].len
  BY <1>1, EmptySeq, BytesEmpty, BytesAppend
<1>6. q[1].len \in Nat
  BY <1>1 DEF Line
<1>7. BytesOf(SubSeq(q, 1, 1)) = 0 + q[1].len
  BY <1>4, <1>5, Zenon
<1>8. BytesOf(Tail(q)) = BytesOf(SubSeq(q, 1 + 1, Len(q)))
  <2>1. 1 + 1 = 2
    OBVIOUS
  <2> QED BY <1>2, <2>1, Zenon
<1>9. BytesOf(q) = (0 + q[1].len) + BytesOf(Tail(q))
  BY <1>3, <1>7, <1>8, Zenon
<1>10. BytesOf(Tail(q)) \in Nat
  BY HeadTailProperties, BytesType
<1> HIDE DEF BytesOf
<1> QED BY <1>1, <1>6, <1>9, <1>10

-----------------------------------------------------------------------------
(* Where lines begin.                                                          *)

Spans == [i \in 1..Len(script) |-> script[i] + 1]

\* Lines follow each other without a gap.
LEMMA StartFacts ==
    ASSUME script \in Seq(Nat)
    PROVE  /\ \A i \in 1..Len(script) + 1 : StartOf(i) \in Nat
           /\ StartOf(1) = 0
           /\ \A i \in 1..Len(script) : StartOf(i + 1) = StartOf(i) + script[i] + 1
           /\ \A i \in 1..Len(script) + 1 : \A j \in i..Len(script) + 1 : StartOf(i) <= StartOf(j)
<1> DEFINE n == Len(script)
<1>1. n \in Nat /\ Spans \in [1..n -> Nat] /\ \A i \in 1..n : script[i] \in Nat
  <2>1. \A k \in 1..n : script[k] \in Nat
    BY ElementOfSeq
  <2> QED BY <2>1, LenProperties DEF Spans
<1>2. PICK f : Sums(f, Spans, n)
  BY <1>1, SumExists
<1> DEFINE r == [k \in 1..n + 1 |-> f[k - 1]]
           start == CHOOSE g : g = [k \in 1..n + 1 |->
                                      IF k = 1 THEN 0 ELSE g[k - 1] + script[k - 1] + 1]
<1>3. r = [k \in 1..n + 1 |-> IF k = 1 THEN 0 ELSE r[k - 1] + script[k - 1] + 1]
  <2> SUFFICES ASSUME NEW k \in 1..n + 1
               PROVE  r[k] = IF k = 1 THEN 0 ELSE r[k - 1] + script[k - 1] + 1
    OBVIOUS
  <2>1. CASE k = 1
    BY <1>2, <2>1 DEF Sums
  <2>2. CASE k # 1
    <3>1. k - 1 \in 1..n /\ k - 1 \in 1..n + 1 /\ (k - 1) - 1 \in 0..n
      BY <1>1, <2>2
    <3>2. f[k - 1] = f[(k - 1) - 1] + Spans[k - 1]
      BY <1>2, <3>1 DEF Sums
    <3>3. Spans[k - 1] = script[k - 1] + 1
      BY <3>1 DEF Spans
    <3>4. script[k - 1] \in Nat /\ f[(k - 1) - 1] \in Nat
      BY <1>1, <1>2, <3>1 DEF Sums
    <3> QED BY <2>2, <3>1, <3>2, <3>3, <3>4
  <2> QED BY <2>1, <2>2
<1>4. start = [k \in 1..n + 1 |-> IF k = 1 THEN 0 ELSE start[k - 1] + script[k - 1] + 1]
  <2> HIDE DEF r
  <2> QED BY <1>3
<1>5. \A i : StartOf(i) = start[i]
  BY DEF StartOf
<1>6. \A k \in 1..n + 1 : start[k] = r[k]
  <2> HIDE DEF r, start
  <2> DEFINE S == {m \in Nat : m + 1 <= n + 1 => start[m + 1] = r[m + 1]}
  <2>1. 0 \in S
    BY <1>1, <1>3, <1>4
  <2>2. ASSUME NEW m \in Nat, m \in S PROVE m + 1 \in S
    <3> SUFFICES ASSUME (m + 1) + 1 <= n + 1 PROVE start[(m + 1) + 1] = r[(m + 1) + 1]
      OBVIOUS
    <3>1. start[m + 1] = r[m + 1] /\ (m + 1) + 1 \in 1..n + 1 /\ (m + 1) + 1 # 1
          /\ ((m + 1) + 1) - 1 = m + 1
      BY <1>1, <2>2
    <3> QED BY <1>3, <1>4, <3>1
  <2>3. Nat \subseteq S
    <3> HIDE DEF S
    <3> QED BY <2>1, <2>2, SetInduction
  <2>4. ASSUME NEW k \in 1..n + 1 PROVE start[k] = r[k]
    <3>1. k - 1 \in Nat /\ (k - 1) + 1 = k /\ k <= n + 1
      BY <1>1
    <3> QED BY <2>3, <3>1
  <2> QED BY <2>4
<1> HIDE DEF start
<1>7. \A i \in 1..n + 1 : StartOf(i) = f[i - 1]
  BY <1>5, <1>6
<1>8. ASSUME NEW i \in 1..n + 1 PROVE StartOf(i) \in Nat
  <2>1. i - 1 \in 0..n
    BY <1>1
  <2> QED BY <1>2, <1>7, <2>1 DEF Sums
<1>9. StartOf(1) = 0
  BY <1>1, <1>2, <1>7 DEF Sums
<1>10. ASSUME NEW i \in 1..n PROVE StartOf(i + 1) = StartOf(i) + script[i] + 1
  <2>1. i \in 1..n + 1 /\ i + 1 \in 1..n + 1 /\ (i + 1) - 1 = i /\ i - 1 \in 0..n
    BY <1>1
  <2>2. f[i] = f[i - 1] + Spans[i] /\ Spans[i] = script[i] + 1
    BY <1>2 DEF Sums, Spans
  <2>3. f[i - 1] \in Nat /\ script[i] \in Nat
    BY <1>1, <1>2, <2>1 DEF Sums
  <2>4. StartOf(i + 1) = f[i] /\ StartOf(i) = f[i - 1]
    BY <1>7, <2>1
  <2> QED BY <2>2, <2>3, <2>4
<1>11. ASSUME NEW i \in 1..n + 1, NEW j \in i..n + 1 PROVE StartOf(i) <= StartOf(j)
  <2>1. i - 1 \in 0..n /\ j - 1 \in i - 1..n /\ j \in 1..n + 1
    BY <1>1
  <2>2. f[i - 1] <= f[j - 1]
    BY <1>1, <1>2, <2>1, SumGrows
  <2> QED BY <1>7, <2>1, <2>2
<1> QED BY <1>8, <1>9, <1>10, <1>11

-----------------------------------------------------------------------------
(* What recording a line does, field by field.                                 *)

InnerType ==
    [lines : Seq(Line), bytes : Nat, seen : Nat, closed : BOOLEAN,
     overflowed : BOOLEAN, maxLines : SUBSET Nat, maxBytes : SUBSET Nat,
     mode : Modes, discarding : BOOLEAN, sealed : BOOLEAN, tail : Line,
     tailPending : BOOLEAN, tailOversized : BOOLEAN, tailFinal : BOOLEAN]

\* The backlog and its tally agree and keep to the caps (BacklogWithinCeilings).
Ceilings(in) ==
    /\ in.bytes = BytesOf(in.lines)
    /\ \A n \in in.maxLines : Len(in.lines) <= n
    /\ \A b \in in.maxBytes : in.bytes <= b /\ Len(in.lines) <= b
    /\ in.mode = "Error" /\ in.maxLines = {} /\ in.maxBytes = {} => in.lines = <<>>

\* The fields that a recorded line leaves alone.
SameRest(a, b) ==
    /\ b.seen = a.seen /\ b.closed = a.closed /\ b.maxLines = a.maxLines
    /\ b.maxBytes = a.maxBytes /\ b.mode = a.mode /\ b.discarding = a.discarding
    /\ b.tail = a.tail /\ b.tailPending = a.tailPending /\ b.tailOversized = a.tailOversized

\* r is q without its k first lines.
IsSuffix(q, r, k) ==
    /\ k \in 0..Len(q) /\ r \in Seq(Line) /\ Len(r) = Len(q) - k
    /\ \A i \in 1..Len(r) : r[i] = q[k + i]

LEMMA WithoutFacts ==
    ASSUME NEW in \in InnerType, in.bytes = BytesOf(in.lines), NEW k \in 0..Len(in.lines)
    PROVE  /\ Without(in, k) \in InnerType /\ SameRest(in, Without(in, k))
           /\ Without(in, k).tailFinal = in.tailFinal /\ Without(in, k).sealed = in.sealed
           /\ Without(in, k).overflowed = in.overflowed
           /\ IsSuffix(in.lines, Without(in, k).lines, k)
           /\ Without(in, k).bytes = BytesOf(Without(in, k).lines)
           /\ Without(in, k).bytes <= in.bytes
<1> DEFINE q == in.lines
           a == SubSeq(q, 1, k)
           b == SubSeq(q, k + 1, Len(q))
<1>1. q \in Seq(Line) /\ Len(q) \in Nat /\ in.bytes \in Nat
  BY DEF InnerType
<1>2. /\ a \in Seq(Line) /\ b \in Seq(Line) /\ Len(b) = Len(q) - k
      /\ \A i \in 1..Len(q) - k : b[i] = q[k + i]
      /\ BytesOf(q) = BytesOf(a) + BytesOf(b)
  BY <1>1, BytesSplit
<1>3. BytesOf(a) \in Nat /\ BytesOf(b) \in Nat
  BY <1>2, BytesType
<1>4. Less(in.bytes, BytesOf(a)) = BytesOf(b)
  <2> HIDE DEF a, b
  <2> QED BY <1>2, <1>3 DEF Less
<1>5. Without(in, k) = [in EXCEPT !.lines = b, !.bytes = BytesOf(b)]
  BY <1>4 DEF Without
<1>6. IsSuffix(q, b, k)
  BY <1>1, <1>2 DEF IsSuffix
<1>7. BytesOf(b) <= in.bytes
  <2> HIDE DEF a, b
  <2> QED BY <1>2, <1>3
<1> HIDE DEF a, b
<1>8. /\ Without(in, k) \in InnerType
      /\ Without(in, k).lines = b /\ Without(in, k).bytes = BytesOf(b)
      /\ SameRest(in, Without(in, k))
      /\ Without(in, k).tailFinal = in.tailFinal /\ Without(in, k).sealed = in.sealed
      /\ Without(in, k).overflowed = in.overflowed
  BY <1>2, <1>3, <1>5 DEF InnerType, SameRest
<1> QED BY <1>6, <1>7, <1>8

\* The eviction loop ends, at a backlog that fits or is empty.
LEMMA EvictedFacts ==
    ASSUME NEW in \in InnerType
    PROVE  /\ Evicted(in) \in 0..Len(in.lines)
           /\ Evicted(in) = Len(in.lines) \/ ~OverBacklog(Without(in, Evicted(in)))
<1> DEFINE n == Len(in.lines)
           T == {k \in 0..n : k = n \/ ~OverBacklog(Without(in, k))}
<1>1. n \in Nat
  BY DEF InnerType
<1>2. T \subseteq Nat /\ n \in T
  BY <1>1
<1>3. PICK m \in T : \A k \in T : m <= k
  <2> HIDE DEF T
  <2> QED BY <1>2, LeastNatural
<1>4. ASSUME NEW j \in 0..m - 1 PROVE OverBacklog(Without(in, j))
  <2>1. j \in 0..n /\ ~ (m <= j)
    BY <1>1, <1>3
  <2> QED BY <1>3, <2>1
<1>5. \E k \in 0..n : /\ k = n \/ ~OverBacklog(Without(in, k))
                      /\ \A j \in 0..k - 1 : OverBacklog(Without(in, j))
  BY <1>3, <1>4
<1> QED BY <1>5 DEF Evicted

LEMMA AppendedFacts ==
    ASSUME NEW in \in InnerType, in.bytes = BytesOf(in.lines), NEW line \in Line
    PROVE  /\ Appended(in, line) \in InnerType /\ SameRest(in, Appended(in, line))
           /\ Appended(in, line).tailFinal = in.tailFinal
           /\ Appended(in, line).sealed = in.sealed
           /\ Appended(in, line).overflowed = in.overflowed
           /\ Appended(in, line).lines = Append(in.lines, line)
           /\ Appended(in, line).bytes = in.bytes + line.len
           /\ Appended(in, line).bytes = BytesOf(Append(in.lines, line))
           /\ IsSuffix(Append(in.lines, line), Append(in.lines, line), 0)
           /\ Len(Append(in.lines, line)) = Len(in.lines) + 1
<1>1. in.lines \in Seq(Line) /\ in.bytes \in Nat /\ line.len \in Nat
  BY DEF InnerType, Line
<1>2. Append(in.lines, line) \in Seq(Line) /\ Len(Append(in.lines, line)) = Len(in.lines) + 1
  BY <1>1, AppendProperties
<1>3. BytesOf(Append(in.lines, line)) = in.bytes + line.len
  BY <1>1, BytesAppend
<1>4. IsSuffix(Append(in.lines, line), Append(in.lines, line), 0)
  <2>1. Len(Append(in.lines, line)) \in Nat
    BY <1>2, LenProperties
  <2> QED BY <1>2, <2>1 DEF IsSuffix
<1> DEFINE q == Append(in.lines, line)
<1>5. Appended(in, line) = [in EXCEPT !.lines = q, !.bytes = in.bytes + line.len]
  BY DEF Appended
<1>6. q \in Seq(Line) /\ in.bytes + line.len \in Nat
  BY <1>1, <1>2
<1> HIDE DEF q
<1>7. /\ Appended(in, line) \in InnerType /\ SameRest(in, Appended(in, line))
      /\ Appended(in, line).tailFinal = in.tailFinal
      /\ Appended(in, line).sealed = in.sealed
      /\ Appended(in, line).overflowed = in.overflowed
      /\ Appended(in, line).lines = q
      /\ Appended(in, line).bytes = in.bytes + line.len
  BY <1>5, <1>6 DEF InnerType, SameRest
<1> QED BY <1>2, <1>3, <1>4, <1>7 DEF q

LEMMA SupersededFacts ==
    ASSUME NEW in \in InnerType
    PROVE  /\ Superseded(in) \in InnerType /\ SameRest(in, Superseded(in))
           /\ Superseded(in).lines = in.lines /\ Superseded(in).bytes = in.bytes
           /\ Superseded(in).sealed = in.sealed /\ Superseded(in).overflowed = in.overflowed
           /\ Superseded(in).tailFinal = (in.tailFinal \/ in.tailPending)
<1>1. Superseded(in) = [in EXCEPT !.tailFinal = in.tailFinal \/ in.tailPending]
  BY DEF Superseded
<1> QED BY <1>1 DEF InnerType, SameRest

\* What became of a line that came in: let in, perhaps for older ones, or refused.
LetIn(in, out, line, k) ==
    /\ ~in.discarding /\ IsSuffix(Append(in.lines, line), out.inner.lines, k)
    /\ out.lost <=> k > 0
    /\ out.inner.bytes <= in.bytes + line.len
Refused(in, out) ==
    /\ out.inner.lines = in.lines /\ out.inner.bytes = in.bytes
    /\ out.lost <=> ~in.discarding

Recorded(in, out) ==
    /\ out.inner \in InnerType /\ out.lost \in BOOLEAN
    /\ SameRest(in, out.inner) /\ ~HasTail(out.inner)
    /\ out.inner.overflowed => in.overflowed \/ out.lost

LEMMA RetainFacts ==
    ASSUME NEW in \in InnerType, in.bytes = BytesOf(in.lines),
           NEW line \in Line, NEW total \in Nat
    PROVE  LET out == Retained(in, line, total) IN
           /\ Recorded(in, out)
           /\ Refused(in, out) \/ \E k \in Nat : LetIn(in, out, line, k)
           /\ Ceilings(in) /\ Len(in.lines) < total /\ in.bytes + line.len <= in.seen
                => Ceilings(out.inner)
<1> DEFINE s == Superseded(in)
           out == Retained(in, line, total)
           fine == Ceilings(in) /\ Len(in.lines) < total /\ in.bytes + line.len <= in.seen
<1>1. /\ s \in InnerType /\ SameRest(in, s) /\ s.lines = in.lines /\ s.bytes = in.bytes
      /\ s.sealed = in.sealed /\ s.overflowed = in.overflowed
      /\ s.tailFinal = (in.tailFinal \/ in.tailPending)
  BY SupersededFacts
<1>2. out = IF in.discarding THEN Outcome(s, FALSE) ELSE ByMode(s, line, total)
  BY DEF Retained
<1> HIDE DEF s
<1>3. s.mode = in.mode /\ s.discarding = in.discarding /\ s.tailPending = in.tailPending
      /\ s.seen = in.seen /\ s.maxLines = in.maxLines /\ s.maxBytes = in.maxBytes
  BY <1>1 DEF SameRest
<1>4. Ceilings(in) => Ceilings(s)
  BY <1>1, <1>3 DEF Ceilings
<1>5. /\ in.lines \in Seq(Line) /\ Len(in.lines) \in Nat /\ in.bytes \in Nat /\ line.len \in Nat
      /\ in.mode \in Modes /\ in.discarding \in BOOLEAN /\ in.seen \in Nat
      /\ in.maxLines \subseteq Nat /\ in.maxBytes \subseteq Nat
  BY DEF InnerType, Line
<1> DEFINE g == Appended(s, line)
           q == Append(in.lines, line)
<1>6. /\ g \in InnerType /\ SameRest(s, g) /\ g.tailFinal = s.tailFinal /\ g.sealed = s.sealed
      /\ g.overflowed = s.overflowed /\ g.lines = q /\ g.bytes = in.bytes + line.len
      /\ g.bytes = BytesOf(q) /\ IsSuffix(q, q, 0) /\ Len(q) = Len(in.lines) + 1
  BY <1>1, AppendedFacts
<1> HIDE DEF g, q
\* A state of the buffer with these fields is a recorded one.
<1>7. ASSUME NEW o, NEW lost \in BOOLEAN, out = Outcome(o, lost), o \in InnerType, SameRest(s, o),
             o.tailFinal = s.tailFinal, o.overflowed => s.overflowed \/ lost
      PROVE  Recorded(in, out)
  <2>1. SameRest(in, o)
    BY <1>1, <1>7 DEF SameRest
  <2>2. ~HasTail(o)
    BY <1>1, <1>3, <1>7 DEF HasTail, SameRest
  <2> QED BY <1>1, <1>7, <2>1, <2>2 DEF Recorded, Outcome
<1>7b. ASSUME out = Outcome(g, FALSE), ~in.discarding PROVE LetIn(in, out, line, 0)
  <2>1. out.inner = g /\ out.lost = FALSE
    BY <1>7b DEF Outcome
  <2>2. out.lost <=> 0 > 0
    BY <2>1
  <2> HIDE DEF out
  <2>3. out.inner.bytes <= in.bytes + line.len /\ IsSuffix(q, out.inner.lines, 0)
    BY <1>5, <1>6, <2>1
  <2> QED BY <1>7b, <2>2, <2>3 DEF LetIn, q
<1>8. CASE in.discarding
  <2>1. out = Outcome(s, FALSE)
    BY <1>2, <1>8
  <2>2. Recorded(in, out)
    BY <1>1, <1>7, <2>1 DEF SameRest
  <2> QED BY <1>1, <1>4, <1>8, <2>1, <2>2 DEF Refused, Outcome
<1>9. CASE ~in.discarding /\ in.mode = "Error"
  <2>1. out = Ceiled(s, line, total)
    BY <1>2, <1>3, <1>9 DEF ByMode
  <2>2. CASE OverCeiling(s, total)
    <3> DEFINE o == [s EXCEPT !.overflowed = TRUE]
    <3>1. out = Outcome(o, TRUE)
      BY <2>1, <2>2 DEF Ceiled
    <3>2. o \in InnerType /\ SameRest(s, o) /\ o.tailFinal = s.tailFinal
          /\ o.lines = s.lines /\ o.bytes = s.bytes
      BY <1>1 DEF InnerType, SameRest
    <3> HIDE DEF o
    <3>3. Recorded(in, out)
      BY <1>7, <3>1, <3>2
    <3>4. Refused(in, out)
      BY <1>1, <1>9, <3>1, <3>2 DEF Refused, Outcome
    <3>5. fine => Ceilings(out.inner)
      BY <1>4, <3>1, <3>2 DEF Ceilings, SameRest, Outcome
    <3> QED BY <3>3, <3>4, <3>5
  <2>3. CASE ~OverCeiling(s, total)
    <3>1. out = Outcome(g, FALSE)
      BY <2>1, <2>3 DEF Ceiled, g
    <3>2. Recorded(in, out)
      BY <1>6, <1>7, <3>1
    <3>3. LetIn(in, out, line, 0)
      BY <1>9, <1>7b, <3>1
    <3>4. /\ ~(in.maxLines = {} /\ in.maxBytes = {})
          /\ \A n \in in.maxLines : ~ (total > n)
          /\ \A b \in in.maxBytes : ~ (in.seen > b) /\ ~ (total > b)
      BY <1>3, <2>3 DEF OverCeiling
    <3>5. ASSUME fine PROVE Ceilings(out.inner)
      <4>1. out.inner = g
        BY <3>1 DEF Outcome
      <4>2. g.maxLines = in.maxLines /\ g.maxBytes = in.maxBytes /\ Len(g.lines) = Len(in.lines) + 1
        BY <1>3, <1>6 DEF SameRest
      <4>3. \A n \in g.maxLines : Len(g.lines) <= n
        BY <1>5, <3>4, <3>5, <4>2
      <4>4. \A b \in g.maxBytes : g.bytes <= b /\ Len(g.lines) <= b
        BY <1>5, <1>6, <3>4, <3>5, <4>2
      <4> QED BY <1>6, <3>4, <4>1, <4>2, <4>3, <4>4 DEF Ceilings
    <3> QED BY <3>2, <3>3, <3>5
  <2> QED BY <2>2, <2>3
<1>10. CASE ~in.discarding /\ in.mode = "DropOldest"
  <2> DEFINE e == Evicted(g)
             w == Without(g, e)
  <2>1. out = Outcome(w, e > 0)
    BY <1>2, <1>3, <1>10 DEF ByMode, Rolled, g
  <2>2. e \in 0..Len(q) /\ (e = Len(q) \/ ~OverBacklog(w))
    BY <1>6, EvictedFacts
  <2>3. /\ w \in InnerType /\ SameRest(g, w) /\ w.tailFinal = g.tailFinal
        /\ w.overflowed = g.overflowed /\ IsSuffix(q, w.lines, e)
        /\ w.bytes = BytesOf(w.lines) /\ w.bytes <= g.bytes
    BY <1>6, <2>2, WithoutFacts
  <2> HIDE DEF e, w
  <2>4. SameRest(s, w)
    BY <1>6, <2>3 DEF SameRest
  <2>5. Recorded(in, out)
    <3>1. (e > 0) \in BOOLEAN
      OBVIOUS
    <3> QED BY <1>6, <1>7, <2>1, <2>3, <2>4, <3>1
  <2>6. LetIn(in, out, line, e) /\ e \in Nat
    <3>1. out.inner = w /\ out.lost = (e > 0)
      BY <2>1 DEF Outcome
    <3>2. e \in Nat /\ (out.lost <=> e > 0)
      <4>1. e \in Nat
        BY <1>5, <1>6, <2>2
      <4>2. out.lost <=> e > 0
        BY <3>1, Zenon
      <4> QED BY <4>1, <4>2
    <3> HIDE DEF out
    <3>3. out.inner.bytes <= in.bytes + line.len /\ IsSuffix(q, out.inner.lines, e)
      BY <1>6, <2>3, <3>1
    <3> QED BY <1>10, <3>2, <3>3 DEF LetIn, q
  <2>7. ASSUME fine PROVE Ceilings(out.inner)
    <3>1. out.inner = w
      BY <2>1 DEF Outcome
    <3>2. CASE ~OverBacklog(w)
      <4>1. /\ \A n \in w.maxLines : ~(Len(w.lines) > n)
            /\ \A b \in w.maxBytes : ~(w.bytes > b) /\ ~(Len(w.lines) > b)
        BY <3>2 DEF OverBacklog
      <4>2. Len(w.lines) \in Nat /\ w.bytes \in Nat /\ w.maxLines \subseteq Nat
            /\ w.maxBytes \subseteq Nat /\ w.mode = "DropOldest"
        BY <1>3, <1>10, <2>3, <2>4 DEF InnerType, SameRest
      <4>3. \A n \in w.maxLines : Len(w.lines) <= n
        BY <4>1, <4>2
      <4>4. \A b \in w.maxBytes : w.bytes <= b /\ Len(w.lines) <= b
        BY <4>1, <4>2
      <4> QED BY <2>3, <3>1, <4>2, <4>3, <4>4 DEF Ceilings
    <3>3. CASE e = Len(q)
      <4>1. Len(w.lines) = 0 /\ w.lines \in Seq(Line)
        BY <1>5, <1>6, <2>3, <3>3 DEF IsSuffix
      <4>2. w.lines = <<>>
        BY <4>1, EmptySeq
      <4>3. w.bytes = 0
        BY <2>3, <4>2, BytesEmpty
      <4>4. w.maxLines \subseteq Nat /\ w.maxBytes \subseteq Nat
        BY <2>3 DEF InnerType
      <4> QED BY <2>3, <3>1, <4>1, <4>2, <4>3, <4>4 DEF Ceilings
    <3> QED BY <2>2, <3>2, <3>3
  <2> QED BY <2>5, <2>6, <2>7
<1>11. CASE ~in.discarding /\ in.mode = "DropNewest"
  <2>1. out = Headed(s, line)
    BY <1>2, <1>3, <1>11 DEF ByMode
  <2>2. CASE ~s.sealed /\ WouldFit(s, line.len)
    <3>1. out = Outcome(g, FALSE)
      BY <2>1, <2>2 DEF Headed, g
    <3>2. Recorded(in, out)
      BY <1>6, <1>7, <3>1
    <3>3. LetIn(in, out, line, 0)
      BY <1>11, <1>7b, <3>1
    <3>4. /\ \A n \in in.maxLines : Len(in.lines) < n
          /\ \A b \in in.maxBytes : in.bytes + line.len <= b /\ Len(in.lines) < b
      BY <1>1, <1>3, <2>2 DEF WouldFit
    <3>5. Ceilings(out.inner)
      <4>1. out.inner = g
        BY <3>1 DEF Outcome
      <4>2. g.maxLines = in.maxLines /\ g.maxBytes = in.maxBytes /\ Len(g.lines) = Len(in.lines) + 1
            /\ g.mode = "DropNewest"
        BY <1>3, <1>6, <1>11 DEF SameRest
      <4>3. \A n \in g.maxLines : Len(g.lines) <= n
        BY <1>5, <3>4, <4>2
      <4>4. \A b \in g.maxBytes : g.bytes <= b /\ Len(g.lines) <= b
        BY <1>5, <1>6, <3>4, <4>2
      <4> QED BY <1>6, <4>1, <4>2, <4>3, <4>4 DEF Ceilings
    <3> QED BY <3>2, <3>3, <3>5
  <2>3. CASE ~(~s.sealed /\ WouldFit(s, line.len))
    <3> DEFINE o == [s EXCEPT !.sealed = TRUE]
    <3>1. out = Outcome(o, TRUE)
      BY <2>1, <2>3 DEF Headed
    <3>2. o \in InnerType /\ SameRest(s, o) /\ o.tailFinal = s.tailFinal
          /\ o.lines = s.lines /\ o.bytes = s.bytes /\ o.overflowed = s.overflowed
      BY <1>1 DEF InnerType, SameRest
    <3> HIDE DEF o
    <3>3. Recorded(in, out)
      BY <1>7, <3>1, <3>2
    <3>4. Refused(in, out)
      BY <1>1, <1>11, <3>1, <3>2 DEF Refused, Outcome
    <3>5. fine => Ceilings(out.inner)
      BY <1>4, <3>1, <3>2 DEF Ceilings, SameRest, Outcome
    <3> QED BY <3>3, <3>4, <3>5
  <2> QED BY <2>2, <2>3
<1> QED BY <1>5, <1>8, <1>9, <1>10, <1>11 DEF Modes

LEMMA SkipFacts ==
    ASSUME NEW in \in InnerType
    PROVE  LET out == Skipped(in) IN
           /\ Recorded(in, out) /\ Refused(in, out)
           /\ Ceilings(in) => Ceilings(out.inner)
<1> DEFINE s == Superseded(in)
           out == Skipped(in)
<1>1. /\ s \in InnerType /\ SameRest(in, s) /\ s.lines = in.lines /\ s.bytes = in.bytes
      /\ s.sealed = in.sealed /\ s.overflowed = in.overflowed
      /\ s.tailFinal = (in.tailFinal \/ in.tailPending)
  BY SupersededFacts
<1> DEFINE t == [s EXCEPT !.overflowed = @ \/ in.mode = "Error",
                          !.sealed = @ \/ in.mode = "DropNewest"]
<1>2. out = IF in.discarding THEN Outcome(s, FALSE) ELSE Outcome(t, TRUE)
  BY DEF Skipped
<1> HIDE DEF s
<1>3. t \in InnerType /\ SameRest(s, t) /\ t.tailFinal = s.tailFinal
      /\ t.lines = s.lines /\ t.bytes = s.bytes
  BY <1>1 DEF InnerType, SameRest
<1> HIDE DEF t
<1>4. PICK o \in {s, t} : out = Outcome(o, ~in.discarding) /\ (o = s \/ ~in.discarding)
  <2>1. in.discarding \in BOOLEAN
    BY DEF InnerType
  <2> QED BY <1>2, <2>1
<1>5. o \in InnerType /\ SameRest(in, o) /\ o.tailFinal = s.tailFinal
      /\ o.lines = in.lines /\ o.bytes = in.bytes
  BY <1>1, <1>3 DEF SameRest
<1>6. ~HasTail(o)
  BY <1>1, <1>5 DEF HasTail, SameRest
<1>a. out.inner = o /\ out.lost = ~in.discarding
  BY <1>4 DEF Outcome
<1>b. out.lost \in BOOLEAN /\ (out.lost <=> ~in.discarding) /\ in.discarding \in BOOLEAN
  BY <1>a, Zenon DEF InnerType
<1> HIDE DEF out
<1>7. Recorded(in, out)
  <2>1. o = s => (o.overflowed => in.overflowed)
    BY <1>1
  <2>2. o.overflowed => in.overflowed \/ out.lost
    BY <1>4, <1>b, <2>1
  <2> QED BY <1>5, <1>6, <1>a, <1>b, <2>2 DEF Recorded
<1>8. Refused(in, out)
  BY <1>5, <1>a, <1>b DEF Refused
<1>9. Ceilings(in) => Ceilings(out.inner)
  BY <1>5, <1>a DEF Ceilings, SameRest
<1> QED BY <1>7, <1>8, <1>9 DEF out

\* The fold of the tail into a snapshot is one more line, or nothing.
LEMMA FoldFacts ==
    ASSUME NEW in \in InnerType, in.bytes = BytesOf(in.lines), NEW total \in Nat
    PROVE  LET out == WithTail(in, total) IN
           /\ out.inner \in InnerType /\ out.lost \in BOOLEAN /\ ~HasTail(out.inner)
           /\ \/ out.inner.lines = in.lines
              \/ /\ HasTail(in) /\ ~in.tailOversized
                 /\ \E k \in Nat : IsSuffix(Append(in.lines, in.tail), out.inner.lines, k)
           /\ ~HasTail(in) => out = Outcome(in, FALSE)
           /\ out.inner.seen = in.seen /\ out.inner.closed = in.closed
           /\ out.inner.maxLines = in.maxLines /\ out.inner.maxBytes = in.maxBytes
           /\ out.inner.mode = in.mode /\ out.inner.discarding = in.discarding
<1> DEFINE taken == [in EXCEPT !.tail = NoTail, !.tailPending = FALSE, !.tailFinal = TRUE]
           out == WithTail(in, total)
<1>1. /\ taken \in InnerType /\ taken.lines = in.lines /\ taken.bytes = in.bytes
      /\ taken.seen = in.seen /\ taken.closed = in.closed
      /\ taken.maxLines = in.maxLines /\ taken.maxBytes = in.maxBytes
      /\ taken.mode = in.mode /\ taken.discarding = in.discarding
  BY DEF InnerType, NoTail, Line
<1>2. out = IF ~HasTail(in) THEN Outcome(in, FALSE)
            ELSE IF in.tailOversized THEN Skipped(taken)
            ELSE Retained(taken, in.tail, total)
  BY DEF WithTail
<1>3. in.tail \in Line
  BY DEF InnerType
<1> HIDE DEF taken
<1>4. CASE ~HasTail(in)
  <2>1. out = Outcome(in, FALSE)
    BY <1>2, <1>4
  <2> QED BY <1>4, <2>1 DEF Outcome
<1>5. CASE HasTail(in) /\ in.tailOversized
  <2>1. out = Skipped(taken)
    BY <1>2, <1>5
  <2>2. Recorded(taken, out) /\ Refused(taken, out)
    BY <1>1, <2>1, SkipFacts
  <2> QED BY <1>1, <1>5, <2>2 DEF Recorded, Refused, SameRest
<1>6. CASE HasTail(in) /\ ~in.tailOversized
  <2>1. out = Retained(taken, in.tail, total)
    BY <1>2, <1>6
  <2>2. Recorded(taken, out) /\ (Refused(taken, out) \/ \E k \in Nat : LetIn(taken, out, in.tail, k))
    BY <1>1, <1>3, <2>1, RetainFacts
  <2>3. out.inner.lines = in.lines
        \/ \E k \in Nat : IsSuffix(Append(in.lines, in.tail), out.inner.lines, k)
    BY <1>1, <2>2 DEF Refused, LetIn
  <2> QED BY <1>1, <1>6, <2>2, <2>3 DEF Recorded, SameRest
<1> QED BY <1>4, <1>5, <1>6

-----------------------------------------------------------------------------
(* The invariant about the data, on top of WakeInv, which knows where          *)
(* everybody is.                                                               *)

PumpType ==
    [read : Nat, next : 1..Len(script) + 1, skipping : BOOLEAN, cap : SUBSET Nat,
     end : {"no", "eof", "error"}, total : Nat]

ResultType ==
    [how : {"none", "joined", "overrun", "salvaged"}, lines : Seq(Line),
     truncated : BOOLEAN, overflowed : BOOLEAN, failed : BOOLEAN]

DataType ==
    /\ setup \in Setups /\ inner \in InnerType /\ pump \in PumpType /\ result \in ResultType
    /\ count \in Nat /\ dropped \in Nat /\ readError \in BOOLEAN /\ abortAsked \in BOOLEAN
    /\ delivered \in Seq(Line)

\* Where the pump is, or will be when it has told of a change.
Telling == pumpAt \in {"lost", "publish", "notify"}
Recording == pumpAt \in {"retain", "oversized"}
IsAt(place) == pumpAt = place \/ (Telling /\ then = place)
Through == IsAt("close") \/ IsAt("done")

\* The pump is inside the script: it has read up to the line it is at, what it
\* records is a line or the last piece of one, and what it skips has begun.
ScriptInv ==
    /\ pump.read <= Total
    /\ ~Through => StartOf(pump.next) <= pump.read
    /\ pump.skipping => Pending > 0 /\ pump.next <= Len(script)
    /\ IsAt("last") => ~HasLine
    /\ Recording => /\ pump.next <= Len(script)
                    /\ (then = "split" /\ HasLine) \/ (then = "close" /\ ~HasLine)

\* What the backlog holds was read, counted, and keeps to the ceilings.
TallyInv ==
    /\ Ceilings(inner)
    /\ inner.seen = pump.read
    /\ inner.bytes <= StartOf(pump.next)
    /\ Len(inner.lines) <= count
    /\ Recording => Len(inner.lines) < pump.total /\ pump.total <= count

Ascending(q, n) ==
    /\ \A i, j \in 1..Len(q) : i < j => q[i].no < q[j].no
    /\ \A i \in 1..Len(q) : q[i].no < n

\* Line numbers rise from what was yielded over the backlog to the live tail,
\* which is the line the pump is at.
OrderInv ==
    /\ Ascending(delivered, pump.next) /\ Ascending(inner.lines, pump.next)
    /\ \A i \in 1..Len(delivered), j \in 1..Len(inner.lines) :
         delivered[i].no < inner.lines[j].no
    /\ HasTail(inner) /\ ~inner.tailOversized => inner.tail.no = pump.next
    /\ InOrder(result.lines)

\* A pump that waits for more has published what it waits with.
TailInv ==
    IsAt("read") /\ ~inner.discarding /\ result.how = "none" /\ Pending > 0
    => /\ HasTail(inner)
       /\ inner.tailOversized \/ inner.tail = [no |-> pump.next, len |-> Pending]

HasLost == dropped > 0 \/ pumpAt = "lost"
IsWhole(q) == Len(q) = pump.next - 1 /\ \A i \in 1..pump.next - 1 : q[i] = LineRead(i)
Kept == IF fin \in {"judge", "done"} THEN result.lines ELSE inner.lines

\* A capture that is not salvaged has every line the pump is through with, or
\* the counter of losses says that it has not.
WholeInv ==
    /\ result.how = "none" <=> fin \in {"live", "join"}
    /\ ~Streamed => ~inner.discarding /\ at["reader"] \in {"done", "gone"}
    /\ IsAt("done") => fin = "done" \/ (readError <=> pump.end = "error")
    /\ ~Streamed /\ result.how \in {"none", "joined"} =>
         /\ ~abortAsked
         /\ ~HasLost => IsWhole(Kept)
         /\ HasLost => Len(Kept) < pump.next - 1
         /\ inner.overflowed => HasLost
         /\ result.how = "joined" =>
              /\ pumpAt = "done" /\ fin \in {"collect", "judge", "done"}
              /\ fin = "done" => /\ result.truncated <=> HasLost
                                 /\ result.overflowed => HasLost
                                 /\ result.failed <=> pump.end = "error"

LinesInv == DataType /\ ScriptInv /\ TallyInv /\ OrderInv /\ TailInv /\ WholeInv

\* The script is fixed, and so is where its lines begin.
LEMMA StartSame == ASSUME setup' = setup PROVE \A i : StartOf(i)' = StartOf(i)
BY DEF StartOf, script

LEMMA ScriptFacts ==
    ASSUME setup \in Setups
    PROVE  /\ script \in Seq(Nat) /\ Len(script) \in Nat
           /\ \A i \in 1..Len(script) : script[i] \in Nat
           /\ \A i \in 1..Len(script) + 1 : StartOf(i) \in Nat
           /\ StartOf(1) = 0
           /\ \A i \in 1..Len(script) : StartOf(i + 1) = StartOf(i) + script[i] + 1
           /\ \A i \in 1..Len(script) + 1 : \A j \in i..Len(script) + 1 : StartOf(i) <= StartOf(j)
<1>1. script \in Seq(Nat)
  BY LineAssumption DEF script
<1> QED BY <1>1, StartFacts, LenProperties, ElementOfSeq

LEMMA LinesInit == Init => LinesInv
<1> SUFFICES ASSUME Init PROVE LinesInv
  OBVIOUS
<1>0. setup \in Setups
  BY DEF Init
<1>1. /\ script \in Seq(Nat) /\ Len(script) \in Nat /\ StartOf(1) = 0
      /\ \A i \in 1..Len(script) + 1 : StartOf(i) \in Nat
  BY <1>0, ScriptFacts
<1>2. /\ setup.policy.mode \in Modes /\ setup.policy.maxLines \subseteq Nat
      /\ setup.policy.maxBytes \subseteq Nat
  BY <1>0, LineAssumption
<1>3. <<>> \in Seq(Line) /\ Len(<<>>) = 0 /\ BytesOf(<<>>) = 0
  BY EmptySeq, BytesEmpty
<1>4. DataType
  <2>1. inner \in InnerType
    BY <1>2, <1>3 DEF Init, NewInner, InnerType, NoTail, Line
  <2>2. pump \in PumpType
    BY <1>1 DEF Init, NewPump, PumpType
  <2>3. result \in ResultType
    BY <1>3 DEF Init, NoResult, ResultType
  <2> QED BY <1>0, <1>3, <2>1, <2>2, <2>3 DEF Init, DataType
<1>5. /\ pump.read = 0 /\ pump.next = 1 /\ ~pump.skipping /\ pump.end = "no"
      /\ inner.lines = <<>> /\ inner.bytes = 0 /\ inner.seen = 0 /\ ~inner.tailPending
      /\ ~inner.discarding /\ ~inner.overflowed
      /\ result.how = "none" /\ result.lines = <<>> /\ delivered = <<>> /\ fin = "live"
      /\ pumpAt = "read" /\ dropped = 0 /\ count = 0 /\ ~abortAsked
  BY DEF Init, NewPump, NewInner, NoResult
<1>6. ScriptInv
  BY <1>1, <1>5 DEF ScriptInv, Total, IsAt, Telling, Recording
<1>7. TallyInv
  <2>1. inner.maxLines \subseteq Nat /\ inner.maxBytes \subseteq Nat
    BY <1>4 DEF DataType, InnerType
  <2>2. Ceilings(inner)
    BY <1>3, <1>5, <2>1 DEF Ceilings
  <2> QED BY <1>1, <1>3, <1>5, <2>2 DEF TallyInv, Recording
<1>8. OrderInv
  BY <1>3, <1>5 DEF OrderInv, Ascending, HasTail, InOrder
<1>9. TailInv
  BY <1>1, <1>5 DEF TailInv, Pending
<1>10. WholeInv
  <2>1. ~HasLost /\ Kept = <<>> /\ ~IsAt("done")
    BY <1>5 DEF HasLost, Kept, IsAt, Telling
  <2>2. IsWhole(<<>>)
    BY <1>3, <1>5 DEF IsWhole
  <2>3. ~Streamed => at["reader"] = "gone"
    BY DEF Init, Streamed, Waiters
  <2> QED BY <1>5, <2>1, <2>2, <2>3 DEF WholeInv
<1> QED BY <1>4, <1>6, <1>7, <1>8, <1>9, <1>10 DEF LinesInv

-----------------------------------------------------------------------------
(* Steps that touch none of it.                                                *)

\* A reader that is over stays so.
ReaderStays == at["reader"] \in {"done", "gone"} => at'["reader"] \in {"done", "gone"}

\* The pump or a waiter moves on with the same business.
LEMMA SameBusiness ==
    ASSUME LinesInv, ReaderStays, dropped' \in Nat,
           UNCHANGED <<setup, inner, count, readError, pump, abortAsked, delivered, fin, result>>,
           \A place \in {"read", "last", "close", "done"} : IsAt(place)' <=> IsAt(place),
           Recording' => Recording /\ then' = then,
           HasLost' <=> HasLost, pumpAt = "done" => pumpAt' = "done"
    PROVE  LinesInv'
<1>1. DataType'
  BY DEF LinesInv, DataType, PumpType, script
<1>2. \A i : StartOf(i)' = StartOf(i)
  BY StartSame
<1>3. ScriptInv'
  BY <1>2 DEF LinesInv, ScriptInv, Through, Total, Pending, HasLine, script
<1>4. TallyInv'
  BY <1>2 DEF LinesInv, TallyInv
<1>5. OrderInv'
  BY DEF LinesInv, OrderInv
<1>6. TailInv'
  BY <1>2 DEF LinesInv, TailInv, Pending
<1>7. Kept' = Kept /\ (IsWhole(Kept)' <=> IsWhole(Kept))
  BY <1>2 DEF Kept, IsWhole, LineRead, script
<1>8. WholeInv'
  BY <1>7 DEF LinesInv, WholeInv, Streamed, ReaderStays
<1> QED BY <1>1, <1>3, <1>4, <1>5, <1>6, <1>8 DEF LinesInv

\* Nothing is read, recorded or taken: what is left is what the verb does.
LEMMA SameLines ==
    ASSUME LinesInv, DataType', WholeInv', InOrder(result.lines)',
           UNCHANGED <<setup, inner, count, pump, pumpAt, then, delivered>>,
           result'.how = "none" => result.how = "none"
    PROVE  LinesInv'
<1>2. \A i : StartOf(i)' = StartOf(i)
  BY StartSame
<1>3. ScriptInv'
  BY <1>2 DEF LinesInv, ScriptInv, Through, IsAt, Telling, Recording, Total, Pending, HasLine, script
<1>4. TallyInv'
  BY <1>2 DEF LinesInv, TallyInv, Recording
<1>5. OrderInv'
  BY DEF LinesInv, OrderInv
<1>6. TailInv'
  BY <1>2 DEF LinesInv, TailInv, IsAt, Telling, Pending
<1> QED BY <1>3, <1>4, <1>5, <1>6 DEF LinesInv

-----------------------------------------------------------------------------
(* The pump.                                                                   *)

\* What the invariant says of a pump that has a line to finish.
LEMMA AtLine ==
    ASSUME DataType, ScriptInv, ~Through
    PROVE  /\ Pending \in Nat /\ pump.read = StartOf(pump.next) + Pending
           /\ StartOf(pump.next) \in Nat
           /\ \A i \in 1..pump.next - 1 : pump.read >= StartOf(i + 1)
           /\ Pending > 0 => pump.next <= Len(script)
           /\ pump.next <= Len(script) =>
                /\ StartOf(pump.next + 1) = StartOf(pump.next) + script[pump.next] + 1
                /\ script[pump.next] \in Nat
<1>1. setup \in Setups /\ pump.read \in Nat /\ pump.next \in 1..Len(script) + 1
  BY DEF DataType, PumpType
<1>2. /\ Len(script) \in Nat
      /\ \A i \in 1..Len(script) : script[i] \in Nat
      /\ \A i \in 1..Len(script) + 1 : StartOf(i) \in Nat
      /\ \A i \in 1..Len(script) : StartOf(i + 1) = StartOf(i) + script[i] + 1
      /\ \A i \in 1..Len(script) + 1 : \A j \in i..Len(script) + 1 : StartOf(i) <= StartOf(j)
  BY <1>1, ScriptFacts
<1>3. StartOf(pump.next) <= pump.read /\ pump.read <= StartOf(Len(script) + 1)
  BY DEF ScriptInv, Total
<1>4. Pending \in Nat /\ pump.read = StartOf(pump.next) + Pending /\ StartOf(pump.next) \in Nat
  BY <1>1, <1>2, <1>3 DEF Pending
<1>5. ASSUME NEW i \in 1..pump.next - 1 PROVE pump.read >= StartOf(i + 1)
  <2>1. i + 1 \in 1..Len(script) + 1 /\ pump.next \in i + 1..Len(script) + 1
    BY <1>1, <1>2
  <2>2. StartOf(i + 1) <= StartOf(pump.next) /\ StartOf(i + 1) \in Nat
    BY <1>2, <2>1
  <2> QED BY <1>1, <1>3, <1>4, <2>2
<1>6. ASSUME Pending > 0 PROVE pump.next <= Len(script)
  <2>1. pump.next # Len(script) + 1
    BY <1>1, <1>3, <1>4, <1>6
  <2> QED BY <1>1, <1>2, <2>1
<1>7. ASSUME pump.next <= Len(script)
      PROVE  /\ StartOf(pump.next + 1) = StartOf(pump.next) + script[pump.next] + 1
             /\ script[pump.next] \in Nat
  BY <1>1, <1>2, <1>7
<1> QED BY <1>4, <1>5, <1>6, <1>7

LEMMA LinesReads == ASSUME LinesInv, Typed', PumpReads PROVE LinesInv'
<1> USE DEF waiting
<1>0. DataType /\ ScriptInv /\ TallyInv /\ OrderInv /\ TailInv /\ WholeInv
  BY DEF LinesInv
<1>1. PICK n \in 1..Total - pump.read :
          /\ pump' = [pump EXCEPT !.read = @ + n, !.cap = inner.maxBytes]
          /\ inner' = [inner EXCEPT !.seen = @ + n]
  BY DEF PumpReads
<1>2. /\ UNCHANGED <<setup, count, dropped, readError, then, abortAsked, at, delivered, fin, result>>
      /\ pumpAt = "read" /\ pumpAt' = "split"
  BY DEF PumpReads
<1>3. \A i : StartOf(i)' = StartOf(i)
  BY <1>2, StartSame
<1>4. ~Through
  BY <1>2 DEF Through, IsAt, Telling
<1>5. /\ Pending \in Nat /\ pump.read = StartOf(pump.next) + Pending
      /\ StartOf(pump.next) \in Nat
      /\ \A i \in 1..pump.next - 1 : pump.read >= StartOf(i + 1)
  BY <1>0, <1>4, AtLine
<1>6. /\ inner \in InnerType /\ pump \in PumpType /\ Total \in Nat /\ n \in Nat
      /\ setup \in Setups
  <2>1. setup \in Setups /\ Len(script) \in Nat
    BY <1>0, ScriptFacts DEF DataType
  <2>2. Total \in Nat
    BY <2>1, ScriptFacts DEF Total
  <2> QED BY <1>0, <2>1, <2>2 DEF DataType, PumpType
<1>7. /\ inner' \in InnerType /\ inner'.seen = inner.seen + n
      /\ inner'.lines = inner.lines /\ inner'.bytes = inner.bytes
      /\ inner'.maxLines = inner.maxLines /\ inner'.maxBytes = inner.maxBytes
      /\ inner'.mode = inner.mode /\ inner'.discarding = inner.discarding
      /\ inner'.overflowed = inner.overflowed /\ inner'.tail = inner.tail
      /\ inner'.tailPending = inner.tailPending /\ inner'.tailFinal = inner.tailFinal
      /\ inner'.tailOversized = inner.tailOversized
  BY <1>1, <1>6 DEF InnerType
<1>8. /\ pump' \in PumpType' /\ pump'.read = pump.read + n /\ pump'.next = pump.next
      /\ pump'.skipping = pump.skipping /\ pump'.end = pump.end /\ pump'.read <= Total
      /\ pump.read \in Nat
  <2>1. inner.maxBytes \in SUBSET Nat /\ pump.read \in Nat /\ PumpType' = PumpType
    BY <1>2, <1>6 DEF InnerType, PumpType, script
  <2>2. /\ pump' \in PumpType /\ pump'.read = pump.read + n /\ pump'.next = pump.next
        /\ pump'.skipping = pump.skipping /\ pump'.end = pump.end
    <3>1. pump' = [pump EXCEPT !.read = pump.read + n, !.cap = inner.maxBytes]
      BY <1>1
    <3>2. pump.read + n \in Nat /\ pump \in PumpType
      BY <1>6, <2>1
    <3> QED BY <2>1, <3>1, <3>2 DEF PumpType
  <2>3. pump.read + n <= Total
    BY <1>6, <2>1
  <2> QED BY <2>1, <2>2, <2>3
<1>9. DataType'
  BY <1>0, <1>2, <1>7, <1>8 DEF DataType
<1>10. ScriptInv'
  <2>1. Pending' = Pending + n
    BY <1>3, <1>5, <1>6, <1>8 DEF Pending
  <2>2. Total' = Total /\ script' = script
    BY <1>2, <1>3 DEF Total, script
  <2>3. ~Recording' /\ ~IsAt("last")'
    BY <1>2 DEF Recording, IsAt, Telling
  <2> QED BY <1>0, <1>3, <1>5, <1>6, <1>8, <2>1, <2>2, <2>3 DEF ScriptInv
<1>11. TallyInv'
  BY <1>0, <1>2, <1>3, <1>7, <1>8 DEF TallyInv, Ceilings, Recording
<1>12. OrderInv'
  BY <1>0, <1>2, <1>7, <1>8 DEF OrderInv, Ascending, HasTail, InOrder
<1>13. TailInv'
  BY <1>2 DEF TailInv, IsAt, Telling
<1>14. WholeInv'
  <2>1. ASSUME NEW i \in 1..pump.next - 1 PROVE LineRead(i)' = LineRead(i)
    <3>1. pump.read >= StartOf(i + 1) /\ StartOf(i + 1) \in Nat
      <4>1. i + 1 \in 1..Len(script) + 1
        BY <1>6, ScriptFacts DEF PumpType
      <4> QED BY <1>5, <1>6, <4>1, ScriptFacts
    <3>2. pump'.read >= StartOf(i + 1)
      BY <1>6, <1>8, <3>1
    <3> QED BY <1>2, <1>3, <3>1, <3>2 DEF LineRead, script
  <2>2. Kept' = Kept /\ (IsWhole(Kept)' <=> IsWhole(Kept))
    BY <1>2, <1>7, <1>8, <2>1 DEF Kept, IsWhole
  <2>3. ~IsAt("done")' /\ pumpAt # "done" /\ HasLost' = HasLost
    BY <1>2 DEF IsAt, Telling, HasLost
  <2> QED BY <1>0, <1>2, <1>7, <1>8, <2>2, <2>3 DEF WholeInv, Streamed
<1> QED BY <1>9, <1>10, <1>11, <1>12, <1>13, <1>14 DEF LinesInv

\* The end of the pipe, and an abort.
LEMMA LinesEnds ==
    ASSUME LinesInv, Typed', PumpReadEnds \/ PumpAborted \/ PumpHasNoLast
    PROVE  LinesInv'
<1> USE DEF waiting, sink
<1>0. DataType /\ ScriptInv /\ TallyInv /\ OrderInv /\ TailInv /\ WholeInv
  BY DEF LinesInv
<1>1. /\ UNCHANGED <<setup, inner, count, dropped, readError, then, abortAsked, at,
                     delivered, fin, result>>
      /\ pumpAt \in {"read", "last"} /\ pumpAt' \in {"split", "close"}
      /\ pumpAt' = "split" => pumpAt = "read"
      /\ pump' = pump \/ \E end \in {"eof", "error"} :
                             pump' = [pump EXCEPT !.end = end, !.cap = inner.maxBytes]
  BY DEF PumpReadEnds, PumpAborted, PumpHasNoLast
<1>2. \A i : StartOf(i)' = StartOf(i)
  BY <1>1, StartSame
<1>3. /\ pump' \in PumpType' /\ pump'.read = pump.read /\ pump'.next = pump.next
      /\ pump'.skipping = pump.skipping
  <2>1. inner.maxBytes \in SUBSET Nat /\ PumpType' = PumpType /\ pump \in PumpType
    BY <1>0, <1>1 DEF DataType, InnerType, PumpType, script
  <2>2. CASE pump' = pump
    BY <2>1, <2>2
  <2>3. ASSUME NEW end \in {"eof", "error"}, pump' = [pump EXCEPT !.end = end, !.cap = inner.maxBytes]
        PROVE  /\ pump' \in PumpType' /\ pump'.read = pump.read /\ pump'.next = pump.next
               /\ pump'.skipping = pump.skipping
    <3>1. /\ pump' \in PumpType /\ pump'.read = pump.read /\ pump'.next = pump.next
          /\ pump'.skipping = pump.skipping
      BY <2>1, <2>3 DEF PumpType
    <3> QED BY <2>1, <3>1
  <2> QED BY <1>1, <2>2, <2>3
<1>4. DataType'
  BY <1>0, <1>1, <1>3 DEF DataType
<1>5. ~Through /\ ~Recording' /\ ~IsAt("last")' /\ ~IsAt("read")' /\ ~IsAt("done")' /\ ~IsAt("done")
  BY <1>1 DEF Through, Recording, IsAt, Telling
<1>6. ScriptInv'
  BY <1>0, <1>1, <1>2, <1>3, <1>5 DEF ScriptInv, Total, Pending, script
<1>7. TallyInv'
  BY <1>0, <1>1, <1>2, <1>3, <1>5 DEF TallyInv
<1>8. OrderInv'
  BY <1>0, <1>1, <1>3 DEF OrderInv, Ascending, InOrder
<1>9. TailInv'
  BY <1>5 DEF TailInv
<1>10. Kept' = Kept /\ (IsWhole(Kept)' <=> IsWhole(Kept)) /\ HasLost' = HasLost
  BY <1>1, <1>2, <1>3 DEF Kept, IsWhole, LineRead, HasLost, script
<1>11. pumpAt # "done"
  BY <1>1
<1>12. WholeInv'
  BY <1>0, <1>1, <1>3, <1>5, <1>10, <1>11 DEF WholeInv, Streamed
<1> QED BY <1>4, <1>6, <1>7, <1>8, <1>9, <1>12 DEF LinesInv

LEMMA LinesCounts ==
    ASSUME LinesInv, Typed', PumpCountsLine \/ PumpCountsLast
    PROVE  LinesInv'
<1> USE DEF waiting
<1>0. DataType /\ ScriptInv /\ TallyInv /\ OrderInv /\ TailInv /\ WholeInv
  BY DEF LinesInv
<1>1. /\ UNCHANGED <<setup, inner, dropped, readError, abortAsked, at, delivered, fin, result>>
      /\ count' = count + 1 /\ pump' = [pump EXCEPT !.total = count + 1]
      /\ pumpAt' \in {"oversized", "retain"}
      /\ \/ pumpAt = "split" /\ then' = "split" /\ HasLine
         \/ pumpAt = "last" /\ then' = "close" /\ (pump.skipping \/ Pending > 0)
  BY DEF PumpCountsLine, PumpCountsLast, Counts
<1>2. \A i : StartOf(i)' = StartOf(i)
  BY <1>1, StartSame
<1>3. /\ pump' \in PumpType' /\ pump'.read = pump.read /\ pump'.next = pump.next
      /\ pump'.skipping = pump.skipping /\ pump'.end = pump.end /\ pump'.total = count + 1
  <2>1. PumpType' = PumpType /\ pump \in PumpType /\ count \in Nat
    BY <1>0, <1>1 DEF DataType, PumpType, script
  <2>2. /\ pump' \in PumpType /\ pump'.read = pump.read /\ pump'.next = pump.next
        /\ pump'.skipping = pump.skipping /\ pump'.end = pump.end /\ pump'.total = count + 1
    BY <1>1, <2>1 DEF PumpType
  <2> QED BY <2>1, <2>2
<1>4. DataType'
  BY <1>0, <1>1, <1>3 DEF DataType
<1>5. /\ ~Through /\ ~IsAt("last")' /\ ~IsAt("read")' /\ ~IsAt("done")' /\ ~IsAt("done")
      /\ Recording' /\ HasLost' = HasLost /\ (pumpAt = "last" => IsAt("last")) /\ pumpAt # "done"
  BY <1>1 DEF Through, Recording, IsAt, Telling, HasLost
<1>6. ScriptInv'
  <2>1. Pending' = Pending /\ HasLine' = HasLine /\ Total' = Total /\ script' = script
    BY <1>1, <1>2, <1>3 DEF Pending, HasLine, Total, script
  <2>2. CASE pumpAt = "split"
    <3>1. pump.next <= Len(script) /\ HasLine /\ then' = "split"
      BY <1>1, <2>2 DEF HasLine
    <3> QED BY <1>0, <1>2, <1>3, <1>5, <2>1, <3>1 DEF ScriptInv
  <2>3. CASE pumpAt = "last"
    <3>1. pump.next <= Len(script)
      BY <1>0, <1>1, <1>5, <2>3, AtLine DEF ScriptInv
    <3>2. ~HasLine /\ then' = "close"
      BY <1>0, <1>1, <1>5, <2>3 DEF ScriptInv
    <3> QED BY <1>0, <1>2, <1>3, <1>5, <2>1, <3>1, <3>2 DEF ScriptInv
  <2> QED BY <1>1, <2>2, <2>3
<1>7. TallyInv'
  <2>1. Len(inner.lines) \in Nat /\ count \in Nat
    BY <1>0 DEF DataType, InnerType
  <2>2. Len(inner.lines) <= count
    BY <1>0 DEF TallyInv
  <2>3. Len(inner.lines) < count + 1 /\ Len(inner.lines) <= count + 1
    BY <2>1, <2>2
  <2> QED BY <1>0, <1>1, <1>2, <1>3, <2>1, <2>3 DEF TallyInv
<1>8. OrderInv'
  BY <1>0, <1>1, <1>3 DEF OrderInv, Ascending, InOrder
<1>9. TailInv'
  BY <1>5 DEF TailInv
<1>10. Kept' = Kept /\ (IsWhole(Kept)' <=> IsWhole(Kept))
  BY <1>1, <1>2, <1>3 DEF Kept, IsWhole, LineRead, script
<1>11. WholeInv'
  BY <1>0, <1>1, <1>3, <1>5, <1>10 DEF WholeInv, Streamed
<1> QED BY <1>4, <1>6, <1>7, <1>8, <1>9, <1>11 DEF LinesInv

\* A piece that is emitted is the line the pump is at, as far as it was read, and
\* fits before the place where the next line begins.
LEMMA EntryFacts ==
    ASSUME DataType, ScriptInv, Recording
    PROVE  /\ Entry \in Line /\ Entry = LineRead(pump.next)
           /\ StartOf(pump.next) + Entry.len <= pump.read
           /\ StartOf(pump.next) + Entry.len <= StartOf(pump.next + 1)
           /\ StartOf(pump.next) \in Nat /\ StartOf(pump.next + 1) \in Nat
           /\ \A i \in 1..pump.next - 1 : pump.read >= StartOf(i + 1)
<1>1. ~Through
  BY DEF Recording, Through, IsAt, Telling
<1>2. pump.next \in 1..Len(script) /\ pump.read \in Nat /\ Len(script) \in Nat
  BY ScriptFacts DEF DataType, PumpType, ScriptInv
<1>3. /\ Pending \in Nat /\ pump.read = StartOf(pump.next) + Pending
      /\ StartOf(pump.next) \in Nat
      /\ \A i \in 1..pump.next - 1 : pump.read >= StartOf(i + 1)
      /\ StartOf(pump.next + 1) = StartOf(pump.next) + script[pump.next] + 1
      /\ script[pump.next] \in Nat
  BY <1>1, <1>2, AtLine
<1>4. HasLine <=> pump.read >= StartOf(pump.next + 1)
  BY <1>2 DEF HasLine
<1>5. Entry = [no |-> pump.next, len |-> IF HasLine THEN script[pump.next] ELSE Pending]
  BY DEF Entry
<1>6. Entry.len \in Nat /\ Entry \in Line
  BY <1>2, <1>3, <1>5 DEF Line
<1>7. Entry = LineRead(pump.next)
  BY <1>4, <1>5 DEF LineRead, Pending
<1>8. StartOf(pump.next) + Entry.len <= pump.read
      /\ StartOf(pump.next) + Entry.len <= StartOf(pump.next + 1)
  <2>1. CASE HasLine
    <3>1. Entry.len = script[pump.next]
      BY <1>5, <2>1
    <3> QED BY <1>2, <1>3, <1>4, <2>1, <3>1
  <2>2. CASE ~HasLine
    <3>1. Entry.len = Pending
      BY <1>5, <2>2
    <3> QED BY <1>2, <1>3, <1>4, <2>2, <3>1
  <2> QED BY <2>1, <2>2
<1> QED BY <1>3, <1>6, <1>7, <1>8

LEMMA LineNumbers ==
    ASSUME NEW q \in Seq(Line), NEW i \in 1..Len(q)
    PROVE  q[i] \in Line /\ q[i].no \in Nat /\ q[i].len \in Nat
<1>1. q[i] \in Line
  BY ElementOfSeq
<1> QED BY <1>1 DEF Line

\* The end of a backlog that a line of the given number was appended to.
LEMMA SuffixAscends ==
    ASSUME NEW q \in Seq(Line), NEW n \in Nat, NEW e \in Line, NEW r, NEW k \in Nat,
           Ascending(q, n), e.no = n, IsSuffix(Append(q, e), r, k)
    PROVE  /\ Ascending(r, n + 1) /\ Len(r) = Len(q) + 1 - k /\ r \in Seq(Line)
           /\ \A i \in 1..Len(r) : \/ r[i] = e
                                   \/ \E j \in 1..Len(q) : r[i] = q[j]
           /\ k = 0 => (\A i \in 1..Len(q) : r[i] = q[i]) /\ r[Len(q) + 1] = e
<1> DEFINE a == Append(q, e)
<1>1. /\ Len(a) = Len(q) + 1 /\ Len(q) \in Nat
      /\ (\A i \in 1..Len(q) : a[i] = q[i]) /\ a[Len(q) + 1] = e
  BY AppendProperties, LenProperties
<1>2. /\ k \in 0..Len(a) /\ r \in Seq(Line) /\ Len(r) = Len(a) - k
      /\ \A i \in 1..Len(r) : r[i] = a[k + i]
  BY DEF IsSuffix
<1> HIDE DEF a
<1>3. \A i \in 1..Len(q) : q[i].no \in Nat /\ q[i].no < n
  BY LineNumbers DEF Ascending
<1>4. ASSUME NEW i \in 1..Len(a) PROVE a[i].no \in Nat /\ a[i].no < n + 1
  <2>1. CASE i = Len(q) + 1
    BY <1>1, <2>1
  <2>2. CASE i # Len(q) + 1
    <3>1. i \in 1..Len(q)
      BY <1>1, <2>2
    <3>2. a[i].no \in Nat /\ a[i].no < n
      BY <1>1, <1>3, <3>1
    <3> QED BY <3>2
  <2> QED BY <2>1, <2>2
<1>5. ASSUME NEW i \in 1..Len(a), NEW j \in 1..Len(a), i < j PROVE a[i].no < a[j].no
  <2>0. i \in 1..Len(q)
    BY <1>1, <1>5
  <2>1. CASE j = Len(q) + 1
    BY <1>1, <1>3, <2>0, <2>1
  <2>2. CASE j # Len(q) + 1
    <3>1. j \in 1..Len(q)
      BY <1>1, <2>2
    <3>2. q[i].no < q[j].no
      BY <1>5, <2>0, <3>1 DEF Ascending
    <3> QED BY <1>1, <2>0, <3>1, <3>2
  <2> QED BY <2>1, <2>2
<1>6. Ascending(r, n + 1)
  <2>1. \A i \in 1..Len(r) : k + i \in 1..Len(a) /\ r[i] = a[k + i]
    BY <1>1, <1>2
  <2>2. ASSUME NEW i \in 1..Len(r), NEW j \in 1..Len(r), i < j PROVE r[i].no < r[j].no
    <3>1. k + i < k + j
      BY <2>2
    <3> QED BY <1>5, <2>1, <3>1
  <2>3. \A i \in 1..Len(r) : r[i].no < n + 1
    BY <1>4, <2>1
  <2> QED BY <2>2, <2>3 DEF Ascending
<1>7. ASSUME NEW i \in 1..Len(r) PROVE r[i] = e \/ \E j \in 1..Len(q) : r[i] = q[j]
  <2>1. k + i \in 1..Len(q) + 1 /\ r[i] = a[k + i]
    BY <1>1, <1>2
  <2>2. CASE k + i = Len(q) + 1
    BY <1>1, <2>1, <2>2
  <2>3. CASE k + i # Len(q) + 1
    <3>1. k + i \in 1..Len(q)
      BY <1>1, <2>1, <2>3
    <3> QED BY <1>1, <2>1, <3>1
  <2> QED BY <2>2, <2>3
<1>8. ASSUME k = 0 PROVE (\A i \in 1..Len(q) : r[i] = q[i]) /\ r[Len(q) + 1] = e
  <2>1. \A i \in 1..Len(q) + 1 : r[i] = a[i]
    BY <1>1, <1>2, <1>8
  <2> QED BY <1>1, <2>1
<1> QED BY <1>1, <1>2, <1>6, <1>7, <1>8

\* A line let in, or refused, or skipped.
LEMMA LinesRecords ==
    ASSUME LinesInv, Typed', PumpRetains \/ PumpSkips
    PROVE  LinesInv'
<1> USE DEF waiting
<1>0. DataType /\ ScriptInv /\ TallyInv /\ OrderInv /\ TailInv /\ WholeInv
  BY DEF LinesInv
<1>t. /\ inner \in InnerType /\ pump \in PumpType /\ setup \in Setups /\ count \in Nat
      /\ pump.next \in 1..Len(script) + 1 /\ Len(script) \in Nat /\ dropped \in Nat
      /\ inner.lines \in Seq(Line) /\ Len(inner.lines) \in Nat /\ inner.bytes \in Nat
      /\ pump.total \in Nat /\ inner.bytes = BytesOf(inner.lines) /\ pump.read \in Nat
  BY <1>0, ScriptFacts DEF DataType, InnerType, PumpType, TallyInv, Ceilings
<1>r. Recording /\ pumpAt # "lost" /\ pumpAt # "done"
  BY DEF PumpRetains, PumpSkips, Recording
<1>e. /\ Entry \in Line /\ Entry = LineRead(pump.next) /\ Entry.no = pump.next
      /\ StartOf(pump.next) + Entry.len <= pump.read
      /\ StartOf(pump.next) + Entry.len <= StartOf(pump.next + 1)
      /\ StartOf(pump.next) \in Nat /\ StartOf(pump.next + 1) \in Nat
      /\ \A i \in 1..pump.next - 1 : pump.read >= StartOf(i + 1)
      /\ Entry.len \in Nat
  <2>1. Entry.no = pump.next
    BY DEF Entry
  <2>2. Entry \in Line
    BY <1>0, <1>r, EntryFacts
  <2>3. Entry.len \in Nat
    BY <2>2 DEF Line
  <2> QED BY <1>0, <1>r, <2>1, <2>3, EntryFacts
<1>b. /\ inner.bytes + Entry.len <= inner.seen /\ Len(inner.lines) < pump.total
      /\ inner.bytes <= StartOf(pump.next) /\ Len(inner.lines) <= count
      /\ pump.total <= count
  BY <1>0, <1>e, <1>r, <1>t DEF TallyInv
<1>1. PICK out :
        /\ inner' = out.inner /\ pumpAt' = IF out.lost THEN "lost" ELSE "publish"
        /\ pump' = [pump EXCEPT !.next = @ + 1, !.skipping = FALSE]
        /\ UNCHANGED <<setup, count, dropped, readError, then, abortAsked, at, delivered, fin, result>>
        /\ Recorded(inner, out) /\ Ceilings(out.inner)
        /\ Refused(inner, out) \/ \E k \in Nat : LetIn(inner, out, Entry, k)
  <2>1. CASE PumpRetains
    <3> DEFINE out == Retained(inner, Entry, pump.total)
    <3>1. /\ inner' = out.inner /\ pumpAt' = IF out.lost THEN "lost" ELSE "publish"
          /\ pump' = [pump EXCEPT !.next = @ + 1, !.skipping = FALSE]
          /\ UNCHANGED <<setup, count, dropped, readError, then, abortAsked, at, delivered, fin, result>>
      BY <2>1 DEF PumpRetains, Records
    <3>2. /\ Recorded(inner, out)
          /\ Refused(inner, out) \/ \E k \in Nat : LetIn(inner, out, Entry, k)
          /\ Ceilings(inner) /\ Len(inner.lines) < pump.total /\ inner.bytes + Entry.len <= inner.seen
               => Ceilings(out.inner)
      BY <1>t, <1>e, RetainFacts
    <3>3. Ceilings(out.inner)
      BY <1>0, <1>b, <3>2 DEF TallyInv
    <3> HIDE DEF out
    <3> QED BY <3>1, <3>2, <3>3
  <2>2. CASE PumpSkips
    <3> DEFINE out == Skipped(inner)
    <3>1. /\ inner' = out.inner /\ pumpAt' = IF out.lost THEN "lost" ELSE "publish"
          /\ pump' = [pump EXCEPT !.next = @ + 1, !.skipping = FALSE]
          /\ UNCHANGED <<setup, count, dropped, readError, then, abortAsked, at, delivered, fin, result>>
      BY <2>2 DEF PumpSkips, Records
    <3>2. Recorded(inner, out) /\ Refused(inner, out) /\ (Ceilings(inner) => Ceilings(out.inner))
      BY <1>t, SkipFacts
    <3>3. Ceilings(out.inner)
      BY <1>0, <3>2 DEF TallyInv
    <3> HIDE DEF out
    <3> QED BY <3>1, <3>2, <3>3
  <2> QED BY <2>1, <2>2
<1>2. \A i : StartOf(i)' = StartOf(i)
  BY <1>1, StartSame
<1>3. inner' \in InnerType /\ SameRest(inner, inner') /\ ~HasTail(inner')
      /\ (inner'.overflowed => inner.overflowed \/ out.lost) /\ out.lost \in BOOLEAN
  BY <1>1 DEF Recorded
<1>4. /\ pump' \in PumpType' /\ pump'.read = pump.read /\ pump'.next = pump.next + 1
      /\ ~pump'.skipping /\ pump'.total = pump.total /\ pump'.end = pump.end
  <2>1. pump.next \in 1..Len(script) /\ pump.next + 1 \in 1..Len(script) + 1
    BY <1>0, <1>r, <1>t DEF ScriptInv
  <2>2. PumpType' = PumpType
    BY <1>1 DEF PumpType, script
  <2>3. pump' = [pump EXCEPT !.next = pump.next + 1, !.skipping = FALSE]
    BY <1>1
  <2>4. /\ pump' \in PumpType /\ pump'.read = pump.read /\ pump'.next = pump.next + 1
        /\ ~pump'.skipping /\ pump'.total = pump.total /\ pump'.end = pump.end
    BY <1>t, <2>1, <2>3 DEF PumpType
  <2> QED BY <2>2, <2>4
<1>5. DataType'
  BY <1>0, <1>1, <1>3, <1>4 DEF DataType
<1>6. /\ ~Recording' /\ then \in {"split", "close"} /\ ~IsAt("last")' /\ ~IsAt("read")'
      /\ ~IsAt("done")' /\ (IsAt("close")' <=> then = "close") /\ ~IsAt("done")
  <2>1. then \in {"split", "close"}
    BY <1>0, <1>r DEF ScriptInv
  <2>2. pumpAt' \in {"lost", "publish"} /\ then' = then
    BY <1>1
  <2> QED BY <1>r, <2>1, <2>2 DEF Recording, IsAt, Telling
\* What the outcome is for the lines.
<1>7. /\ Len(inner'.lines) \in Nat /\ Len(inner'.lines) <= Len(inner.lines) + 1
      /\ inner'.bytes <= inner.bytes + Entry.len /\ Ascending(inner'.lines, pump.next + 1)
      /\ \A i \in 1..Len(inner'.lines) :
           \/ inner'.lines[i] = Entry
           \/ \E j \in 1..Len(inner.lines) : inner'.lines[i] = inner.lines[j]
      /\ ~inner.discarding =>
           \/ ~out.lost /\ Len(inner'.lines) = Len(inner.lines) + 1
              /\ (\A i \in 1..Len(inner.lines) : inner'.lines[i] = inner.lines[i])
              /\ inner'.lines[Len(inner.lines) + 1] = Entry
           \/ out.lost /\ Len(inner'.lines) <= Len(inner.lines)
  <2>0. pump.next \in Nat /\ Ascending(inner.lines, pump.next)
    BY <1>0, <1>t DEF OrderInv
  <2>1. CASE Refused(inner, out)
    <3>1. inner'.lines = inner.lines /\ inner'.bytes = inner.bytes /\ (out.lost <=> ~inner.discarding)
      BY <1>1, <2>1 DEF Refused
    <3>2. Ascending(inner.lines, pump.next + 1)
      <4>1. \A i \in 1..Len(inner.lines) : inner.lines[i].no \in Nat
        BY <1>t, LineNumbers
      <4> QED BY <2>0, <4>1 DEF Ascending
    <3> QED BY <1>t, <1>e, <3>1, <3>2
  <2>2. ASSUME NEW k \in Nat, LetIn(inner, out, Entry, k)
        PROVE  /\ Len(inner'.lines) \in Nat /\ Len(inner'.lines) <= Len(inner.lines) + 1
               /\ inner'.bytes <= inner.bytes + Entry.len /\ Ascending(inner'.lines, pump.next + 1)
               /\ \A i \in 1..Len(inner'.lines) :
                    \/ inner'.lines[i] = Entry
                    \/ \E j \in 1..Len(inner.lines) : inner'.lines[i] = inner.lines[j]
               /\ \/ ~out.lost /\ Len(inner'.lines) = Len(inner.lines) + 1
                     /\ (\A i \in 1..Len(inner.lines) : inner'.lines[i] = inner.lines[i])
                     /\ inner'.lines[Len(inner.lines) + 1] = Entry
                  \/ out.lost /\ Len(inner'.lines) <= Len(inner.lines)
    <3>1. IsSuffix(Append(inner.lines, Entry), inner'.lines, k) /\ (out.lost <=> k > 0)
          /\ inner'.bytes <= inner.bytes + Entry.len
      BY <1>1, <2>2 DEF LetIn
    <3>2. /\ Ascending(inner'.lines, pump.next + 1)
          /\ Len(inner'.lines) = Len(inner.lines) + 1 - k /\ inner'.lines \in Seq(Line)
          /\ \A i \in 1..Len(inner'.lines) : \/ inner'.lines[i] = Entry
                                   \/ \E j \in 1..Len(inner.lines) : inner'.lines[i] = inner.lines[j]
          /\ k = 0 => (\A i \in 1..Len(inner.lines) : inner'.lines[i] = inner.lines[i])
                      /\ inner'.lines[Len(inner.lines) + 1] = Entry
      <4> DEFINE q == inner.lines
                 r == inner'.lines
                 e == Entry
                 n == pump.next
      <4>1. q \in Seq(Line) /\ n \in Nat /\ e \in Line /\ Ascending(q, n) /\ e.no = n
            /\ IsSuffix(Append(q, e), r, k)
        BY <1>t, <1>e, <2>0, <3>1
      <4> HIDE DEF q, r, e, n
      <4>2. /\ Ascending(r, n + 1) /\ Len(r) = Len(q) + 1 - k /\ r \in Seq(Line)
            /\ \A i \in 1..Len(r) : r[i] = e \/ \E j \in 1..Len(q) : r[i] = q[j]
            /\ k = 0 => (\A i \in 1..Len(q) : r[i] = q[i]) /\ r[Len(q) + 1] = e
        BY <4>1, SuffixAscends
      <4> QED BY <4>2 DEF q, r, e, n
    <3>3. Len(inner'.lines) \in Nat /\ Len(inner'.lines) <= Len(inner.lines) + 1
      BY <1>t, <3>2, LenProperties
    <3>4. CASE k = 0
      <4>1. ~out.lost /\ Len(inner'.lines) = Len(inner.lines) + 1
        BY <1>t, <3>1, <3>2, <3>4
      <4> QED BY <3>1, <3>2, <3>3, <3>4, <4>1
    <3>5. CASE k # 0
      <4>1. out.lost /\ Len(inner'.lines) <= Len(inner.lines)
        BY <1>t, <3>1, <3>2, <3>5
      <4> QED BY <3>1, <3>2, <3>3, <4>1
    <3> QED BY <3>4, <3>5
  <2> QED BY <1>1, <2>1, <2>2
<1>8. ScriptInv'
  <2>1. Total' = Total /\ pump'.read <= Total'
    BY <1>0, <1>1, <1>2, <1>4 DEF ScriptInv, Total, script
  <2>2. ASSUME ~Through' PROVE StartOf(pump'.next) <= pump.read
    <3>1. then = "split"
      BY <1>6, <2>2 DEF Through
    <3>2. HasLine
      BY <1>0, <1>r, <3>1 DEF ScriptInv
    <3>3. StartOf(pump.next + 1) <= pump.read
      BY <1>e, <1>t, <3>2 DEF HasLine
    <3> QED BY <1>4, <3>3
  <2> QED BY <1>2, <1>4, <1>6, <2>1, <2>2 DEF ScriptInv
<1>9. TallyInv'
  <2>1. inner'.bytes <= StartOf(pump'.next)
    <3>1. inner'.bytes \in Nat
      BY <1>3 DEF InnerType
    <3> QED BY <1>b, <1>e, <1>t, <1>4, <1>7, <3>1
  <2>2. inner'.seen = pump'.read
    BY <1>0, <1>3, <1>4 DEF TallyInv, SameRest
  <2>3. Len(inner'.lines) <= count
    BY <1>b, <1>t, <1>7
  <2> QED BY <1>1, <1>2, <1>6, <2>1, <2>2, <2>3 DEF TallyInv
<1>10. OrderInv'
  <2>1. ASSUME NEW i \in 1..Len(delivered) PROVE delivered[i].no < pump.next /\ delivered[i].no \in Nat
    <3>1. delivered \in Seq(Line) /\ Ascending(delivered, pump.next)
      BY <1>0 DEF DataType, OrderInv
    <3> QED BY <3>1, LineNumbers DEF Ascending
  <2>2. Ascending(delivered, pump.next + 1)
    <3>1. \A i \in 1..Len(delivered) : delivered[i].no < pump.next + 1
      BY <1>t, <2>1
    <3> QED BY <1>0, <3>1 DEF OrderInv, Ascending
  <2>3. ASSUME NEW i \in 1..Len(delivered), NEW j \in 1..Len(inner'.lines)
        PROVE  delivered[i].no < inner'.lines[j].no
    <3>1. CASE inner'.lines[j] = Entry
      BY <1>e, <2>1, <3>1
    <3>2. ASSUME NEW l \in 1..Len(inner.lines), inner'.lines[j] = inner.lines[l]
          PROVE  delivered[i].no < inner'.lines[j].no
      BY <1>0, <3>2 DEF OrderInv
    <3> QED BY <1>7, <3>1, <3>2
  <2>5. Ascending(delivered', pump'.next) /\ Ascending(inner'.lines, pump'.next)
    BY <1>1, <1>4, <1>7, <2>2
  <2> QED BY <1>0, <1>1, <1>3, <1>4, <2>3, <2>5 DEF OrderInv, InOrder
<1>11. TailInv'
  BY <1>6 DEF TailInv
<1>12. WholeInv'
  <2>1. ASSUME ~Streamed, result.how \in {"none", "joined"}
        PROVE  /\ result.how = "none" /\ Kept = inner.lines /\ Kept' = inner'.lines
               /\ ~inner.discarding /\ ~abortAsked
               /\ ~HasLost => IsWhole(inner.lines)
               /\ HasLost => Len(inner.lines) < pump.next - 1
               /\ inner.overflowed => HasLost
    <3>1. result.how = "none" /\ fin \in {"live", "join"}
      BY <1>0, <1>r, <2>1 DEF WholeInv
    <3>2. Kept = inner.lines /\ Kept' = inner'.lines
      BY <1>1, <3>1 DEF Kept
    <3> QED BY <1>0, <2>1, <3>1, <3>2 DEF WholeInv
  <2>2. HasLost' <=> HasLost \/ out.lost
    BY <1>1, <1>3, <1>r DEF HasLost
  <2>3. ASSUME NEW i \in 1..pump.next PROVE LineRead(i)' = LineRead(i)
    BY <1>1, <1>2, <1>4 DEF LineRead, script
  <2>4. ASSUME ~Streamed, result.how \in {"none", "joined"}, ~HasLost' PROVE IsWhole(Kept)'
    <3>1. ~out.lost /\ IsWhole(inner.lines) /\ ~inner.discarding /\ Kept' = inner'.lines
      BY <2>1, <2>2, <2>4
    <3>2. Len(inner.lines) = pump.next - 1
          /\ \A i \in 1..pump.next - 1 : inner.lines[i] = LineRead(i)
      BY <3>1 DEF IsWhole
    <3>3. /\ Len(inner'.lines) = pump.next
          /\ \A i \in 1..pump.next - 1 : inner'.lines[i] = LineRead(i)
          /\ inner'.lines[pump.next] = LineRead(pump.next)
      <4>1. /\ Len(inner'.lines) = Len(inner.lines) + 1
            /\ (\A i \in 1..Len(inner.lines) : inner'.lines[i] = inner.lines[i])
            /\ inner'.lines[Len(inner.lines) + 1] = Entry
        BY <1>7, <3>1
      <4>2. Len(inner.lines) + 1 = pump.next
        BY <1>t, <3>2
      <4> QED BY <1>e, <3>2, <4>1, <4>2
    <3>4. pump'.next - 1 = pump.next
      BY <1>t, <1>4
    <3>5. \A i \in 1..pump'.next - 1 : inner'.lines[i] = LineRead(i)'
      BY <1>t, <2>3, <3>3, <3>4
    <3> QED BY <3>1, <3>3, <3>4, <3>5 DEF IsWhole
  <2>5. ASSUME ~Streamed, result.how \in {"none", "joined"}, HasLost'
        PROVE  Len(inner'.lines) < pump'.next - 1
    <3>1. pump'.next - 1 = pump.next
      BY <1>t, <1>4
    <3>2. CASE HasLost
      <4>1. Len(inner.lines) < pump.next - 1
        BY <2>1, <2>5, <3>2
      <4> QED BY <1>t, <1>7, <3>1, <4>1
    <3>3. CASE ~HasLost
      <4>1. Len(inner.lines) = pump.next - 1 /\ out.lost /\ ~inner.discarding
        BY <2>1, <2>2, <2>5, <3>3 DEF IsWhole
      <4> QED BY <1>t, <1>7, <3>1, <4>1
    <3> QED BY <3>2, <3>3
  <2>6. ~Streamed /\ result.how \in {"none", "joined"} /\ inner'.overflowed => HasLost'
    BY <1>3, <2>1, <2>2
  <2>7. inner'.discarding = inner.discarding
    BY <1>3 DEF SameRest
  <2> QED BY <1>0, <1>1, <1>6, <2>1, <2>4, <2>5, <2>6, <2>7 DEF WholeInv, Streamed
<1> QED BY <1>5, <1>8, <1>9, <1>10, <1>11, <1>12 DEF LinesInv

\* The rest of a chunk is published as the live tail.
LEMMA LinesSetsTail == ASSUME LinesInv, Typed', PumpSetsTail PROVE LinesInv'
<1> USE DEF waiting
<1>0. DataType /\ ScriptInv /\ TallyInv /\ OrderInv /\ TailInv /\ WholeInv
  BY DEF LinesInv
<1> DEFINE oversized == pump.skipping \/ OverCap(Pending)
           tail == IF oversized \/ Pending = 0 THEN NoTail ELSE [no |-> pump.next, len |-> Pending]
<1>1. /\ pump' = [pump EXCEPT !.skipping = oversized]
      /\ inner' = TailSet(inner, tail, oversized)
      /\ then' = IF pump.end = "no" THEN "read" ELSE "last"
      /\ pumpAt' = IF TailChanged(inner, tail, oversized) THEN "publish" ELSE then'
      /\ pumpAt = "split" /\ ~HasLine
      /\ UNCHANGED <<setup, count, dropped, readError, abortAsked, at, delivered, fin, result>>
  BY DEF PumpSetsTail
<1>t. /\ inner \in InnerType /\ pump \in PumpType /\ setup \in Setups
      /\ pump.next \in 1..Len(script) + 1 /\ Len(script) \in Nat
      /\ pump.skipping \in BOOLEAN /\ pump.cap \subseteq Nat
  BY <1>0, ScriptFacts DEF DataType, InnerType, PumpType
<1>2. \A i : StartOf(i)' = StartOf(i)
  BY <1>1, StartSame
<1>3. ~Through /\ pumpAt # "done" /\ ~IsAt("done")
  BY <1>1 DEF Through, IsAt, Telling
<1>4. Pending \in Nat /\ (Pending > 0 => pump.next <= Len(script)) /\ StartOf(pump.next) <= pump.read
  BY <1>0, <1>3, AtLine DEF ScriptInv
<1>5. oversized \in BOOLEAN /\ (oversized => Pending > 0)
  <2>1. OverCap(Pending) => Pending > 0
    BY <1>4, <1>t DEF OverCap
  <2> QED BY <1>0, <1>t, <2>1 DEF ScriptInv, OverCap
<1>6. tail \in Line /\ (tail.len > 0 => ~oversized /\ tail = [no |-> pump.next, len |-> Pending])
      /\ (~oversized /\ Pending > 0 => tail.len > 0)
  BY <1>t, <1>4 DEF NoTail, Line
<1> HIDE DEF oversized, tail
<1>7. /\ inner' \in InnerType /\ inner'.lines = inner.lines /\ inner'.bytes = inner.bytes
      /\ inner'.seen = inner.seen /\ inner'.maxLines = inner.maxLines
      /\ inner'.maxBytes = inner.maxBytes /\ inner'.mode = inner.mode
      /\ inner'.discarding = inner.discarding /\ inner'.overflowed = inner.overflowed
      /\ inner'.tail = tail /\ inner'.tailOversized = oversized /\ inner'.tailFinal = FALSE
      /\ inner'.tailPending = (oversized \/ tail.len > 0)
  <2>1. (oversized \/ tail.len > 0) \in BOOLEAN
    OBVIOUS
  <2> QED BY <1>1, <1>t, <1>5, <1>6, <2>1 DEF InnerType, TailSet
<1>8. HasTail(inner') <=> oversized \/ tail.len > 0
  BY <1>7 DEF HasTail
<1>9. /\ pump' \in PumpType' /\ pump'.read = pump.read /\ pump'.next = pump.next
      /\ pump'.skipping = oversized /\ pump'.total = pump.total /\ pump'.end = pump.end
  <2>1. PumpType' = PumpType
    BY <1>1 DEF PumpType, script
  <2>2. /\ pump' \in PumpType /\ pump'.read = pump.read /\ pump'.next = pump.next
        /\ pump'.skipping = oversized /\ pump'.total = pump.total /\ pump'.end = pump.end
    BY <1>1, <1>t, <1>5 DEF PumpType
  <2> QED BY <2>1, <2>2
<1>10. DataType'
  BY <1>0, <1>1, <1>7, <1>9 DEF DataType
<1>11. /\ ~Recording' /\ ~IsAt("done")' /\ ~IsAt("close")' /\ HasLost' = HasLost
       /\ pumpAt' \in {"publish", "read", "last"}
  <2>1. then' \in {"read", "last"} /\ pumpAt' \in {"publish", "read", "last"}
    BY <1>1
  <2> QED BY <1>1, <2>1 DEF Recording, IsAt, Telling, HasLost
<1>12. Pending' = Pending /\ HasLine' = HasLine /\ Total' = Total
  BY <1>1, <1>2, <1>9 DEF Pending, HasLine, Total, script
<1>13. ScriptInv'
  BY <1>0, <1>1, <1>2, <1>4, <1>5, <1>9, <1>11, <1>12 DEF ScriptInv, script
<1>14. TallyInv'
  BY <1>0, <1>1, <1>2, <1>7, <1>9, <1>11 DEF TallyInv, Ceilings
<1>15. OrderInv'
  <2>1. HasTail(inner') /\ ~inner'.tailOversized => inner'.tail.no = pump'.next
    BY <1>6, <1>7, <1>8, <1>9
  <2> QED BY <1>0, <1>1, <1>7, <1>9, <2>1 DEF OrderInv, Ascending, InOrder
<1>16. TailInv'
  <2>1. Pending > 0 => HasTail(inner') /\ (inner'.tailOversized
                         \/ inner'.tail = [no |-> pump'.next, len |-> Pending])
    BY <1>5, <1>6, <1>7, <1>8, <1>9
  <2> QED BY <1>12, <2>1 DEF TailInv
<1>17. Kept' = Kept /\ (IsWhole(Kept)' <=> IsWhole(Kept))
  BY <1>1, <1>2, <1>7, <1>9 DEF Kept, IsWhole, LineRead, script
<1>18. WholeInv'
  BY <1>0, <1>1, <1>3, <1>7, <1>9, <1>11, <1>17 DEF WholeInv, Streamed
<1> QED BY <1>10, <1>13, <1>14, <1>15, <1>16, <1>18 DEF LinesInv

LEMMA LinesCloses == ASSUME LinesInv, Typed', PumpCloses PROVE LinesInv'
<1> USE DEF waiting
<1>0. DataType /\ ScriptInv /\ TallyInv /\ OrderInv /\ TailInv /\ WholeInv
  BY DEF LinesInv
<1>1. /\ readError' = (pump.end = "error") /\ inner' = [inner EXCEPT !.closed = TRUE]
      /\ then' = "done" /\ pumpAt = "close" /\ pumpAt' = "publish"
      /\ UNCHANGED <<setup, count, dropped, pump, abortAsked, at, delivered, fin, result>>
  BY DEF PumpCloses
<1>2. \A i : StartOf(i)' = StartOf(i)
  BY <1>1, StartSame
<1>3. /\ inner' \in InnerType /\ inner'.lines = inner.lines /\ inner'.bytes = inner.bytes
      /\ inner'.seen = inner.seen /\ inner'.maxLines = inner.maxLines
      /\ inner'.maxBytes = inner.maxBytes /\ inner'.mode = inner.mode
      /\ inner'.discarding = inner.discarding /\ inner'.overflowed = inner.overflowed
      /\ inner'.tail = inner.tail /\ inner'.tailOversized = inner.tailOversized
      /\ inner'.tailFinal = inner.tailFinal /\ inner'.tailPending = inner.tailPending
  BY <1>0, <1>1 DEF DataType, InnerType
<1>4. DataType' /\ (readError' <=> pump.end = "error")
  <2>1. readError' \in BOOLEAN /\ (readError' <=> pump.end = "error")
    BY <1>1, Zenon
  <2>2. pump' \in PumpType'
    BY <1>0, <1>1 DEF DataType, PumpType, script
  <2> QED BY <1>0, <1>1, <1>3, <2>1, <2>2 DEF DataType
<1>5. /\ Through /\ Through' /\ ~Recording' /\ ~IsAt("read")' /\ ~IsAt("last")'
      /\ HasLost' = HasLost /\ pumpAt # "done"
  BY <1>1 DEF Through, Recording, IsAt, Telling, HasLost
<1>6. ScriptInv'
  BY <1>0, <1>1, <1>2, <1>5 DEF ScriptInv, Total, Pending, script
<1>7. TallyInv'
  BY <1>0, <1>1, <1>2, <1>3, <1>5 DEF TallyInv, Ceilings
<1>8. OrderInv'
  BY <1>0, <1>1, <1>3 DEF OrderInv, Ascending, HasTail, InOrder
<1>9. TailInv'
  BY <1>5 DEF TailInv
<1>10. Kept' = Kept /\ (IsWhole(Kept)' <=> IsWhole(Kept))
  BY <1>1, <1>2, <1>3 DEF Kept, IsWhole, LineRead, script
<1>11. WholeInv'
  BY <1>0, <1>1, <1>3, <1>4, <1>5, <1>10 DEF WholeInv, Streamed
<1> QED BY <1>4, <1>6, <1>7, <1>8, <1>9, <1>11 DEF LinesInv

\* A loss is counted, the generation advances, the broadcast goes out.
LEMMA LinesTells ==
    ASSUME LinesInv, Typed, PumpCountsLoss \/ PumpPublishes \/ PumpNotifies
    PROVE  LinesInv'
<1> USE DEF waiting, sink
<1>0. dropped \in Nat /\ then \in {"read", "split", "last", "close", "done"}
      /\ at \in [Waiters -> Places]
  BY DEF LinesInv, DataType, Typed
<1>1. /\ UNCHANGED <<setup, inner, count, readError, pump, abortAsked, delivered, fin, result, then>>
      /\ \/ pumpAt = "lost" /\ pumpAt' = "publish" /\ dropped' = dropped + 1 /\ at' = at
         \/ pumpAt = "publish" /\ pumpAt' = "notify" /\ dropped' = dropped /\ at' = at
         \/ pumpAt = "notify" /\ pumpAt' = then /\ dropped' = dropped /\ at' = Woken
  BY DEF PumpCountsLoss, PumpPublishes, PumpNotifies
<1>2. /\ \A place \in {"read", "last", "close", "done"} : IsAt(place)' <=> IsAt(place)
      /\ ~Recording' /\ (HasLost' <=> HasLost) /\ dropped' \in Nat /\ pumpAt # "done"
  BY <1>0, <1>1 DEF IsAt, Telling, Recording, HasLost
<1>3. ReaderStays
  BY <1>0, <1>1 DEF ReaderStays, Woken, Waiters
<1> QED BY <1>1, <1>2, <1>3, SameBusiness

-----------------------------------------------------------------------------
(* The waiters.                                                                *)

LEMMA LinesWaits ==
    ASSUME LinesInv, Typed,
           ReaderEnds \/ ProbeMatches \/ \E w \in Waiters : Waits(w) \/ GivesUp(w)
    PROVE  LinesInv'
<1> USE DEF sink, pumping
<1>1. /\ UNCHANGED <<setup, inner, count, dropped, readError, pump, pumpAt, then, abortAsked,
                     delivered, fin, result>>
      /\ \E w \in Waiters, place \in Places :
           /\ at' = [at EXCEPT ![w] = place]
           /\ at[w] \notin {"done", "gone"} \/ place \in {"done", "gone"}
  BY DEF ReaderEnds, ProbeMatches, Waits, Misses, Enables, Parks, GivesUp, Waiters, Places
<1>2. ReaderStays
  BY <1>1 DEF ReaderStays, Typed, Waiters
<1>3. dropped \in Nat
  BY DEF LinesInv, DataType
<1>4. /\ \A place \in {"read", "last", "close", "done"} : IsAt(place)' <=> IsAt(place)
      /\ Recording' = Recording /\ HasLost' = HasLost
  BY <1>1 DEF IsAt, Telling, Recording, HasLost
<1> QED BY <1>1, <1>2, <1>3, <1>4, SameBusiness

\* A stream takes the oldest line of the backlog.
LEMMA LinesPops == ASSUME LinesInv, ReaderPops PROVE LinesInv'
<1> USE DEF pumping
<1>0. DataType /\ ScriptInv /\ TallyInv /\ OrderInv /\ TailInv /\ WholeInv
  BY DEF LinesInv
<1> DEFINE q == inner.lines
<1>1. /\ q # <<>> /\ at["reader"] = "look"
      /\ delivered' = Append(delivered, Head(q))
      /\ inner' = [inner EXCEPT !.lines = Tail(@), !.bytes = Less(@, Head(q).len)]
      /\ UNCHANGED <<setup, count, dropped, readError, pump, pumpAt, then, abortAsked, at, fin, result>>
  BY DEF ReaderPops
<1>t. /\ inner \in InnerType /\ q \in Seq(Line) /\ delivered \in Seq(Line)
      /\ inner.bytes = BytesOf(q) /\ inner.bytes \in Nat /\ Len(q) \in Nat
      /\ Len(delivered) \in Nat /\ pump.next \in Nat
  BY <1>0 DEF DataType, InnerType, PumpType, TallyInv, Ceilings
<1>2. /\ Head(q) \in Line /\ Head(q) = q[1] /\ Tail(q) \in Seq(Line) /\ Len(Tail(q)) = Len(q) - 1
      /\ \A i \in 1..Len(Tail(q)) : Tail(q)[i] = q[i + 1]
      /\ Len(q) >= 1 /\ Head(q).len \in Nat
  <2>1. Len(q) >= 1 /\ Head(q) = q[1]
    BY <1>1, <1>t, EmptySeq
  <2>2. Head(q).len \in Nat
    BY <1>t, <2>1, LineNumbers
  <2> QED BY <1>1, <1>t, <2>1, <2>2, HeadTailProperties
<1>3. BytesOf(q) = Head(q).len + BytesOf(Tail(q)) /\ BytesOf(Tail(q)) \in Nat
  BY <1>1, <1>t, <1>2, BytesTail, BytesType
<1>4. Less(inner.bytes, Head(q).len) = BytesOf(Tail(q))
  BY <1>t, <1>2, <1>3 DEF Less
<1>5. /\ inner' \in InnerType /\ inner'.lines = Tail(q) /\ inner'.bytes = BytesOf(Tail(q))
      /\ inner'.seen = inner.seen /\ inner'.maxLines = inner.maxLines
      /\ inner'.maxBytes = inner.maxBytes /\ inner'.mode = inner.mode
      /\ inner'.discarding = inner.discarding /\ inner'.overflowed = inner.overflowed
      /\ inner'.tail = inner.tail /\ inner'.tailOversized = inner.tailOversized
      /\ inner'.tailFinal = inner.tailFinal /\ inner'.tailPending = inner.tailPending
  <2> DEFINE b == BytesOf(Tail(q))
             r == Tail(q)
  <2>1. inner' = [inner EXCEPT !.lines = r, !.bytes = b] /\ b \in Nat /\ r \in Seq(Line)
    BY <1>1, <1>2, <1>3, <1>4
  <2> HIDE DEF b, r
  <2>2. /\ inner' \in InnerType /\ inner'.lines = r /\ inner'.bytes = b
        /\ inner'.seen = inner.seen /\ inner'.maxLines = inner.maxLines
        /\ inner'.maxBytes = inner.maxBytes /\ inner'.mode = inner.mode
        /\ inner'.discarding = inner.discarding /\ inner'.overflowed = inner.overflowed
        /\ inner'.tail = inner.tail /\ inner'.tailOversized = inner.tailOversized
        /\ inner'.tailFinal = inner.tailFinal /\ inner'.tailPending = inner.tailPending
    BY <1>t, <2>1 DEF InnerType
  <2> QED BY <2>2 DEF b, r
<1>6. /\ delivered' \in Seq(Line) /\ Len(delivered') = Len(delivered) + 1
      /\ \A i \in 1..Len(delivered) : delivered'[i] = delivered[i]
      /\ delivered'[Len(delivered) + 1] = q[1]
  BY <1>1, <1>t, <1>2, AppendProperties
<1>7. DataType'
  <2>1. pump' \in PumpType'
    BY <1>0, <1>1 DEF DataType, PumpType, script
  <2> QED BY <1>0, <1>1, <1>5, <1>6, <2>1 DEF DataType
<1>8. \A i : StartOf(i)' = StartOf(i)
  BY <1>1, StartSame
<1>9. ScriptInv'
  BY <1>0, <1>1, <1>8 DEF ScriptInv, Through, IsAt, Telling, Recording, Total, Pending, HasLine, script
<1>l. inner'.lines \in Seq(Line) /\ Len(inner'.lines) = Len(q) - 1 /\ Len(inner'.lines) <= Len(q)
      /\ inner'.bytes <= inner.bytes /\ inner'.bytes \in Nat
      /\ \A i \in 1..Len(inner'.lines) : inner'.lines[i] = q[i + 1] /\ i + 1 \in 1..Len(q)
  BY <1>t, <1>2, <1>3, <1>5
<1>10. TallyInv'
  <2>1. Ceilings(inner')
    <3>1. \A n \in inner.maxLines : n \in Nat /\ Len(q) <= n
      BY <1>0, <1>t DEF TallyInv, Ceilings, InnerType
    <3>2. \A b \in inner.maxBytes : b \in Nat /\ inner.bytes <= b /\ Len(q) <= b
      BY <1>0, <1>t DEF TallyInv, Ceilings, InnerType
    <3>3. ~(inner.mode = "Error" /\ inner.maxLines = {} /\ inner.maxBytes = {})
      BY <1>0, <1>1 DEF TallyInv, Ceilings
    <3>4. \A n \in inner'.maxLines : Len(inner'.lines) <= n
      BY <1>t, <1>5, <1>l, <3>1
    <3>5. \A b \in inner'.maxBytes : inner'.bytes <= b /\ Len(inner'.lines) <= b
      BY <1>t, <1>5, <1>l, <3>2
    <3> QED BY <1>5, <3>3, <3>4, <3>5 DEF Ceilings
  <2>2. StartOf(pump.next) \in Nat /\ count \in Nat /\ pump.total \in Nat
    BY <1>0, ScriptFacts DEF DataType, PumpType
  <2>3. inner.bytes <= StartOf(pump.next) /\ Len(q) <= count /\ inner.seen = pump.read
        /\ (Recording => Len(q) < pump.total /\ pump.total <= count)
    BY <1>0 DEF TallyInv
  <2>4. inner'.bytes <= StartOf(pump.next) /\ Len(inner'.lines) <= count
        /\ (Recording => Len(inner'.lines) < pump.total)
    BY <1>t, <1>l, <2>2, <2>3
  <2>5. Recording' = Recording
    BY <1>1 DEF Recording
  <2> QED BY <1>1, <1>5, <1>8, <2>1, <2>3, <2>4, <2>5 DEF TallyInv
<1>11. OrderInv'
  <2>1. /\ \A i, j \in 1..Len(delivered) : i < j => delivered[i].no < delivered[j].no
        /\ \A i \in 1..Len(delivered) : delivered[i].no < pump.next
        /\ \A i, j \in 1..Len(q) : i < j => q[i].no < q[j].no
        /\ \A i \in 1..Len(q) : q[i].no < pump.next
        /\ \A i \in 1..Len(delivered), j \in 1..Len(q) : delivered[i].no < q[j].no
    BY <1>0 DEF OrderInv, Ascending
  <2>2. 1 \in 1..Len(q)
    BY <1>t, <1>2
  <2>3. Ascending(delivered', pump.next)
    <3>1. ASSUME NEW i \in 1..Len(delivered'), NEW j \in 1..Len(delivered'), i < j
          PROVE  delivered'[i].no < delivered'[j].no
      <4>1. i \in 1..Len(delivered) /\ (j \in 1..Len(delivered) \/ j = Len(delivered) + 1)
        BY <1>t, <1>6, <3>1
      <4> QED BY <1>6, <2>1, <2>2, <3>1, <4>1
    <3>2. ASSUME NEW i \in 1..Len(delivered') PROVE delivered'[i].no < pump.next
      <4>1. i \in 1..Len(delivered) \/ i = Len(delivered) + 1
        BY <1>t, <1>6
      <4> QED BY <1>6, <2>1, <2>2, <4>1
    <3> QED BY <3>1, <3>2 DEF Ascending
  <2>4. Ascending(inner'.lines, pump.next)
    <3>1. ASSUME NEW i \in 1..Len(inner'.lines), NEW j \in 1..Len(inner'.lines), i < j
          PROVE  inner'.lines[i].no < inner'.lines[j].no
      <4>1. i + 1 < j + 1
        BY <3>1
      <4> QED BY <1>l, <2>1, <4>1
    <3>2. \A i \in 1..Len(inner'.lines) : inner'.lines[i].no < pump.next
      BY <1>l, <2>1
    <3> QED BY <3>1, <3>2 DEF Ascending
  <2>5. ASSUME NEW i \in 1..Len(delivered'), NEW j \in 1..Len(inner'.lines)
        PROVE  delivered'[i].no < inner'.lines[j].no
    <3>0. j + 1 \in 1..Len(q) /\ inner'.lines[j] = q[j + 1]
      BY <1>l
    <3>a. Len(inner'.lines) \in Nat
      BY <1>l, LenProperties
    <3>b. 1 < j + 1
      BY <3>a
    <3>1. j + 1 \in 1..Len(q) /\ inner'.lines[j] = q[j + 1] /\ 1 < j + 1
      BY <3>0, <3>b
    <3>2. CASE i = Len(delivered) + 1
      BY <1>6, <2>1, <2>2, <3>1, <3>2
    <3>3. CASE i # Len(delivered) + 1
      <4>1. i \in 1..Len(delivered)
        BY <1>t, <1>6, <3>3
      <4> QED BY <1>6, <2>1, <3>1, <4>1
    <3> QED BY <3>2, <3>3
  <2> QED BY <1>0, <1>1, <1>5, <2>3, <2>4, <2>5 DEF OrderInv, HasTail, InOrder
<1>12. TailInv'
  BY <1>0, <1>1, <1>5, <1>8 DEF TailInv, IsAt, Telling, Pending, HasTail
<1>13. WholeInv'
  <2>1. Streamed
    BY <1>0, <1>1 DEF WholeInv
  <2>2. Streamed' /\ IsAt("done")' = IsAt("done")
    BY <1>1, <2>1 DEF Streamed, IsAt, Telling
  <2> QED BY <1>0, <1>1, <2>2 DEF WholeInv
<1> QED BY <1>7, <1>9, <1>10, <1>11, <1>12, <1>13 DEF LinesInv

-----------------------------------------------------------------------------
(* The verb that finishes the run.                                             *)

\* How the verb came by its result is one field of it.
LEMMA ResultSame ==
    ASSUME result \in ResultType, NEW how \in {"none", "joined", "overrun", "salvaged"}
    PROVE  LET r == [result EXCEPT !.how = how] IN
           /\ r \in ResultType /\ r.lines = result.lines /\ r.how = how
           /\ r.truncated = result.truncated /\ r.overflowed = result.overflowed
           /\ r.failed = result.failed
BY DEF ResultType

\* It stops waiting, joins, or gives the pump up.
LEMMA LinesJoins ==
    ASSUME LinesInv, FinishJoins \/ JoinEnds \/ JoinOverruns \/ ChainGivesUp
    PROVE  LinesInv'
<1> USE DEF waiting, sink, pumping
<1>0. DataType /\ OrderInv /\ WholeInv
  BY DEF LinesInv
<1>1. /\ UNCHANGED <<setup, inner, count, dropped, readError, pump, pumpAt, then, delivered, at>>
      /\ fin \in {"live", "join"} /\ result.how = "none" /\ abortAsked' \in BOOLEAN
  BY <1>0 DEF FinishJoins, JoinEnds, JoinOverruns, ChainGivesUp, DataType, WholeInv
<1>2. PICK how \in {"none", "joined", "overrun", "salvaged"} :
        /\ result' = [result EXCEPT !.how = how]
        /\ how = "none" <=> fin' \in {"live", "join"}
        /\ fin' \in {"live", "join", "collect"}
        /\ ~Streamed /\ how \in {"none", "joined"} => abortAsked' = abortAsked
        /\ how = "joined" => pumpAt = "done"
  <2>1. CASE FinishJoins
    <3>1. result' = [result EXCEPT !.how = "none"] /\ fin' = "join" /\ abortAsked' = abortAsked
      BY <1>0, <1>1, <2>1 DEF FinishJoins, DataType, ResultType
    <3> QED BY <3>1
  <2>2. CASE JoinEnds
    BY <2>2 DEF JoinEnds, Goes
  <2>3. CASE JoinOverruns
    BY <2>3 DEF JoinOverruns, Goes
  <2>4. CASE ChainGivesUp
    BY <2>4 DEF ChainGivesUp, Goes
  <2> QED BY <2>1, <2>2, <2>3, <2>4
<1>3. result' \in ResultType /\ result'.lines = result.lines /\ result'.how = how
  BY <1>0, <1>2, ResultSame DEF DataType
<1>4. DataType'
  BY <1>0, <1>1, <1>3 DEF DataType, PumpType, script
<1>5. \A i : StartOf(i)' = StartOf(i)
  BY <1>1, StartSame
<1>6. Kept' = Kept /\ (IsWhole(Kept)' <=> IsWhole(Kept)) /\ (HasLost' <=> HasLost)
  BY <1>1, <1>2, <1>5 DEF Kept, IsWhole, LineRead, script, HasLost
<1>7. WholeInv'
  <2>1. IsAt("done")' = IsAt("done") /\ Streamed' = Streamed
    BY <1>1 DEF IsAt, Telling, Streamed
  <2> QED BY <1>0, <1>1, <1>2, <1>3, <1>6, <2>1 DEF WholeInv
<1>8. InOrder(result.lines)'
  BY <1>0, <1>3 DEF OrderInv, InOrder
<1> QED BY <1>1, <1>4, <1>7, <1>8, SameLines

\* It has its lines, or wants none, and tells of the loss, if there was one.
LEMMA LinesJudges ==
    ASSUME LinesInv, CollectNothing \/ SalvageCountsLoss \/ SalvagePublishes \/ SalvageNotifies
                     \/ Judges
    PROVE  LinesInv'
<1> USE DEF waiting, sink, pumping
<1>0. DataType /\ OrderInv /\ WholeInv
  BY DEF LinesInv
<1>1. /\ UNCHANGED <<setup, inner, count, pump, pumpAt, then, delivered, abortAsked>>
      /\ dropped' \in Nat /\ readError' \in BOOLEAN
  <2>0. dropped \in Nat /\ readError \in BOOLEAN
    BY <1>0 DEF DataType
  <2>1. CASE SalvageCountsLoss
    BY <2>0, <2>1 DEF SalvageCountsLoss
  <2>2. CASE CollectNothing \/ SalvagePublishes \/ SalvageNotifies
    BY <2>0, <2>2 DEF CollectNothing, SalvagePublishes, SalvageNotifies
  <2>3. CASE Judges
    BY <2>0, <2>3 DEF Judges
  <2> QED BY <2>1, <2>2, <2>3
<1>2. \A i : StartOf(i)' = StartOf(i)
  BY <1>1, StartSame
<1>3. IsAt("done")' = IsAt("done") /\ Streamed' = Streamed /\ result.how # "none"
      /\ fin \notin {"live", "join"} /\ fin' \notin {"live", "join"}
  BY <1>0, <1>1 DEF IsAt, Telling, Streamed, WholeInv, CollectNothing, SalvageCountsLoss,
                    SalvagePublishes, SalvageNotifies, Judges
<1>4. CASE CollectNothing
  <2>1. UNCHANGED <<dropped, readError, at, result>> /\ Streamed /\ fin' = "judge" /\ fin = "collect"
    BY <1>4 DEF CollectNothing
  <2>2. DataType'
    BY <1>0, <1>1, <2>1 DEF DataType, PumpType, script
  <2>3. WholeInv'
    BY <1>0, <1>1, <1>3, <2>1 DEF WholeInv
  <2> QED BY <1>0, <1>1, <2>1, <2>2, <2>3, SameLines DEF OrderInv, InOrder
<1>5. CASE SalvageCountsLoss \/ SalvagePublishes \/ SalvageNotifies
  <2>1. /\ UNCHANGED <<readError, result>> /\ fin # "done" /\ fin' # "done"
        /\ fin \in {"lost", "publish", "notify"} /\ ReaderStays
    BY <1>5 DEF SalvageCountsLoss, SalvagePublishes, SalvageNotifies, ReaderStays, Woken, Waiters
  <2>2. ~Streamed => result.how \notin {"none", "joined"}
    BY <1>0, <1>3, <2>1 DEF WholeInv
  <2>3. DataType'
    BY <1>0, <1>1, <2>1 DEF DataType, PumpType, script
  <2>4. WholeInv'
    BY <1>0, <1>1, <1>3, <2>1, <2>2 DEF WholeInv, ReaderStays
  <2> QED BY <1>0, <1>1, <2>1, <2>3, <2>4, SameLines DEF OrderInv, InOrder
<1>6. CASE Judges
  <2>1. /\ result' = [result EXCEPT !.truncated = dropped > 0, !.overflowed = inner.overflowed,
                                    !.failed = readError]
        /\ UNCHANGED <<dropped, at>> /\ fin = "judge" /\ fin' = "done"
    BY <1>6 DEF Judges
  <2>2. inner.overflowed \in BOOLEAN /\ readError \in BOOLEAN /\ dropped \in Nat
        /\ result \in ResultType /\ (dropped > 0) \in BOOLEAN
    BY <1>0 DEF DataType, InnerType
  <2>3. /\ result' \in ResultType /\ result'.lines = result.lines /\ result'.how = result.how
        /\ result'.overflowed = inner.overflowed /\ result'.failed = readError
        /\ result'.truncated = (dropped > 0)
    BY <2>1, <2>2 DEF ResultType
  <2>4. result'.truncated <=> dropped > 0
    BY <2>3, Zenon
  <2>5. (result'.overflowed <=> inner.overflowed) /\ (result'.failed <=> readError)
    BY <2>3, Zenon
  <2>6. DataType'
    BY <1>0, <1>1, <2>1, <2>3 DEF DataType, PumpType, script
  <2>7. Kept' = Kept /\ (IsWhole(Kept)' <=> IsWhole(Kept)) /\ (HasLost' <=> HasLost)
    BY <1>1, <1>2, <2>1, <2>3 DEF Kept, IsWhole, LineRead, script, HasLost
  <2>8. ASSUME ~Streamed, result.how = "joined"
        PROVE  /\ pumpAt = "done" /\ (inner.overflowed => HasLost)
               /\ (dropped > 0 <=> HasLost) /\ (readError <=> pump.end = "error")
    <3>1. pumpAt = "done" /\ (inner.overflowed => HasLost)
      BY <1>0, <2>8 DEF WholeInv
    <3>2. IsAt("done")
      BY <3>1 DEF IsAt
    <3> QED BY <1>0, <2>1, <3>1, <3>2 DEF WholeInv, HasLost
  <2>9. WholeInv'
    BY <1>0, <1>1, <1>3, <2>1, <2>3, <2>4, <2>5, <2>7, <2>8 DEF WholeInv
  <2>10. InOrder(result.lines)'
    BY <1>0, <2>3 DEF OrderInv, InOrder
  <2> QED BY <1>1, <1>3, <2>3, <2>6, <2>9, <2>10, SameLines
<1> QED BY <1>4, <1>5, <1>6

\* What is left of the buffer once it was taken or thrown away.
LEMMA LinesTaken ==
    ASSUME LinesInv, DataType', WholeInv', InOrder(result.lines)',
           UNCHANGED <<setup, pump, pumpAt, then, delivered>>,
           inner'.lines = <<>>, inner'.bytes = 0, inner'.seen = inner.seen,
           HasTail(inner') /\ ~inner'.tailOversized => inner'.tail.no = pump.next,
           TailInv', count' \in Nat, count' >= count
    PROVE  LinesInv'
<1>1. DataType /\ ScriptInv /\ TallyInv /\ OrderInv
  BY DEF LinesInv
<1>2. \A i : StartOf(i)' = StartOf(i)
  BY StartSame
<1>3. Len(<<>>) = 0 /\ BytesOf(<<>>) = 0
  BY EmptySeq, BytesEmpty
<1>4. ScriptInv'
  BY <1>1, <1>2 DEF ScriptInv, Through, IsAt, Telling, Recording, Total, Pending, HasLine, script
<1>5. TallyInv'
  <2>1. inner'.maxLines \subseteq Nat /\ inner'.maxBytes \subseteq Nat
    BY DEF DataType, InnerType
  <2>2. Ceilings(inner')
    BY <1>3, <2>1 DEF Ceilings
  <2>3. /\ StartOf(pump.next) \in Nat /\ count \in Nat /\ pump.total \in Nat
        /\ Len(inner.lines) \in Nat
    BY <1>1, ScriptFacts, LenProperties DEF DataType, PumpType, InnerType
  <2>4. 0 <= StartOf(pump.next) /\ 0 <= count' /\ (Recording => 0 < pump.total /\ pump.total <= count')
    BY <1>1, <2>3 DEF TallyInv
  <2> QED BY <1>1, <1>2, <1>3, <2>2, <2>4 DEF TallyInv, Recording
<1>6. OrderInv'
  BY <1>1, <1>3 DEF OrderInv, Ascending
<1> QED BY <1>4, <1>5, <1>6 DEF LinesInv

LEMMA LinesDiscards == ASSUME LinesInv, FinishDiscards PROVE LinesInv'
<1> USE DEF waiting, pumping
<1>0. DataType /\ OrderInv /\ WholeInv
  BY DEF LinesInv
<1>1. /\ inner' = Discarding(inner) /\ Streamed /\ fin = "live" /\ fin' = "join"
      /\ UNCHANGED <<setup, count, dropped, readError, pump, pumpAt, then, abortAsked, delivered,
                     at, result>>
  BY DEF FinishDiscards
<1>2. /\ inner' \in InnerType /\ inner'.lines = <<>> /\ inner'.bytes = 0
      /\ inner'.seen = inner.seen /\ inner'.discarding /\ ~inner'.tailPending
  <2>1. {DiscardCap} \in SUBSET Nat /\ <<>> \in Seq(Line) /\ NoTail \in Line
    BY LineAssumption, EmptySeq DEF NoTail, Line
  <2>2. inner \in InnerType
    BY <1>0 DEF DataType
  <2> QED BY <1>1, <2>1, <2>2 DEF InnerType, Discarding, Drained
<1>3. DataType'
  BY <1>0, <1>1, <1>2 DEF DataType, PumpType, script
<1>4. WholeInv'
  <2>1. IsAt("done")' = IsAt("done") /\ Streamed' = Streamed
    BY <1>1 DEF IsAt, Telling, Streamed
  <2> QED BY <1>0, <1>1, <2>1 DEF WholeInv
<1>5. TailInv' /\ InOrder(result.lines)'
  BY <1>0, <1>1, <1>2 DEF TailInv, OrderInv, InOrder
<1>6. count \in Nat
  BY <1>0 DEF DataType
<1> QED BY <1>1, <1>2, <1>3, <1>4, <1>5, <1>6, LinesTaken DEF HasTail

LEMMA DrainedFacts ==
    ASSUME NEW in \in InnerType
    PROVE  /\ Drained(in) \in InnerType /\ SameRest(in, Drained(in))
           /\ Drained(in).lines = <<>> /\ Drained(in).bytes = 0
           /\ Drained(in).overflowed = in.overflowed
           /\ HasTail(Drained(in)) <=> HasTail(in)
<1>1. <<>> \in Seq(Line)
  BY EmptySeq
<1> QED BY <1>1 DEF Drained, InnerType, SameRest, HasTail

LEMMA AscendingInOrder ==
    ASSUME NEW q \in Seq(Line), NEW n, Ascending(q, n) PROVE InOrder(q)
<1>1. DOMAIN q = 1..Len(q)
  BY LenProperties
<1> QED BY <1>1 DEF Ascending, InOrder

\* What the fold of the tail leaves of a backlog is still in order.
LEMMA FoldAscends ==
    ASSUME LinesInv, NEW total \in Nat
    PROVE  LET r == WithTail(inner, total).inner.lines
           IN /\ r \in Seq(Line) /\ Ascending(r, pump.next + 1)
              /\ \A i \in 1..Len(r), j \in 1..Len(delivered) : delivered[j].no < r[i].no
<1> DEFINE q == inner.lines
           r == WithTail(inner, total).inner.lines
           n == pump.next
<1>0. DataType /\ TallyInv /\ OrderInv
  BY DEF LinesInv
<1>1. inner \in InnerType /\ inner.bytes = BytesOf(q) /\ q \in Seq(Line) /\ inner.tail \in Line
      /\ n \in Nat /\ delivered \in Seq(Line)
  <2>1. setup \in Setups /\ pump.next \in 1..Len(script) + 1
    BY <1>0 DEF DataType, PumpType
  <2>2. Len(script) \in Nat
    BY <2>1, ScriptFacts
  <2> QED BY <1>0, <2>1, <2>2 DEF DataType, InnerType, TallyInv, Ceilings
<1>2. /\ WithTail(inner, total).inner \in InnerType
      /\ \/ r = q
         \/ /\ HasTail(inner) /\ ~inner.tailOversized
            /\ \E k \in Nat : IsSuffix(Append(q, inner.tail), r, k)
  BY <1>1, FoldFacts
<1>3. r \in Seq(Line)
  BY <1>2 DEF InnerType
<1>4. Ascending(q, n) /\ Ascending(delivered, n)
      /\ \A i \in 1..Len(delivered), j \in 1..Len(q) : delivered[i].no < q[j].no
  BY <1>0 DEF OrderInv
<1> HIDE DEF r
<1>5. CASE r = q
  <2>1. \A i \in 1..Len(q) : q[i].no \in Nat
    BY <1>1, LineNumbers
  <2>2. Ascending(q, n + 1)
    BY <1>1, <1>4, <2>1 DEF Ascending
  <2> QED BY <1>3, <1>4, <1>5, <2>2 DEF r
<1>6. CASE HasTail(inner) /\ ~inner.tailOversized
           /\ \E k \in Nat : IsSuffix(Append(q, inner.tail), r, k)
  <2>1. inner.tail.no = n
    BY <1>0, <1>6 DEF OrderInv
  <2>2. PICK k \in Nat : IsSuffix(Append(q, inner.tail), r, k)
    BY <1>6
  <2> DEFINE e == inner.tail
  <2>3. e \in Line /\ e.no = n
    BY <1>1, <2>1
  <2> HIDE DEF e
  <2>4. IsSuffix(Append(q, e), r, k)
    BY <2>2 DEF e
  <2> HIDE DEF q, n
  <2>5. /\ Ascending(r, n + 1)
        /\ \A i \in 1..Len(r) : r[i] = e \/ \E j \in 1..Len(q) : r[i] = q[j]
    BY <1>1, <1>4, <2>3, <2>4, SuffixAscends
  <2>6. ASSUME NEW i \in 1..Len(r), NEW j \in 1..Len(delivered) PROVE delivered[j].no < r[i].no
    <3>1. CASE r[i] = e
      BY <1>4, <2>3, <3>1 DEF Ascending
    <3>2. CASE \E l \in 1..Len(q) : r[i] = q[l]
      BY <1>4, <3>2
    <3> QED BY <2>5, <3>1, <3>2
  <2> QED BY <1>3, <2>5, <2>6 DEF r, n
<1> QED BY <1>2, <1>5, <1>6 DEF r

LEMMA LinesCollects == ASSUME LinesInv, CollectDrains \/ CollectSalvages PROVE LinesInv'
<1> USE DEF waiting, pumping
<1>0. DataType /\ OrderInv /\ WholeInv
  BY DEF LinesInv
<1>t. inner \in InnerType /\ result \in ResultType /\ count \in Nat /\ count + 1 \in Nat
      /\ inner.lines \in Seq(Line)
  BY <1>0 DEF DataType, InnerType
<1>1. /\ UNCHANGED <<setup, dropped, readError, pump, pumpAt, then, abortAsked, delivered, at>>
      /\ fin = "collect" /\ result.how # "none"
  BY <1>0 DEF CollectDrains, CollectSalvages, WholeInv, Streamed
<1>2. IsAt("done")' = IsAt("done") /\ Streamed' = Streamed
  BY <1>1 DEF IsAt, Telling, Streamed
<1>3. \A i : StartOf(i)' = StartOf(i)
  BY <1>1, StartSame
\* What is taken, and what the rest of the step makes of it.
<1>4. ASSUME NEW in \in InnerType, NEW q \in Seq(Line), in.seen = inner.seen,
             in.discarding = inner.discarding, inner' = Drained(in),
             result' = [result EXCEPT !.lines = q], InOrder(q),
             HasTail(in) /\ ~in.tailOversized => in.tail.no = pump.next,
             count' \in Nat, count' >= count, WholeInv'
      PROVE  LinesInv'
  <2>1. result' \in ResultType /\ result'.how = result.how /\ result'.lines = q
    BY <1>t, <1>4 DEF ResultType
  <2>2. /\ inner' \in InnerType /\ SameRest(in, inner') /\ inner'.lines = <<>>
        /\ inner'.bytes = 0 /\ (HasTail(inner') <=> HasTail(in))
    BY <1>4, DrainedFacts
  <2>3. DataType'
    BY <1>0, <1>1, <1>4, <2>1, <2>2 DEF DataType, PumpType, script
  <2>4. TailInv' /\ InOrder(result.lines)'
    BY <1>1, <1>4, <2>1 DEF TailInv, InOrder
  <2>5. HasTail(inner') /\ ~inner'.tailOversized => inner'.tail.no = pump.next
    BY <1>4, <2>2 DEF SameRest
  <2>6. inner'.seen = inner.seen
    BY <1>4, <2>2 DEF SameRest
  <2> QED BY <1>1, <1>4, <2>2, <2>3, <2>4, <2>5, <2>6, LinesTaken
<1>5. CASE CollectDrains
  <2>1. /\ result' = [result EXCEPT !.lines = inner.lines] /\ inner' = Drained(inner)
        /\ fin' = "judge" /\ count' = count
    BY <1>5 DEF CollectDrains
  <2>2. Ascending(inner.lines, pump.next)
        /\ (HasTail(inner) /\ ~inner.tailOversized => inner.tail.no = pump.next)
    BY <1>0 DEF OrderInv
  <2>3. InOrder(inner.lines)
    BY <1>t, <2>2, AscendingInOrder
  <2>4. /\ result'.how = result.how /\ result'.lines = inner.lines
        /\ result'.truncated = result.truncated /\ result'.overflowed = result.overflowed
        /\ result'.failed = result.failed
    BY <1>t, <2>1 DEF ResultType
  <2>5. inner'.discarding = inner.discarding /\ inner'.overflowed = inner.overflowed
    BY <1>t, <2>1, DrainedFacts DEF SameRest
  <2>6. Kept' = Kept /\ (IsWhole(Kept)' <=> IsWhole(Kept)) /\ (HasLost' <=> HasLost)
    BY <1>1, <1>3, <2>1, <2>4 DEF Kept, IsWhole, LineRead, script, HasLost
  <2>7. WholeInv'
    BY <1>0, <1>1, <1>2, <2>1, <2>4, <2>5, <2>6 DEF WholeInv
  <2>8. count >= count
    BY <1>t
  <2> QED BY <1>4, <1>t, <2>1, <2>2, <2>3, <2>7, <2>8
<1>6. CASE CollectSalvages
  <2> DEFINE out == WithTail(inner, count + 1)
             o == out.inner
             q == o.lines
  <2>1. /\ result' = [result EXCEPT !.lines = q] /\ inner' = Drained(o)
        /\ fin' \in {"lost", "publish", "judge"} /\ result.how = "salvaged"
        /\ count' = IF HasTail(inner) THEN count + 1 ELSE count
    BY <1>6 DEF CollectSalvages
  <2>2. inner.bytes = BytesOf(inner.lines)
    BY DEF LinesInv, TallyInv, Ceilings
  <2>3. /\ o \in InnerType /\ ~HasTail(o) /\ o.seen = inner.seen
        /\ o.discarding = inner.discarding
    BY <1>t, <2>2, FoldFacts
  <2>4. q \in Seq(Line) /\ Ascending(q, pump.next + 1)
    BY <1>t, FoldAscends
  <2> HIDE DEF o
  <2>5. InOrder(q)
    BY <2>4, AscendingInOrder
  <2>6. result'.how = "salvaged" /\ inner'.discarding = inner.discarding
    <3>1. result'.how = "salvaged"
      BY <1>t, <2>1 DEF ResultType
    <3> QED BY <2>1, <2>3, <3>1, DrainedFacts DEF SameRest
  <2>7. WholeInv'
    BY <1>0, <1>1, <1>2, <2>1, <2>6 DEF WholeInv
  <2>8. count' \in Nat /\ count' >= count
    BY <1>t, <2>1
  <2> QED BY <1>4, <2>1, <2>3, <2>4, <2>5, <2>7, <2>8
<1> QED BY <1>5, <1>6

-----------------------------------------------------------------------------
(* The theorems.                                                               *)

LEMMA LinesStep == WakeInv /\ LinesInv /\ [Next]_vars => LinesInv'
<1> SUFFICES ASSUME WakeInv, LinesInv, [Next]_vars PROVE LinesInv'
  OBVIOUS
<1>1. Typed /\ Typed'
  BY WakeStep DEF WakeInv
<1>2. CASE Finished \/ UNCHANGED vars
  <2>1. UNCHANGED <<setup, inner, count, dropped, readError, pump, pumpAt, then, abortAsked,
                    delivered, at, fin, result>>
    BY <1>2 DEF Finished, vars, sink, pumping, waiting
  <2>2. IsAt("read")' = IsAt("read") /\ IsAt("last")' = IsAt("last") /\ Recording' = Recording
        /\ IsAt("close")' = IsAt("close") /\ IsAt("done")' = IsAt("done") /\ HasLost' = HasLost
    BY <2>1 DEF IsAt, Telling, Recording, HasLost
  <2>3. \A place \in {"read", "last", "close", "done"} : IsAt(place)' <=> IsAt(place)
    BY <2>2
  <2>4. dropped' \in Nat
    BY <2>1 DEF LinesInv, DataType
  <2> QED BY <2>1, <2>2, <2>3, <2>4, SameBusiness DEF ReaderStays
<1>3. CASE PumpSteps \/ ChildFeeds
  BY <1>1, <1>3, LinesReads, LinesEnds, LinesCounts, LinesRecords, LinesTells, LinesSetsTail,
     LinesCloses DEF PumpSteps, ChildFeeds
<1>4. CASE ReaderSteps \/ ProbeSteps \/ \E w \in Waiters : GivesUp(w)
  <2>1. ReaderPops \/ ReaderEnds \/ ProbeMatches \/ \E w \in Waiters : Waits(w) \/ GivesUp(w)
    BY <1>4 DEF ReaderSteps, ProbeSteps, Waiters
  <2> QED BY <1>1, <2>1, LinesPops, LinesWaits
<1>5. CASE FinishSteps \/ FinishJoins \/ FinishDiscards \/ JoinOverruns \/ ChainGivesUp
  BY <1>5, LinesJoins, LinesJudges, LinesDiscards, LinesCollects DEF FinishSteps
<1> QED BY <1>2, <1>3, <1>4, <1>5 DEF Next, Choices

LEMMA LinesAlways == Spec => [](WakeInv /\ LinesInv)
<1>1. Init => WakeInv /\ LinesInv
  BY WakeInit, LinesInit
<1>2. WakeInv /\ LinesInv /\ [Next]_vars => (WakeInv /\ LinesInv)'
  BY WakeStep, LinesStep
<1> QED BY <1>1, <1>2, PTL DEF Spec

\* Every variable of a stream keeps to its states, whatever the child writes.
THEOREM TypeCorrect == Spec => []TypeOK
<1>1. WakeInv /\ LinesInv => TypeOK
  BY DEF WakeInv, LinesInv, Typed, DataType, InnerType, TypeOK, Places, PumpPlaces, FinPlaces
<1> QED BY <1>1, LinesAlways, PTL

\* Whatever is yielded, salvaged and returned, no line of the output reaches the
\* caller twice, with a checkpoint taken at any moment.
THEOREM OnceCorrect == Spec => []NothingTwice
<1>1. WakeInv /\ LinesInv => NothingTwice
  <2> SUFFICES ASSUME LinesInv PROVE NothingTwice
    OBVIOUS
  <2> DEFINE r == RetainedSnapshot
  <2>1. DataType /\ OrderInv
    BY DEF LinesInv
  <2>2. count + 1 \in Nat /\ delivered \in Seq(Line)
    BY <2>1 DEF DataType
  <2>3. /\ r \in Seq(Line) /\ Ascending(r, pump.next + 1)
        /\ \A i \in 1..Len(r), j \in 1..Len(delivered) : delivered[j].no < r[i].no
    BY <2>2, FoldAscends DEF RetainedSnapshot
  <2> HIDE DEF r
  <2>4. Ascending(delivered, pump.next) /\ InOrder(result.lines)
    BY <2>1 DEF OrderInv
  <2>5. InOrder(delivered \o r)
    <3> DEFINE d == delivered
    <3>1. Len(d) \in Nat /\ Len(r) \in Nat /\ IsSeq(d) /\ IsSeq(r)
      BY <2>2, <2>3, LenProperties DEF IsSeq
    <3>2. /\ DOMAIN (d \o r) = 1..Len(d) + Len(r)
          /\ \A i \in 1..Len(d) + Len(r) :
               (d \o r)[i] = IF i <= Len(d) THEN d[i] ELSE r[i - Len(d)]
      BY <3>1, SeqConcat
    <3> SUFFICES ASSUME NEW i \in 1..Len(d) + Len(r), NEW j \in 1..Len(d) + Len(r), i < j
                 PROVE  (d \o r)[i].no < (d \o r)[j].no
      BY <3>2 DEF InOrder
    <3>3. CASE j <= Len(d)
      <4>1. i \in 1..Len(d) /\ j \in 1..Len(d)
        BY <3>1, <3>3
      <4> QED BY <2>4, <3>2, <4>1 DEF Ascending
    <3>4. CASE i <= Len(d) /\ ~(j <= Len(d))
      <4>1. i \in 1..Len(d) /\ j - Len(d) \in 1..Len(r)
        BY <3>1, <3>4
      <4> QED BY <2>3, <3>2, <3>4, <4>1
    <3>5. CASE ~(i <= Len(d)) /\ ~(j <= Len(d))
      <4>1. i - Len(d) \in 1..Len(r) /\ j - Len(d) \in 1..Len(r) /\ i - Len(d) < j - Len(d)
        BY <3>1, <3>5
      <4> QED BY <2>3, <3>2, <3>5, <4>1 DEF Ascending
    <3>6. i <= Len(d) \/ ~(j <= Len(d))
      BY <3>1
    <3> QED BY <3>3, <3>4, <3>5, <3>6
  <2> QED BY <2>4, <2>5 DEF NothingTwice, r
<1> QED BY <1>1, LinesAlways, PTL

\* A joined capture with no signal is the whole output and a truncated one is
\* not, a live tail can always be salvaged, and the backlog keeps to its caps.
THEOREM HonestCorrect == Spec => []CaptureIsHonest
<1>1. WakeInv /\ LinesInv => CaptureIsHonest
  <2> SUFFICES ASSUME WakeInv, LinesInv PROVE CaptureIsHonest
    OBVIOUS
  <2>0. DataType /\ TallyInv /\ TailInv /\ WholeInv
    BY DEF LinesInv
  <2>1. JoinedIsWhole
    <3> SUFFICES ASSUME fin = "done", ~Streamed, result.how = "joined" PROVE JoinedIsWhole
      BY DEF JoinedIsWhole
    <3> DEFINE n == pump.next - 1
               whole == [i \in 1..n |-> LineRead(i)]
               q == result.lines
    <3>1. /\ ~HasLost => IsWhole(q)
          /\ HasLost => Len(q) < n
          /\ result.truncated <=> HasLost
          /\ result.overflowed => HasLost
          /\ result.failed <=> pump.end = "error"
      BY <2>0 DEF WholeInv, Kept
    <3>2. q \in Seq(Line) /\ n \in Nat
      <4>1. Len(script) \in Nat /\ pump.next \in 1..Len(script) + 1
        BY <2>0, ScriptFacts DEF DataType, PumpType
      <4> QED BY <2>0, <4>1 DEF DataType, ResultType
    <3>3. q \in [1..Len(q) -> Line] /\ Len(q) \in Nat
      BY <3>2, LenProperties
    <3>4. ASSUME IsWhole(q) PROVE q = whole
      <4>1. Len(q) = n /\ \A i \in 1..n : q[i] = LineRead(i)
        BY <3>4 DEF IsWhole
      <4>2. q = [i \in 1..Len(q) |-> q[i]]
        BY <3>3
      <4> QED BY <4>1, <4>2
    <3>5. ASSUME Len(q) < n PROVE q # whole
      <4>1. DOMAIN q = 1..Len(q) /\ DOMAIN whole = 1..n
        BY <3>3
      <4>2. n \in 1..n /\ n \notin 1..Len(q)
        BY <3>2, <3>3, <3>5
      <4> QED BY <4>1, <4>2
    <3> HIDE DEF q, whole
    <3>6. /\ ~result.truncated => q = whole
          /\ result.truncated \/ result.overflowed => q # whole
      BY <3>1, <3>4, <3>5
    <3> QED BY <3>1, <3>6 DEF JoinedIsWhole, q, whole, n
  <2>2. LiveTailIsSalvageable
    BY <2>0 DEF TailInv, LiveTailIsSalvageable, IsAt
  <2>3. BacklogWithinCeilings
    BY <2>0 DEF TallyInv, Ceilings, BacklogWithinCeilings
  <2> QED BY <2>1, <2>2, <2>3 DEF CaptureIsHonest
<1> QED BY <1>1, LinesAlways, PTL
=============================================================================
