----------------------------- MODULE LineBuffer -----------------------------
(* One piped output stream of a child: the pump task that cuts it into lines,  *)
(* the buffer SharedLines it publishes them through, and who reads the buffer: *)
(* a line stream, a readiness probe that waits for an unfinished line, and the *)
(* verb that finishes the run.  src/pump.rs and its users in src/running.      *)
(*                                                                             *)
(* Every critical section of the buffer's mutex is one step, and so is every   *)
(* counter outside of it: the order of these steps is what the module is about.*)
(* Text is abstracted to lengths; two texts of one length are alike, the case  *)
(* in which the pump can tell least from what it published last.               *)
EXTENDS Naturals, Sequences

CONSTANTS
    Setups,       \* the runs considered, each with
                  \*   script: the lengths of the lines the child may write
                  \*   policy: output_buffer, [maxLines, maxBytes, mode]; a cap is {} or {n}
                  \*   waiters: a line stream ("reader"), a readiness probe ("probe")
    Prompt,       \* the length of the unfinished line the probe waits for
    DiscardCap    \* DISCARD_INFLIGHT_CAP

Modes == {"DropOldest", "DropNewest", "Error"}
Waiters == {"reader", "probe"}

ASSUME LineAssumption ==
    /\ \A s \in Setups : s.script \in Seq(Nat) /\ s.waiters \subseteq Waiters
    /\ \A s \in Setups : LET p == s.policy IN
         p.mode \in Modes /\ p.maxLines \subseteq Nat /\ p.maxBytes \subseteq Nat
    /\ Prompt \in Nat \ {0} /\ DiscardCap \in Nat

VARIABLES
    setup,       \* of this run
    inner,       \* SharedLines.inner
    generation,  \* SharedLines.generation
    count,       \* SharedLines.count
    dropped,     \* SharedLines.dropped
    readError,   \* SharedLines.read_error is set
    pumpAt,      \* where the pump is
    then,        \* where the pump goes on after it published a change
    pump,        \* its locals: what it read, the line it is at, ...
    abortAsked,  \* JoinHandle::abort was called on it
    at,          \* where each waiter is
    observed,    \* the generation it saw with the state it saw
    delivered,   \* lines the stream yielded
    fin,         \* where the verb that finishes the run is
    result       \* what it returns

sink    == <<inner, generation, count, dropped, readError>>
pumping == <<pumpAt, then, pump, abortAsked>>
waiting == <<at, observed, delivered>>
vars == <<setup, sink, pumping, waiting, fin, result>>

-----------------------------------------------------------------------------
(* What the child writes: the content of every line, then its terminator.      *)

script == setup.script
Streamed == "reader" \in setup.waiters

\* Where line i begins, counting one unit for a terminator.
StartOf(i) ==
    LET start[k \in 1..Len(script) + 1] ==
            IF k = 1 THEN 0 ELSE start[k - 1] + script[k - 1] + 1
    IN start[i]

Total == StartOf(Len(script) + 1)

\* Mutant of HasLine: a line is taken to end before its terminator.
HasLineEarly == pump.next <= Len(script) /\ pump.read + 1 >= StartOf(pump.next + 1)

\* The pump's buffer holds the rest of the line it is at, and maybe more lines.
HasLine == pump.next <= Len(script) /\ pump.read >= StartOf(pump.next + 1)
Pending == pump.read - StartOf(pump.next)
OverCap(n) == \E c \in pump.cap : n > c

NoTail == [no |-> 0, len |-> 0]

\* The line that is being emitted: a complete one, or the last piece at the end.
Entry == [no |-> pump.next, len |-> IF HasLine THEN script[pump.next] ELSE Pending]

-----------------------------------------------------------------------------
(* SharedLines: what happens to Inner under its mutex.                         *)

Less(a, b) == IF a > b THEN a - b ELSE 0

BytesOf(q) ==
    LET sum[k \in 0..Len(q)] == IF k = 0 THEN 0 ELSE sum[k - 1] + q[k].len
    IN sum[Len(q)]

OverBacklog(in) ==
    \/ \E n \in in.maxLines : Len(in.lines) > n
    \/ \E b \in in.maxBytes : in.bytes > b \/ Len(in.lines) > b

WouldFit(in, len) ==
    /\ \A n \in in.maxLines : Len(in.lines) < n
    /\ \A b \in in.maxBytes : in.bytes + len <= b /\ Len(in.lines) < b

\* Inner without its k oldest lines.
Without(in, k) ==
    [in EXCEPT !.lines = SubSeq(@, k + 1, Len(@)),
               !.bytes = Less(@, BytesOf(SubSeq(in.lines, 1, k)))]

\* The eviction loop stops at the first backlog that fits, or at an empty one.
Evicted(in) ==
    CHOOSE k \in 0..Len(in.lines) :
        /\ k = Len(in.lines) \/ ~OverBacklog(Without(in, k))
        /\ \A j \in 0..k - 1 : OverBacklog(Without(in, j))

Appended(in, line) ==
    [in EXCEPT !.lines = Append(@, line), !.bytes = @ + line.len]

\* The Error ceiling is on everything seen, not on what is retained.
OverCeiling(in, total) ==
    \/ in.maxLines = {} /\ in.maxBytes = {}
    \/ \E n \in in.maxLines : total > n
    \/ \E b \in in.maxBytes : in.seen > b \/ total > b

\* Mutant of Superseded: the pump's next publication will replace the tail.
NotSuperseded(in) == in

\* A completed line makes the published tail, its head, unfit for salvage.
Superseded(in) == [in EXCEPT !.tailFinal = @ \/ in.tailPending]

Outcome(in, lost) == [inner |-> in, lost |-> lost]

\* A ceiling on the run: what is beyond it trips the error.
Ceiled(in, line, total) ==
    IF OverCeiling(in, total)
    THEN Outcome([in EXCEPT !.overflowed = TRUE], TRUE)
    ELSE Outcome(Appended(in, line), FALSE)

\* A rolling tail: append, then evict the oldest.
Rolled(in, line) ==
    LET grown == Appended(in, line)
    IN Outcome(Without(grown, Evicted(grown)), Evicted(grown) > 0)

\* Mutant of Headed: the first line that is refused does not seal the head.
HeadedUnsealed(in, line) ==
    IF WouldFit(in, line.len) THEN Outcome(Appended(in, line), FALSE) ELSE Outcome(in, TRUE)

\* A frozen head.
Headed(in, line) ==
    IF ~in.sealed /\ WouldFit(in, line.len)
    THEN Outcome(Appended(in, line), FALSE)
    ELSE Outcome([in EXCEPT !.sealed = TRUE], TRUE)

ByMode(in, line, total) ==
    CASE in.mode = "Error" -> Ceiled(in, line, total)
      [] in.mode = "DropOldest" -> Rolled(in, line)
      [] in.mode = "DropNewest" -> Headed(in, line)

\* retain_line_locked.
Retained(in, line, total) ==
    IF in.discarding THEN Outcome(Superseded(in), FALSE)
    ELSE ByMode(Superseded(in), line, total)

\* Mutant of Skipped: only the seal and the ceiling tell of the line.
SkippedSilently(in) ==
    Outcome([Superseded(in) EXCEPT !.overflowed = @ \/ in.mode = "Error",
                                   !.sealed = @ \/ in.mode = "DropNewest"], FALSE)

\* record_oversized_locked.
Skipped(in) ==
    IF in.discarding THEN Outcome(Superseded(in), FALSE)
    ELSE Outcome([Superseded(in) EXCEPT !.overflowed = @ \/ in.mode = "Error",
                                        !.sealed = @ \/ in.mode = "DropNewest"], TRUE)

\* The fold of a live unfinished line into the backlog, common to the snapshot
\* that drains and the one that does not: the tail is taken, then recorded.
HasTail(in) == in.tailPending /\ ~in.tailFinal
WithTail(in, total) ==
    LET taken == [in EXCEPT !.tail = NoTail, !.tailPending = FALSE, !.tailFinal = TRUE]
    IN IF ~HasTail(in) THEN Outcome(in, FALSE)
       ELSE IF in.tailOversized THEN Skipped(taken)
       ELSE Retained(taken, in.tail, total)

Drained(in) == [in EXCEPT !.lines = <<>>, !.bytes = 0]

\* retained_snapshot: what a checkpoint taken now would return.
RetainedSnapshot == WithTail(inner, count + 1).inner.lines

TailChanged(in, tail, oversized) ==
    \/ in.tail.len # tail.len
    \/ in.tailPending # (oversized \/ tail.len > 0)
    \/ in.tailOversized # oversized

\* set_partial_tail_state, which publishes if TailChanged.
TailSet(in, tail, oversized) ==
    [in EXCEPT !.tail = tail, !.tailPending = oversized \/ tail.len > 0,
               !.tailOversized = oversized, !.tailFinal = FALSE]

\* start_discarding.
Discarding(in) ==
    [Drained(in) EXCEPT !.discarding = TRUE, !.maxBytes = {DiscardCap},
                        !.tail = NoTail, !.tailPending = FALSE,
                        !.tailOversized = FALSE, !.tailFinal = FALSE]

-----------------------------------------------------------------------------
(* Initially nothing is read, and nobody looks yet.                            *)

NewInner(p) ==
    [lines |-> <<>>, bytes |-> 0, seen |-> 0, closed |-> FALSE, overflowed |-> FALSE,
     maxLines |-> p.maxLines, maxBytes |-> p.maxBytes, mode |-> p.mode,
     discarding |-> FALSE, sealed |-> FALSE,
     tail |-> NoTail, tailPending |-> FALSE, tailOversized |-> FALSE, tailFinal |-> FALSE]

NewPump == [read |-> 0, next |-> 1, skipping |-> FALSE, cap |-> {}, end |-> "no", total |-> 0]

NoResult == [how |-> "none", lines |-> <<>>, truncated |-> FALSE,
             overflowed |-> FALSE, failed |-> FALSE]

Init ==
    /\ setup \in Setups
    /\ inner = NewInner(setup.policy)
    /\ generation = 0 /\ count = 0 /\ dropped = 0 /\ readError = FALSE
    /\ pumpAt = "read" /\ then = "read" /\ pump = NewPump /\ abortAsked = FALSE
    /\ at = [w \in Waiters |-> IF w \in setup.waiters THEN "look" ELSE "gone"]
    /\ observed = [w \in Waiters |-> 0]
    /\ delivered = <<>>
    /\ fin = "live"
    /\ result = NoResult

-----------------------------------------------------------------------------
(* publish_change: the generation first, then the broadcast.                   *)

\* Mutant of Woken: one waiter is picked, as notify_one does.
WokenOne ==
    IF at["reader"] \in {"enabled", "parked"} THEN [at EXCEPT !["reader"] = "look"]
    ELSE IF at["probe"] \in {"enabled", "parked"} THEN [at EXCEPT !["probe"] = "look"] ELSE at

\* Everybody who enabled its notification is woken.
Woken == [w \in Waiters |-> IF at[w] \in {"enabled", "parked"} THEN "look" ELSE at[w]]

-----------------------------------------------------------------------------
(* The pump: pump_lines_core.                                                  *)

\* One read with what belongs to it: the bytes are added to the total and the
\* cap is read again.  An aborted task that is inside a poll may read on.
PumpReads ==
    /\ pumpAt = "read"
    /\ \E n \in 1..Total - pump.read :
         /\ pump' = [pump EXCEPT !.read = @ + n, !.cap = inner.maxBytes]
         /\ inner' = [inner EXCEPT !.seen = @ + n]
    /\ pumpAt' = "split"
    /\ UNCHANGED <<setup, generation, count, dropped, readError, then,
                   abortAsked, waiting, fin, result>>

\* Ok(0), a broken pipe, or an error of the operating system, at any byte.
PumpReadEnds ==
    /\ pumpAt = "read"
    /\ \E end \in {"eof", "error"} :
         pump' = [pump EXCEPT !.end = end, !.cap = inner.maxBytes]
    /\ pumpAt' = "split"
    /\ UNCHANGED <<setup, sink, then, abortAsked, waiting, fin, result>>

\* The abort takes effect at an await; the guard CloseOnDrop still closes.
PumpAborted ==
    /\ pumpAt = "read" /\ abortAsked
    /\ pumpAt' = "close"
    /\ UNCHANGED <<setup, sink, then, pump, abortAsked, waiting, fin, result>>

\* push and record_oversized_line count before they take the mutex.
Counts(next) ==
    /\ count' = count + 1
    /\ pump' = [pump EXCEPT !.total = count + 1]
    /\ pumpAt' = IF pump.skipping \/ OverCap(Entry.len) THEN "oversized" ELSE "retain"
    /\ then' = next
    /\ UNCHANGED <<setup, inner, generation, dropped, readError, abortAsked,
                   waiting, fin, result>>

PumpCountsLine == pumpAt = "split" /\ HasLine /\ Counts("split")

\* The last line, if it has no terminator, is emitted at the end.
PumpCountsLast == pumpAt = "last" /\ (pump.skipping \/ Pending > 0) /\ Counts("close")

Records(outcome) ==
    /\ inner' = outcome.inner
    /\ pumpAt' = IF outcome.lost THEN "lost" ELSE "publish"
    /\ pump' = [pump EXCEPT !.next = @ + 1, !.skipping = FALSE]
    /\ UNCHANGED <<setup, generation, count, dropped, readError, then, abortAsked,
                   waiting, fin, result>>

PumpRetains == pumpAt = "retain" /\ Records(Retained(inner, Entry, pump.total))
PumpSkips == pumpAt = "oversized" /\ Records(Skipped(inner))

\* The counter of losses is bumped after the mutex is released.
PumpCountsLoss ==
    /\ pumpAt = "lost"
    /\ dropped' = dropped + 1
    /\ pumpAt' = "publish"
    /\ UNCHANGED <<setup, inner, generation, count, readError, then, pump,
                   abortAsked, waiting, fin, result>>

PumpPublishes ==
    /\ pumpAt = "publish"
    /\ generation' = generation + 1
    /\ pumpAt' = "notify"
    /\ UNCHANGED <<setup, inner, count, dropped, readError, then, pump,
                   abortAsked, waiting, fin, result>>

PumpNotifies ==
    /\ pumpAt = "notify"
    /\ at' = Woken
    /\ pumpAt' = then
    /\ UNCHANGED <<setup, sink, then, pump, abortAsked, observed, delivered,
                   fin, result>>

\* After the last complete line of a chunk the rest is published as the live
\* tail; a rest beyond the cap is thrown away and the line will be skipped.
PumpSetsTail ==
    /\ pumpAt = "split" /\ ~HasLine
    /\ LET oversized == pump.skipping \/ OverCap(Pending)
           tail == IF oversized \/ Pending = 0 THEN NoTail
                   ELSE [no |-> pump.next, len |-> Pending]
       IN /\ pump' = [pump EXCEPT !.skipping = oversized]
          /\ inner' = TailSet(inner, tail, oversized)
          /\ then' = IF pump.end = "no" THEN "read" ELSE "last"
          /\ pumpAt' = IF TailChanged(inner, tail, oversized) THEN "publish" ELSE then'
    /\ UNCHANGED <<setup, generation, count, dropped, readError, abortAsked,
                   waiting, fin, result>>

PumpHasNoLast ==
    /\ pumpAt = "last" /\ ~pump.skipping /\ Pending = 0
    /\ pumpAt' = "close"
    /\ UNCHANGED <<setup, sink, then, pump, abortAsked, waiting, fin, result>>

\* set_read_error, which nobody can tell from close, and CloseOnDrop.
PumpCloses ==
    /\ pumpAt = "close"
    /\ readError' = (pump.end = "error")
    /\ inner' = [inner EXCEPT !.closed = TRUE]
    /\ then' = "done"
    /\ pumpAt' = "publish"
    /\ UNCHANGED <<setup, generation, count, dropped, pump, abortAsked,
                   waiting, fin, result>>

-----------------------------------------------------------------------------
(* The waiters: StdoutLines::poll_next and the search of wait_for_output.      *)

Matches(in) == in.tail.len = Prompt

\* What ends a wait: a line or the end, a matching tail or the end.
Ready(w) == inner.closed \/ IF w = "reader" THEN inner.lines # <<>> ELSE Matches(inner)

ReaderPops ==
    /\ at["reader"] = "look" /\ inner.lines # <<>>
    /\ delivered' = Append(delivered, Head(inner.lines))
    /\ inner' = [inner EXCEPT !.lines = Tail(@), !.bytes = Less(@, Head(inner.lines).len)]
    /\ UNCHANGED <<setup, generation, count, dropped, readError, pumping, at,
                   observed, fin, result>>

ReaderEnds ==
    /\ at["reader"] = "look" /\ inner.lines = <<>> /\ inner.closed
    /\ at' = [at EXCEPT !["reader"] = "done"]
    /\ UNCHANGED <<setup, sink, pumping, observed, delivered, fin, result>>

ProbeMatches ==
    /\ at["probe"] = "look" /\ (Matches(inner) \/ inner.closed)
    /\ at' = [at EXCEPT !["probe"] = "done"]
    /\ UNCHANGED <<setup, sink, pumping, observed, delivered, fin, result>>

\* Nothing yet: the generation is read under the same lock.
Misses(w) ==
    /\ at[w] = "look" /\ ~Ready(w)
    /\ observed' = [observed EXCEPT ![w] = generation]
    /\ at' = [at EXCEPT ![w] = "missed"]
    /\ UNCHANGED <<setup, sink, pumping, delivered, fin, result>>

\* changed: the notification is enabled before the generation is compared.
Enables(w) ==
    /\ at[w] = "missed"
    /\ at' = [at EXCEPT ![w] = "enabled"]
    /\ UNCHANGED <<setup, sink, pumping, observed, delivered, fin, result>>

\* Mutant of Parks: a publication before the notification was enabled is missed.
ParksBlindly(w) ==
    /\ at[w] = "enabled"
    /\ at' = [at EXCEPT ![w] = "parked"]
    /\ UNCHANGED <<setup, sink, pumping, observed, delivered, fin, result>>

Parks(w) ==
    /\ at[w] = "enabled"
    /\ at' = [at EXCEPT ![w] = IF generation # observed[w] THEN "look" ELSE "parked"]
    /\ UNCHANGED <<setup, sink, pumping, observed, delivered, fin, result>>

\* The stream is dropped between two polls, the probe's time is up.
GivesUp(w) ==
    /\ at[w] = "parked" \/ (w = "reader" /\ at[w] = "look")
    /\ at' = [at EXCEPT ![w] = "gone"]
    /\ UNCHANGED <<setup, sink, pumping, observed, delivered, fin, result>>

Waits(w) == Misses(w) \/ Enables(w) \/ Parks(w)

-----------------------------------------------------------------------------
(* The verb that finishes the run owns the handle, so the probe is over.       *)

Over(w) == at[w] \in {"done", "gone"}

\* finish joins the pump of a stream; output_string joins that of its own.
FinishJoins ==
    /\ fin = "live" /\ Over("probe")
    /\ fin' = "join"
    /\ UNCHANGED <<setup, sink, pumping, waiting, result>>

\* wait and drain adopt the buffer of a stream, which may still be held.
FinishDiscards ==
    /\ fin = "live" /\ Over("probe") /\ Streamed
    /\ inner' = Discarding(inner)
    /\ fin' = "join"
    /\ UNCHANGED <<setup, generation, count, dropped, readError, pumping,
                   waiting, result>>

Goes(how) ==
    /\ result' = [result EXCEPT !.how = how]
    /\ fin' = "collect"

\* join_pumps.
JoinEnds ==
    /\ fin = "join" /\ pumpAt = "done"
    /\ Goes("joined")
    /\ UNCHANGED <<setup, sink, pumping, waiting>>

\* A leaked pipe keeps the pump alive beyond PUMP_TEARDOWN.
JoinOverruns ==
    /\ fin = "join" /\ pumpAt # "done"
    /\ abortAsked' = TRUE
    /\ Goes("overrun")
    /\ UNCHANGED <<setup, sink, pumpAt, then, pump, waiting>>

\* A chain drops the capture task of its last stage, which aborts its pump, and
\* salvages what there is.
ChainGivesUp ==
    /\ ~Streamed /\ fin \in {"live", "join"} /\ Over("probe")
    /\ abortAsked' = TRUE
    /\ Goes("salvaged")
    /\ UNCHANGED <<setup, sink, pumpAt, then, pump, waiting>>

\* drain, at the end of output_string.
CollectDrains ==
    /\ fin = "collect" /\ ~Streamed /\ result.how # "salvaged"
    /\ result' = [result EXCEPT !.lines = inner.lines]
    /\ inner' = Drained(inner)
    /\ fin' = "judge"
    /\ UNCHANGED <<setup, generation, count, dropped, readError, pumping, waiting>>

\* The other verbs of a stream return no lines.
CollectNothing ==
    /\ fin = "collect" /\ Streamed
    /\ fin' = "judge"
    /\ UNCHANGED <<setup, sink, pumping, waiting, result>>

\* drain_with_partial_tail: fold and drain are one critical section.
CollectSalvages ==
    /\ fin = "collect" /\ result.how = "salvaged"
    /\ LET folded == WithTail(inner, count + 1)
       IN /\ result' = [result EXCEPT !.lines = folded.inner.lines]
          /\ inner' = Drained(folded.inner)
          /\ count' = IF HasTail(inner) THEN count + 1 ELSE count
          /\ fin' = CASE folded.lost -> "lost"
                      [] ~folded.lost /\ HasTail(inner) -> "publish"
                      [] OTHER -> "judge"
    /\ UNCHANGED <<setup, generation, dropped, readError, pumping, waiting>>

SalvageCountsLoss ==
    /\ fin = "lost"
    /\ dropped' = dropped + 1
    /\ fin' = "publish"
    /\ UNCHANGED <<setup, inner, generation, count, readError, pumping, waiting, result>>

SalvagePublishes ==
    /\ fin = "publish"
    /\ generation' = generation + 1
    /\ fin' = "notify"
    /\ UNCHANGED <<setup, inner, count, dropped, readError, pumping, waiting, result>>

SalvageNotifies ==
    /\ fin = "notify"
    /\ at' = Woken
    /\ fin' = "judge"
    /\ UNCHANGED <<setup, sink, pumping, observed, delivered, result>>

\* overflowed, take_read_error and dropped, read after the lines were taken.
Judges ==
    /\ fin = "judge"
    /\ result' = [result EXCEPT !.truncated = dropped > 0, !.overflowed = inner.overflowed,
                                !.failed = readError]
    /\ readError' = FALSE
    /\ fin' = "done"
    /\ UNCHANGED <<setup, inner, generation, count, dropped, pumping, waiting>>

-----------------------------------------------------------------------------
(* The specification.                                                      *)

\* What the pump goes on with by itself, and what only the child can cause.
PumpSteps ==
    \/ PumpAborted \/ PumpCountsLine \/ PumpCountsLast \/ PumpRetains \/ PumpSkips
    \/ PumpCountsLoss \/ PumpPublishes \/ PumpNotifies \/ PumpSetsTail
    \/ PumpHasNoLast \/ PumpCloses
ChildFeeds == PumpReads \/ PumpReadEnds

ReaderSteps == ReaderPops \/ ReaderEnds \/ Waits("reader")
ProbeSteps == ProbeMatches \/ Waits("probe")

FinishSteps ==
    \/ JoinEnds \/ CollectDrains \/ CollectNothing \/ CollectSalvages
    \/ SalvageCountsLoss \/ SalvagePublishes \/ SalvageNotifies \/ Judges
Choices ==
    \/ FinishJoins \/ FinishDiscards \/ JoinOverruns \/ ChainGivesUp
    \/ \E w \in Waiters : GivesUp(w)

\* The pump ended, nobody waits, and the run is finished.
Finished ==
    /\ pumpAt = "done" /\ fin = "done" /\ \A w \in Waiters : Over(w)
    /\ UNCHANGED vars

Next == PumpSteps \/ ChildFeeds \/ ReaderSteps \/ ProbeSteps \/ FinishSteps \/ Choices
        \/ Finished

Spec == Init /\ [][Next]_vars

\* The runtime polls the pump and whoever awaits; the child, which may never
\* write or close its pipe, and the timers owe nothing.
Fairness ==
    WF_vars(PumpSteps) /\ WF_vars(ReaderSteps) /\ WF_vars(ProbeSteps) /\ WF_vars(FinishSteps)

FairSpec == Spec /\ Fairness

-----------------------------------------------------------------------------
(* Safety.                                                                 *)

Line == [no : Nat, len : Nat]

\* Every variable keeps to its states (pump.rs, SharedLines and Inner).
TypeOK ==
    /\ inner \in [lines : Seq(Line), bytes : Nat, seen : Nat, closed : BOOLEAN,
                  overflowed : BOOLEAN, maxLines : SUBSET Nat, maxBytes : SUBSET Nat,
                  mode : Modes, discarding : BOOLEAN, sealed : BOOLEAN, tail : Line,
                  tailPending : BOOLEAN, tailOversized : BOOLEAN, tailFinal : BOOLEAN]
    /\ generation \in Nat /\ count \in Nat /\ dropped \in Nat /\ readError \in BOOLEAN
    /\ pumpAt \in {"read", "split", "retain", "oversized", "lost", "publish", "notify",
                   "last", "close", "done"}
    /\ then \in {"read", "split", "last", "close", "done"}
    /\ abortAsked \in BOOLEAN
    /\ at \in [Waiters -> {"look", "missed", "enabled", "parked", "done", "gone"}]
    /\ observed \in [Waiters -> Nat]
    /\ delivered \in Seq(Line)
    /\ fin \in {"live", "join", "collect", "lost", "publish", "notify", "judge", "done"}

\* Somebody changed the buffer and has not finished telling the waiters.
Changing == {pumpAt, fin} \cap {"lost", "publish", "notify"} # {}

\* "That closes both the snapshot-to-await race and Notify's lack of a stored
\* broadcast permit": nobody sleeps on what it waits for, unless the one who
\* brought it is about to wake it (publish_change, changed).
NoLostWakeup == \A w \in Waiters : at[w] = "parked" /\ Ready(w) => Changing

\* The backlog and its tally agree and keep to both caps, whatever was evicted,
\* popped, salvaged or thrown away ("a b-byte cap cannot retain more than b
\* lines", empty ones included); a ceiling without a cap retains nothing.
BacklogWithinCeilings ==
    /\ inner.bytes = BytesOf(inner.lines)
    /\ \A n \in inner.maxLines : Len(inner.lines) <= n
    /\ \A b \in inner.maxBytes : inner.bytes <= b /\ Len(inner.lines) <= b
    /\ inner.mode = "Error" /\ inner.maxLines = {} /\ inner.maxBytes = {}
         => inner.lines = <<>>

InOrder(q) == \A i, j \in DOMAIN q : i < j => q[i].no < q[j].no

\* A line reaches the caller once: not the prefix salvaged from a live pump and
\* again the line it is of, not in a checkpoint taken at any moment, and not in
\* a stream and again in what is left of it ("never duplicated").
NothingTwice == InOrder(delivered \o RetainedSnapshot) /\ InOrder(result.lines)

IsPrefix(q) == \A i \in DOMAIN q : q[i].no = i

\* "A contiguous prefix": what a head buffer yields, keeps and returns never
\* skips a line (OverflowMode::DropNewest).
HeadIsPrefix ==
    setup.policy.mode = "DropNewest" =>
        /\ IsPrefix(result.lines)
        /\ ~inner.discarding /\ result.how = "none" => IsPrefix(delivered \o inner.lines)

\* What the pump read of line i.
LineRead(i) ==
    [no |-> i, len |-> IF pump.read >= StartOf(i + 1) THEN script[i]
                       ELSE pump.read - StartOf(i)]

\* A joined capture that raises no signal has every line up to the end of the
\* stream, the unfinished one included; a truncated one lacks some.
JoinedIsWhole ==
    fin = "done" /\ ~Streamed /\ result.how = "joined" =>
        LET whole == [i \in 1..pump.next - 1 |-> LineRead(i)]
        IN /\ ~result.truncated => result.lines = whole
           /\ result.truncated \/ result.overflowed => result.lines # whole
           /\ result.failed <=> pump.end = "error"

\* While the pump waits for more of a line, what it has read of it can be
\* salvaged, even where it repeats the text that was published before
\* ("leaving the seal on would silently cost that new tail its salvage").
LiveTailIsSalvageable ==
    pumpAt = "read" /\ ~inner.discarding /\ result.how = "none" /\ Pending > 0
    => /\ HasTail(inner)
       /\ inner.tailOversized \/ inner.tail = [no |-> pump.next, len |-> Pending]

\* What a capture returns is what it says, what a live one has can be had, and
\* neither costs more than the ceilings allow.
CaptureIsHonest == JoinedIsWhole /\ LiveTailIsSalvageable /\ BacklogWithinCeilings

-----------------------------------------------------------------------------
(* Liveness.                                                               *)

\* Who waits for a line, a prompt or the end, and goes on waiting, gets it
\* unless it goes away first: every observer is woken, not one of them. A pump
\* that ends, fails or is aborted closes its buffer behind it, so that a stream
\* ends (CloseOnDrop).
StreamsAreServed ==
    /\ \A w \in Waiters : (~Over(w) /\ Ready(w)) ~> (Over(w) \/ ~Ready(w))
    /\ (abortAsked \/ pump.end # "no") ~> Over("reader")

=============================================================================
