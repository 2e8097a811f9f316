------------------------- MODULE RunLifecycle_proofs -------------------------
(***************************************************************************)
(* What holds of every configuration of RunLifecycle: its types, the       *)
(* safety of the pid gate, that an outcome is only reported of a reaped    *)
(* child, and that it is settled once.                                     *)
(***************************************************************************)
EXTENDS RunLifecycle, TLAPS

\* The configuration constants and the state sets every step refers to.
USE ConfigsAssumption

\* Aborting watchdogs leaves each of them at one of its program points.
LEMMA AbortTypes ==
    ASSUME TypeOK, NEW ws \in SUBSET Watchdogs, Abort(ws)
    PROVE  watch' \in [Watchdogs -> WatchPc] /\ aborted' \in SUBSET Watchdogs
  BY DEF TypeOK, Abort, WatchPc

\* Aborting watchdogs moves no task into or out of a critical section.
LEMMA AbortKeepsLocks ==
    ASSUME TypeOK, NEW ws \in SUBSET Watchdogs, Abort(ws)
    PROVE  \A w \in Watchdogs : watch'[w] \in {"softLocked", "killLocked"}
                                 <=> watch[w] \in {"softLocked", "killLocked"}
  BY DEF TypeOK, Abort

\* Types are kept by every step of every task of a run.
THEOREM TypeCorrect == Spec => []TypeOK
<1>1. Init => TypeOK
  BY DEF Init, TypeOK, Watchdogs, WatchPc, OwnerPc, Arbiters, Outcomes, Reports
<1>2. TypeOK /\ [Next]_vars => TypeOK'
  <2> SUFFICES ASSUME TypeOK, [Next]_vars PROVE TypeOK'
    OBVIOUS
  <2> USE DEF TypeOK, Watchdogs, WatchPc, OwnerPc, Arbiters, Outcomes, Reports
  <2>1. CASE CancelFires
    BY <2>1 DEF CancelFires, proc, gate, tasks, self, results, ending
  <2>2. CASE DeadlineElapses
    BY <2>2 DEF DeadlineElapses, proc, gate, tasks, self, results, ending
  <2>3. CASE OutputQuietens
    BY <2>3 DEF OutputQuietens, proc, gate, tasks, self, results, ending
  <2>4. CASE ChildWrites
    <3>1. quiet' \in BOOLEAN
      BY <2>4 DEF ChildWrites
    <3> QED
      BY <2>4, <3>1 DEF ChildWrites, proc, gate, tasks, self, results, ending
  <2>5. CASE ChildExits
    BY <2>5 DEF ChildExits, Kills, env, gate, tasks, self, results, ending
  <2>6. CASE ArmStream
    BY <2>6 DEF ArmStream, env, proc, gate, self, results, ending
  <2>7. CASE StartKill
    BY <2>7 DEF StartKill, Kills, env, gate, tasks, self, results, ending
  <2>8. CASE BeginProbe
    BY <2>8 DEF BeginProbe, env, proc, gate, tasks, results, ending
  <2>9. CASE BeginWaitExit
    BY <2>9 DEF BeginWaitExit, env, proc, gate, tasks, results, ending
  <2>10. CASE BeginWait
    BY <2>10 DEF BeginWait, env, proc, gate, tasks, results, ending
  <2>11. CASE AbandonWait
    BY <2>11 DEF AbandonWait, env, proc, gate, tasks, results, ending
  <2>12. CASE WaitRetires
    <3>1. {"deadline", "inactivity"} \in SUBSET Watchdogs
      OBVIOUS
    <3>2. watch' \in [Watchdogs -> WatchPc] /\ aborted' \in SUBSET Watchdogs
      BY <2>12, <3>1, AbortTypes DEF WaitRetires
    <3> QED
      BY <2>12, <3>2 DEF WaitRetires, env, proc, results, ending
  <2>13. CASE PollCancel
    BY <2>13 DEF PollCancel, env, proc, gate, tasks, results, ending
  <2>14. CASE CancelArmRetires
    BY <2>14 DEF CancelArmRetires, GateFree, env, proc, tasks, results, ending
  <2>15. CASE ReapLocks
    BY <2>15 DEF ReapLocks, GateFree, env, proc, tasks, results, ending
  <2>16. CASE ReapUnderGate
    BY <2>16 DEF ReapUnderGate, env, tasks, results, ending
  <2>17. CASE ReapRetires
    BY <2>17 DEF ReapRetires, env, proc, tasks, results, ending
  <2>18. CASE ClaimExited
    BY <2>18 DEF ClaimExited, Claim, env, proc, gate, tasks, results, ending
  <2>19. CASE ProbeSettles
    BY <2>19 DEF ProbeSettles, Abort, Snapshotted, Classified, GateFree, env,
           proc, ending
  <2>20. CASE PollTimers
    BY <2>20 DEF PollTimers, Claim, env, proc, gate, tasks, results, ending
  <2>21. CASE WaitUnparks
    BY <2>21 DEF WaitUnparks, env, proc, gate, tasks, results, ending
  <2>22. CASE TeardownStarts
    BY <2>22 DEF TeardownStarts, Signals, TriesToKill, Kills, env, proc, gate,
           tasks, results, ending
  <2>23. CASE KillTreeRetires
    BY <2>23 DEF KillTreeRetires, TriesToKill, GateFree, Kills, env, proc,
           tasks, results, ending
  <2>24. CASE ConfirmReap
    BY <2>24 DEF ConfirmReap, env, gate, tasks, results, ending
  <2>25. CASE GraceReaps
    BY <2>25 DEF GraceReaps, env, gate, tasks, results, ending
  <2>26. CASE GraceEscalates
    BY <2>26 DEF GraceEscalates, Kills, env, proc, gate, tasks, results,
           ending
  <2>27. CASE GraceRetires
    BY <2>27 DEF GraceRetires, GateFree, env, proc, tasks, results, ending
  <2>28. CASE WaitSettles
    BY <2>28 DEF WaitSettles, Abort, Snapshotted, Classified, GateFree, env,
           proc, ending
  <2>29. CASE TeardownFails
    BY <2>29 DEF TeardownFails, Snapshotted, env, proc, gate, tasks, ending
  <2>30. CASE Deliver
    BY <2>30 DEF Deliver, env, proc, gate, tasks, ending
  <2>31. CASE DropAborts
    <3>1. watch' \in [Watchdogs -> WatchPc] /\ aborted' \in SUBSET Watchdogs
      BY <2>31, AbortTypes DEF DropAborts
    <3> QED
      BY <2>31, <3>1 DEF DropAborts, env, proc, gate, results, ending
  <2>32. CASE DropHandsOff
    BY <2>32 DEF DropHandsOff, GateFree, env, proc, gate, tasks, results
  <2>33. CASE DropRetires
    BY <2>33 DEF DropRetires, GateFree, env, proc, tasks, results, ending
  <2>34. CASE DropChild
    BY <2>34 DEF DropChild, env, proc, gate, tasks, results
  <2>35. CASE HandoffLocks
    BY <2>35 DEF HandoffLocks, GateFree, env, proc, tasks, self, results
  <2>36. CASE HandoffReaps
    BY <2>36 DEF HandoffReaps, env, tasks, self, results
  <2>37. CASE HandoffRetires
    BY <2>37 DEF HandoffRetires, env, proc, tasks, self, results
  <2>38. CASE OrphanReap
    BY <2>38 DEF OrphanReap, env, gate, tasks, self, results, ending
  <2>39. CASE GroupDropKills
    BY <2>39 DEF GroupDropKills, Kills, env, gate, tasks, self, results,
           ending
  <2>40. ASSUME NEW w \in Watchdogs, Watchdog(w)
        PROVE  TypeOK'
    <3>1. CASE WatchdogWakes(w)
      BY <3>1 DEF WatchdogWakes, env, proc, gate, self, results, ending
    <3>2. CASE WatchdogClaims(w)
      BY <3>2 DEF WatchdogClaims, Claim, Verdict, env, proc, gate, self, results,
             ending
    <3>3. CASE WatchdogChecks(w)
      BY <3>3 DEF WatchdogChecks, GateFree, env, proc, gate, self, results,
             ending
    <3>4. CASE WatchdogKillsGroup(w)
      BY <3>4 DEF WatchdogKillsGroup, Kills, env, proc, gate, self, results,
             ending
    <3>5. CASE WatchdogStartsGrace(w)
      BY <3>5 DEF WatchdogStartsGrace, Signals, Kills, env, proc, gate, self,
             results, ending
    <3>6. CASE WatchdogEndsGrace(w)
      BY <3>6 DEF WatchdogEndsGrace, Kills, env, proc, gate, self, results,
             ending
    <3>7. CASE WatchdogTurnsToPid(w)
      BY <3>7 DEF WatchdogTurnsToPid, env, proc, gate, self, results, ending
    <3>8. CASE GateForSignal(w)
      BY <3>8 DEF GateForSignal, GateFree, env, proc, self, results, ending
    <3>9. CASE SignalUnderGate(w)
      BY <3>9 DEF SignalUnderGate, Kills, Signals, env, proc, self, results,
             ending
    <3>10. CASE KillerPolls(w)
      BY <3>10 DEF KillerPolls, GateFree, env, proc, gate, self, results,
             ending
    <3> QED
      BY <2>40, <3>1, <3>2, <3>3, <3>4, <3>5, <3>6, <3>7, <3>8, <3>9, <3>10 DEF Watchdog
  <2>41. CASE UNCHANGED vars
    BY <2>41 DEF vars, env, proc, gate, tasks, self, results, ending
  <2> QED
    BY <2>1, <2>2, <2>3, <2>4, <2>5, <2>6, <2>7, <2>8, <2>9, <2>10, <2>11,
           <2>12, <2>13, <2>14, <2>15, <2>16, <2>17, <2>18, <2>19, <2>20,
           <2>21, <2>22, <2>23, <2>24, <2>25, <2>26, <2>27, <2>28, <2>29,
           <2>30, <2>31, <2>32, <2>33, <2>34, <2>35, <2>36, <2>37, <2>38,
           <2>39, <2>40, <2>41 DEF Next, World, Calls, OwnerSteps, Handoff,
           Finished
<1> QED
  BY <1>1, <1>2, PTL DEF Spec

\* No raw signal ever reaches a freed pid (pid_gate.rs), whoever reaps: the
\* probe, a finisher, the hand-off of Drop or the orphan queue.
THEOREM GateCorrect == Spec => []GateInv
<1>1. Init => GateInv
  BY DEF Init, GateInv, HolderIsInside, FreedIsRetired, FinisherRetiredFirst,
         TeardownOwnsPid, NoStraySignal, Watchdogs
<1>2. TypeOK /\ GateInv /\ [Next]_vars => GateInv'
  <2> SUFFICES ASSUME TypeOK, GateInv, [Next]_vars PROVE GateInv'
    OBVIOUS
  <2> USE DEF TypeOK, Watchdogs, WatchPc, OwnerPc, GateInv, HolderIsInside,
              FreedIsRetired, FinisherRetiredFirst, TeardownOwnsPid, NoStraySignal
  <2>1. CASE CancelFires
    BY <2>1 DEF CancelFires, proc, gate, tasks, self, results, ending
  <2>2. CASE DeadlineElapses
    BY <2>2 DEF DeadlineElapses, proc, gate, tasks, self, results, ending
  <2>3. CASE OutputQuietens
    BY <2>3 DEF OutputQuietens, proc, gate, tasks, self, results, ending
  <2>4. CASE ChildWrites
    BY <2>4 DEF ChildWrites, proc, gate, tasks, self, results, ending
  <2>5. CASE ChildExits
    BY <2>5, SMTT(30) DEF ChildExits, Kills, env, gate, tasks, self, results, ending
  <2>6. CASE ArmStream
    BY <2>6 DEF ArmStream, env, proc, gate, self, results, ending
  <2>7. CASE StartKill
    BY <2>7 DEF StartKill, Kills, env, gate, tasks, self, results, ending
  <2>8. CASE BeginProbe
    BY <2>8 DEF BeginProbe, env, proc, gate, tasks, results, ending
  <2>9. CASE BeginWaitExit
    BY <2>9 DEF BeginWaitExit, env, proc, gate, tasks, results, ending
  <2>10. CASE BeginWait
    BY <2>10 DEF BeginWait, env, proc, gate, tasks, results, ending
  <2>11. CASE AbandonWait
    BY <2>11 DEF AbandonWait, env, proc, gate, tasks, results, ending
  <2>12. CASE WaitRetires
    <3>1. {"deadline", "inactivity"} \in SUBSET Watchdogs
      OBVIOUS
    <3>2. \A w \in Watchdogs : watch'[w] \in {"softLocked", "killLocked"}
                                <=> watch[w] \in {"softLocked", "killLocked"}
      BY <2>12, <3>1, AbortKeepsLocks DEF WaitRetires
    <3>3. retired' /\ holder' = "none" /\ holder = "none"
          /\ owner = "retire" /\ owner' \in {"poll", "failed"}
          /\ UNCHANGED <<op, child, handoff, orphaned, stray, snapshot>>
      BY <2>12 DEF WaitRetires, GateFree, proc, results, ending
    <3>4. \A w \in Watchdogs : watch'[w] \notin {"softLocked", "killLocked"}
      BY <3>2, <3>3
    <3> QED
      BY <3>3, <3>4
  <2>13. CASE PollCancel
    BY <2>13 DEF PollCancel, env, proc, gate, tasks, results, ending
  <2>14. CASE CancelArmRetires
    BY <2>14 DEF CancelArmRetires, GateFree, env, proc, tasks, results, ending
  <2>15. CASE ReapLocks
    BY <2>15 DEF ReapLocks, GateFree, env, proc, tasks, results, ending
  <2>16. CASE ReapUnderGate
    BY <2>16 DEF ReapUnderGate, env, tasks, results, ending
  <2>17. CASE ReapRetires
    BY <2>17 DEF ReapRetires, env, proc, tasks, results, ending
  <2>18. CASE ClaimExited
    BY <2>18 DEF ClaimExited, Claim, env, proc, gate, tasks, results, ending
  <2>19. CASE ProbeSettles
    BY <2>19 DEF ProbeSettles, Abort, Snapshotted, Classified, GateFree, env,
           proc, ending
  <2>20. CASE PollTimers
    BY <2>20 DEF PollTimers, Claim, env, proc, gate, tasks, results, ending
  <2>21. CASE WaitUnparks
    BY <2>21 DEF WaitUnparks, env, proc, gate, tasks, results, ending
  <2>22. CASE TeardownStarts
    BY <2>22 DEF TeardownStarts, Signals, TriesToKill, Kills, env, proc, gate,
           tasks, results, ending
  <2>23. CASE KillTreeRetires
    BY <2>23 DEF KillTreeRetires, TriesToKill, GateFree, Kills, env, proc,
           tasks, results, ending
  <2>24. CASE ConfirmReap
    BY <2>24 DEF ConfirmReap, env, gate, tasks, results, ending
  <2>25. CASE GraceReaps
    BY <2>25 DEF GraceReaps, env, gate, tasks, results, ending
  <2>26. CASE GraceEscalates
    BY <2>26 DEF GraceEscalates, Kills, env, proc, gate, tasks, results,
           ending
  <2>27. CASE GraceRetires
    BY <2>27 DEF GraceRetires, GateFree, env, proc, tasks, results, ending
  <2>28. CASE WaitSettles
    BY <2>28 DEF WaitSettles, Abort, Snapshotted, Classified, GateFree, env,
           proc, ending
  <2>29. CASE TeardownFails
    BY <2>29 DEF TeardownFails, Snapshotted, env, proc, gate, tasks, ending
  <2>30. CASE Deliver
    BY <2>30 DEF Deliver, env, proc, gate, tasks, ending
  <2>31. CASE DropAborts
    BY <2>31 DEF DropAborts, Abort, env, proc, gate, results, ending
  <2>32. CASE DropHandsOff
    BY <2>32 DEF DropHandsOff, GateFree, env, proc, gate, tasks, results
  <2>33. CASE DropRetires
    BY <2>33 DEF DropRetires, GateFree, env, proc, tasks, results, ending
  <2>34. CASE DropChild
    BY <2>34 DEF DropChild, env, proc, gate, tasks, results
  <2>35. CASE HandoffLocks
    BY <2>35 DEF HandoffLocks, GateFree, env, proc, tasks, self, results
  <2>36. CASE HandoffReaps
    BY <2>36 DEF HandoffReaps, env, tasks, self, results
  <2>37. CASE HandoffRetires
    BY <2>37 DEF HandoffRetires, env, proc, tasks, self, results
  <2>38. CASE OrphanReap
    BY <2>38 DEF OrphanReap, env, gate, tasks, self, results, ending
  <2>39. CASE GroupDropKills
    BY <2>39 DEF GroupDropKills, Kills, env, gate, tasks, self, results,
           ending
  <2>40. ASSUME NEW w \in Watchdogs, Watchdog(w)
        PROVE  GateInv'
    <3>1. CASE WatchdogWakes(w)
      BY <3>1 DEF WatchdogWakes, env, proc, gate, self, results, ending
    <3>2. CASE WatchdogClaims(w)
      BY <3>2 DEF WatchdogClaims, Claim, Verdict, env, proc, gate, self, results,
             ending
    <3>3. CASE WatchdogChecks(w)
      BY <3>3 DEF WatchdogChecks, GateFree, env, proc, gate, self, results,
             ending
    <3>4. CASE WatchdogKillsGroup(w)
      BY <3>4 DEF WatchdogKillsGroup, Kills, env, proc, gate, self, results,
             ending
    <3>5. CASE WatchdogStartsGrace(w)
      BY <3>5 DEF WatchdogStartsGrace, Signals, Kills, env, proc, gate, self,
             results, ending
    <3>6. CASE WatchdogEndsGrace(w)
      BY <3>6 DEF WatchdogEndsGrace, Kills, env, proc, gate, self, results,
             ending
    <3>7. CASE WatchdogTurnsToPid(w)
      BY <3>7 DEF WatchdogTurnsToPid, env, proc, gate, self, results, ending
    <3>8. CASE GateForSignal(w)
      BY <3>8 DEF GateForSignal, GateFree, env, proc, self, results, ending
    <3>9. CASE SignalUnderGate(w)
      BY <3>9 DEF SignalUnderGate, Kills, Signals, env, proc, self, results,
             ending
    <3>10. CASE KillerPolls(w)
      BY <3>10 DEF KillerPolls, GateFree, env, proc, gate, self, results,
             ending
    <3> QED
      BY <2>40, <3>1, <3>2, <3>3, <3>4, <3>5, <3>6, <3>7, <3>8, <3>9, <3>10 DEF Watchdog
  <2>41. CASE UNCHANGED vars
    BY <2>41 DEF vars, env, proc, gate, tasks, self, results, ending
  <2> QED
    BY <2>1, <2>2, <2>3, <2>4, <2>5, <2>6, <2>7, <2>8, <2>9, <2>10, <2>11,
           <2>12, <2>13, <2>14, <2>15, <2>16, <2>17, <2>18, <2>19, <2>20,
           <2>21, <2>22, <2>23, <2>24, <2>25, <2>26, <2>27, <2>28, <2>29,
           <2>30, <2>31, <2>32, <2>33, <2>34, <2>35, <2>36, <2>37, <2>38,
           <2>39, <2>40, <2>41 DEF Next, World, Calls, OwnerSteps, Handoff,
           Finished
<1> QED
  BY <1>1, <1>2, TypeCorrect, PTL DEF Spec

\* The part of the gate's invariant a caller sees: signal_if_live never reaches a
\* pid the kernel has freed.
THEOREM NoStray == Spec => []NoStraySignal
  BY GateCorrect, PTL DEF GateInv

\* An outcome or a cancellation is only reported of a child the handle reaped
\* (on_reaped, ExitCause::TeardownFailed, take_teardown_error).
THEOREM ReapCorrect == Spec => []ReapInv
<1>1. Init => ReapInv
  BY DEF Init, ReapInv, ReportedMeansReaped, Outcomes
<1>2. TypeOK /\ ReapInv /\ [Next]_vars => ReapInv'
  <2> SUFFICES ASSUME TypeOK, ReapInv, [Next]_vars PROVE ReapInv'
    OBVIOUS
  <2> USE DEF TypeOK, Watchdogs, OwnerPc, Outcomes, Reports, ReapInv, ReportedMeansReaped
  <2>1. CASE CancelFires
    BY <2>1 DEF CancelFires, proc, gate, tasks, self, results, ending
  <2>2. CASE DeadlineElapses
    BY <2>2 DEF DeadlineElapses, proc, gate, tasks, self, results, ending
  <2>3. CASE OutputQuietens
    BY <2>3 DEF OutputQuietens, proc, gate, tasks, self, results, ending
  <2>4. CASE ChildWrites
    BY <2>4 DEF ChildWrites, proc, gate, tasks, self, results, ending
  <2>5. CASE ChildExits
    BY <2>5 DEF ChildExits, Kills, env, gate, tasks, self, results, ending
  <2>6. CASE ArmStream
    BY <2>6 DEF ArmStream, env, proc, gate, self, results, ending
  <2>7. CASE StartKill
    BY <2>7 DEF StartKill, Kills, env, gate, tasks, self, results, ending
  <2>8. CASE BeginProbe
    BY <2>8 DEF BeginProbe, env, proc, gate, tasks, results, ending
  <2>9. CASE BeginWaitExit
    BY <2>9 DEF BeginWaitExit, env, proc, gate, tasks, results, ending
  <2>10. CASE BeginWait
    BY <2>10 DEF BeginWait, env, proc, gate, tasks, results, ending
  <2>11. CASE AbandonWait
    BY <2>11 DEF AbandonWait, env, proc, gate, tasks, results, ending
  <2>12. CASE WaitRetires
    BY <2>12 DEF WaitRetires, GateFree, env, proc, results, ending
  <2>13. CASE PollCancel
    BY <2>13 DEF PollCancel, env, proc, gate, tasks, results, ending
  <2>14. CASE CancelArmRetires
    BY <2>14 DEF CancelArmRetires, GateFree, env, proc, tasks, results, ending
  <2>15. CASE ReapLocks
    BY <2>15 DEF ReapLocks, GateFree, env, proc, tasks, results, ending
  <2>16. CASE ReapUnderGate
    BY <2>16 DEF ReapUnderGate, env, tasks, results, ending
  <2>17. CASE ReapRetires
    BY <2>17 DEF ReapRetires, env, proc, tasks, results, ending
  <2>18. CASE ClaimExited
    BY <2>18 DEF ClaimExited, env, proc, gate, tasks, results, ending
  <2>19. CASE ProbeSettles
    BY <2>19 DEF ProbeSettles, Snapshotted, GateFree, env, proc, ending
  <2>20. CASE PollTimers
    BY <2>20 DEF PollTimers, env, proc, gate, tasks, results, ending
  <2>21. CASE WaitUnparks
    BY <2>21 DEF WaitUnparks, env, proc, gate, tasks, results, ending
  <2>22. CASE TeardownStarts
    BY <2>22 DEF TeardownStarts, Signals, TriesToKill, Kills, env, proc, gate,
           tasks, results, ending
  <2>23. CASE KillTreeRetires
    BY <2>23 DEF KillTreeRetires, TriesToKill, GateFree, Kills, env, proc,
           tasks, results, ending
  <2>24. CASE ConfirmReap
    BY <2>24 DEF ConfirmReap, env, gate, tasks, results, ending
  <2>25. CASE GraceReaps
    BY <2>25 DEF GraceReaps, env, gate, tasks, results, ending
  <2>26. CASE GraceEscalates
    BY <2>26 DEF GraceEscalates, Kills, env, proc, gate, tasks, results,
           ending
  <2>27. CASE GraceRetires
    BY <2>27 DEF GraceRetires, GateFree, env, proc, tasks, results, ending
  <2>28. CASE WaitSettles
    BY <2>28 DEF WaitSettles, Snapshotted, GateFree, env, proc, ending
  <2>29. CASE TeardownFails
    BY <2>29 DEF TeardownFails, Snapshotted, env, proc, gate, tasks, ending
  <2>30. CASE Deliver
    BY <2>30 DEF Deliver, env, proc, gate, tasks, ending
  <2>31. CASE DropAborts
    BY <2>31 DEF DropAborts, env, proc, gate, results, ending
  <2>32. CASE DropHandsOff
    BY <2>32 DEF DropHandsOff, GateFree, env, proc, gate, tasks, results
  <2>33. CASE DropRetires
    BY <2>33 DEF DropRetires, GateFree, env, proc, tasks, results, ending
  <2>34. CASE DropChild
    BY <2>34 DEF DropChild, env, proc, gate, tasks, results
  <2>35. CASE HandoffLocks
    BY <2>35 DEF HandoffLocks, GateFree, env, proc, tasks, self, results
  <2>36. CASE HandoffReaps
    BY <2>36 DEF HandoffReaps, env, tasks, self, results
  <2>37. CASE HandoffRetires
    BY <2>37 DEF HandoffRetires, env, proc, tasks, self, results
  <2>38. CASE OrphanReap
    BY <2>38 DEF OrphanReap, env, gate, tasks, self, results, ending
  <2>39. CASE GroupDropKills
    BY <2>39 DEF GroupDropKills, Kills, env, gate, tasks, self, results,
           ending
  <2>40. ASSUME NEW w \in Watchdogs, Watchdog(w)
        PROVE  ReapInv'
    <3>1. CASE WatchdogWakes(w)
      BY <3>1 DEF WatchdogWakes, env, proc, gate, self, results, ending
    <3>2. CASE WatchdogClaims(w)
      BY <3>2 DEF WatchdogClaims, env, proc, gate, self, results, ending
    <3>3. CASE WatchdogChecks(w)
      BY <3>3 DEF WatchdogChecks, GateFree, env, proc, gate, self, results,
             ending
    <3>4. CASE WatchdogKillsGroup(w)
      BY <3>4 DEF WatchdogKillsGroup, Kills, env, proc, gate, self, results,
             ending
    <3>5. CASE WatchdogStartsGrace(w)
      BY <3>5 DEF WatchdogStartsGrace, Signals, Kills, env, proc, gate, self,
             results, ending
    <3>6. CASE WatchdogEndsGrace(w)
      BY <3>6 DEF WatchdogEndsGrace, Kills, env, proc, gate, self, results,
             ending
    <3>7. CASE WatchdogTurnsToPid(w)
      BY <3>7 DEF WatchdogTurnsToPid, env, proc, gate, self, results, ending
    <3>8. CASE GateForSignal(w)
      BY <3>8 DEF GateForSignal, GateFree, env, proc, self, results, ending
    <3>9. CASE SignalUnderGate(w)
      BY <3>9 DEF SignalUnderGate, Kills, Signals, env, proc, self, results,
             ending
    <3>10. CASE KillerPolls(w)
      BY <3>10 DEF KillerPolls, GateFree, env, proc, gate, self, results,
             ending
    <3> QED
      BY <2>40, <3>1, <3>2, <3>3, <3>4, <3>5, <3>6, <3>7, <3>8, <3>9, <3>10 DEF Watchdog
  <2>41. CASE UNCHANGED vars
    BY <2>41 DEF vars, env, proc, gate, tasks, self, results, ending
  <2> QED
    BY <2>1, <2>2, <2>3, <2>4, <2>5, <2>6, <2>7, <2>8, <2>9, <2>10, <2>11,
           <2>12, <2>13, <2>14, <2>15, <2>16, <2>17, <2>18, <2>19, <2>20,
           <2>21, <2>22, <2>23, <2>24, <2>25, <2>26, <2>27, <2>28, <2>29,
           <2>30, <2>31, <2>32, <2>33, <2>34, <2>35, <2>36, <2>37, <2>38,
           <2>39, <2>40, <2>41 DEF Next, World, Calls, OwnerSteps, Handoff,
           Finished
<1> QED
  BY <1>1, <1>2, TypeCorrect, PTL DEF Spec

\* A child ended by the deadline or the inactivity watchdog is never reported,
\* by a probe or by a finisher, with an exit of its own.
THEOREM TimeoutCorrect == Spec => []TimeoutInv
<1>1. Init => TimeoutInv
  BY DEF Init, TimeoutInv, TimeoutKillIsReported, Watchdogs
<1>2. TypeOK /\ ReapInv /\ ReapInv' /\ TimeoutInv /\ [Next]_vars => TimeoutInv'
  <2> SUFFICES ASSUME TypeOK, ReapInv, ReapInv', TimeoutInv, [Next]_vars
               PROVE  TimeoutInv'
    OBVIOUS
  <2> USE DEF TypeOK, Watchdogs, WatchPc, OwnerPc, Arbiters, Outcomes, Reports,
              ReapInv, ReportedMeansReaped, TimeoutInv, TimeoutKillIsReported,
              Verdict
  <2>1. CASE CancelFires
    BY <2>1 DEF CancelFires, proc, gate, tasks, self, results, ending
  <2>2. CASE DeadlineElapses
    BY <2>2 DEF DeadlineElapses, proc, gate, tasks, self, results, ending
  <2>3. CASE OutputQuietens
    BY <2>3 DEF OutputQuietens, proc, gate, tasks, self, results, ending
  <2>4. CASE ChildWrites
    BY <2>4 DEF ChildWrites, proc, gate, tasks, self, results, ending
  <2>5. CASE ChildExits
    BY <2>5 DEF ChildExits, Kills, env, gate, tasks, self, results, ending
  <2>6. CASE ArmStream
    BY <2>6 DEF ArmStream, env, proc, gate, self, results, ending
  <2>7. CASE StartKill
    BY <2>7 DEF StartKill, Kills, env, gate, tasks, self, results, ending
  <2>8. CASE BeginProbe
    BY <2>8 DEF BeginProbe, env, proc, gate, tasks, results, ending
  <2>9. CASE BeginWaitExit
    BY <2>9 DEF BeginWaitExit, env, proc, gate, tasks, results, ending
  <2>10. CASE BeginWait
    BY <2>10 DEF BeginWait, env, proc, gate, tasks, results, ending
  <2>11. CASE AbandonWait
    BY <2>11 DEF AbandonWait, env, proc, gate, tasks, results, ending
  <2>12. CASE WaitRetires
    BY <2>12 DEF WaitRetires, Abort, GateFree, env, proc, results, ending
  <2>13. CASE PollCancel
    BY <2>13 DEF PollCancel, env, proc, gate, tasks, results, ending
  <2>14. CASE CancelArmRetires
    BY <2>14 DEF CancelArmRetires, GateFree, env, proc, tasks, results, ending
  <2>15. CASE ReapLocks
    BY <2>15 DEF ReapLocks, GateFree, env, proc, tasks, results, ending
  <2>16. CASE ReapUnderGate
    BY <2>16 DEF ReapUnderGate, env, tasks, results, ending
  <2>17. CASE ReapRetires
    BY <2>17 DEF ReapRetires, env, proc, tasks, results, ending
  <2>18. CASE ClaimExited
    BY <2>18 DEF ClaimExited, Claim, env, proc, gate, tasks, results, ending
  <2>19. CASE ProbeSettles
    BY <2>19 DEF ProbeSettles, Abort, Snapshotted, Classified, GateFree, env,
           proc, ending
  <2>20. CASE PollTimers
    BY <2>20 DEF PollTimers, Claim, env, proc, gate, tasks, results, ending
  <2>21. CASE WaitUnparks
    BY <2>21 DEF WaitUnparks, env, proc, gate, tasks, results, ending
  <2>22. CASE TeardownStarts
    BY <2>22 DEF TeardownStarts, Signals, TriesToKill, Kills, env, proc, gate,
           tasks, results, ending
  <2>23. CASE KillTreeRetires
    BY <2>23 DEF KillTreeRetires, TriesToKill, GateFree, Kills, env, proc,
           tasks, results, ending
  <2>24. CASE ConfirmReap
    BY <2>24 DEF ConfirmReap, env, gate, tasks, results, ending
  <2>25. CASE GraceReaps
    BY <2>25 DEF GraceReaps, env, gate, tasks, results, ending
  <2>26. CASE GraceEscalates
    BY <2>26 DEF GraceEscalates, Kills, env, proc, gate, tasks, results,
           ending
  <2>27. CASE GraceRetires
    BY <2>27 DEF GraceRetires, GateFree, env, proc, tasks, results, ending
  <2>28. CASE WaitSettles
    BY <2>28 DEF WaitSettles, Abort, Snapshotted, Classified, GateFree, env,
           proc, ending
  <2>29. CASE TeardownFails
    BY <2>29 DEF TeardownFails, Snapshotted, env, proc, gate, tasks, ending
  <2>30. CASE Deliver
    BY <2>30 DEF Deliver, env, proc, gate, tasks, ending
  <2>31. CASE DropAborts
    BY <2>31 DEF DropAborts, Abort, env, proc, gate, results, ending
  <2>32. CASE DropHandsOff
    BY <2>32 DEF DropHandsOff, GateFree, env, proc, gate, tasks, results
  <2>33. CASE DropRetires
    BY <2>33 DEF DropRetires, GateFree, env, proc, tasks, results, ending
  <2>34. CASE DropChild
    BY <2>34 DEF DropChild, env, proc, gate, tasks, results
  <2>35. CASE HandoffLocks
    BY <2>35 DEF HandoffLocks, GateFree, env, proc, tasks, self, results
  <2>36. CASE HandoffReaps
    BY <2>36 DEF HandoffReaps, env, tasks, self, results
  <2>37. CASE HandoffRetires
    BY <2>37 DEF HandoffRetires, env, proc, tasks, self, results
  <2>38. CASE OrphanReap
    BY <2>38 DEF OrphanReap, env, gate, tasks, self, results, ending
  <2>39. CASE GroupDropKills
    BY <2>39 DEF GroupDropKills, Kills, env, gate, tasks, self, results,
           ending
  <2>40. ASSUME NEW w \in Watchdogs, Watchdog(w)
        PROVE  TimeoutInv'
    <3>1. CASE WatchdogWakes(w)
      BY <3>1 DEF WatchdogWakes, env, proc, gate, self, results, ending
    <3>2. CASE WatchdogClaims(w)
      BY <3>2 DEF WatchdogClaims, Claim, Verdict, env, proc, gate, self, results,
             ending
    <3>3. CASE WatchdogChecks(w)
      BY <3>3 DEF WatchdogChecks, GateFree, env, proc, gate, self, results,
             ending
    <3>4. CASE WatchdogKillsGroup(w)
      BY <3>4 DEF WatchdogKillsGroup, Kills, env, proc, gate, self, results,
             ending
    <3>5. CASE WatchdogStartsGrace(w)
      BY <3>5 DEF WatchdogStartsGrace, Signals, Kills, env, proc, gate, self,
             results, ending
    <3>6. CASE WatchdogEndsGrace(w)
      BY <3>6 DEF WatchdogEndsGrace, Kills, env, proc, gate, self, results,
             ending
    <3>7. CASE WatchdogTurnsToPid(w)
      BY <3>7 DEF WatchdogTurnsToPid, env, proc, gate, self, results, ending
    <3>8. CASE GateForSignal(w)
      BY <3>8 DEF GateForSignal, GateFree, env, proc, self, results, ending
    <3>9. CASE SignalUnderGate(w)
      BY <3>9 DEF SignalUnderGate, Kills, Signals, env, proc, self, results,
             ending
    <3>10. CASE KillerPolls(w)
      BY <3>10 DEF KillerPolls, GateFree, env, proc, gate, self, results,
             ending
    <3> QED
      BY <2>40, <3>1, <3>2, <3>3, <3>4, <3>5, <3>6, <3>7, <3>8, <3>9, <3>10 DEF Watchdog
  <2>41. CASE UNCHANGED vars
    BY <2>41 DEF vars, env, proc, gate, tasks, self, results, ending
  <2> QED
    BY <2>1, <2>2, <2>3, <2>4, <2>5, <2>6, <2>7, <2>8, <2>9, <2>10, <2>11,
           <2>12, <2>13, <2>14, <2>15, <2>16, <2>17, <2>18, <2>19, <2>20,
           <2>21, <2>22, <2>23, <2>24, <2>25, <2>26, <2>27, <2>28, <2>29,
           <2>30, <2>31, <2>32, <2>33, <2>34, <2>35, <2>36, <2>37, <2>38,
           <2>39, <2>40, <2>41 DEF Next, World, Calls, OwnerSteps, Handoff,
           Finished
<1> QED
  BY <1>1, <1>2, TypeCorrect, ReapCorrect, PTL DEF Spec

\* The kill of a timeout watchdog is reported as that timeout, whoever reports.
THEOREM TimeoutReported == Spec => []TimeoutKillIsReported
  BY TimeoutCorrect, PTL DEF TimeoutInv

\* What is reported of a child as ended, has ended and was reaped.
THEOREM ReportCorrect == Spec => []ReportedMeansReaped
  BY ReapCorrect, PTL DEF ReapInv
-----------------------------------------------------------------------------
(* What is settled stays settled.                                              *)

Stopping == {"retireCancel", "teardown", "killRetire", "confirm", "grace", "graceRetire"}

\* What anybody is told of a settled run.
Told == IF snapshot = "yes" THEN "cancelled" ELSE Classified("exited")

\* The cancel watchdog has killed nobody and will not, behind a retired gate.
CancelIsHarmless ==
    retired /\ killedBy # "cancel" /\ watch["cancel"] \in {"unarmed", "waiting", "check", "done"}

\* How wait goes on when its poll of the token found it silent.
UncancelledWait ==
    /\ op = "wait" /\ snapshot = "none"
    /\ \/ owner \in {"lock", "reap", "reaped", "claim", "timers"}
       \/ owner \in Stopping \cup {"settle"} /\ why # "cancel"

\* The strengthening of SettledForGood: the arbiter is decided before anything is
\* latched, a teardown has a trigger that claimed, and whoever was told of the run
\* was told what its disposition and the arbiter say.
SettleInv ==
    /\ cancelled \/ (watch["cancel"] \in {"unarmed", "waiting", "done"} /\ killedBy # "cancel")
    /\ arbiter = "exited" => snapshot # "none" \/ owner = "settle"
    /\ snapshot = "no" => arbiter # "pending"
    /\ failure \in {"none", "cancel"} \/ arbiter # "pending"
    /\ owner \in {"reaped", "claim", "settle"} => op # "none"
    /\ owner \in Stopping =>
         op \in {"wait", "waitExit"} /\ snapshot = "none" /\ why \in Watchdogs
    /\ owner = "settle" => \/ why = "exit" /\ arbiter # "pending"
                           \/ op # "probe" /\ snapshot = "none" /\ why \in Watchdogs
    /\ owner \in Stopping \cup {"settle"} /\ why \in {"deadline", "inactivity"}
         => arbiter \in {"timedOut", "inactive"}
    /\ owner = "failed" => snapshot = "none" /\ (why = "cancel" \/ arbiter # "pending")
    /\ report \in {"none", "unconfirmed"} \/ (snapshot # "none" /\ report = Told)
    /\ probed = "none" \/ (snapshot # "none" /\ probed = Told)
    /\ owner = "deliver" => /\ snapshot # "none"
                            /\ failure = "none" /\ snapshot = "no" => outcome = Told
    /\ UncancelledWait => CancelIsHarmless

\* The invariant is kept by every step of every task of a run.
LEMMA SettleStep ==
  ASSUME TypeOK, GateInv, ReapInv, TimeoutInv, SettleInv, [Next]_vars
  PROVE  SettleInv'
<1> USE DEF TypeOK, Watchdogs, WatchPc, OwnerPc, Arbiters, SettleInv, Stopping, Told,
            CancelIsHarmless, UncancelledWait, Classified
<1>g. FinisherRetiredFirst
  BY DEF GateInv
<1>r. owner = "failed" => why # "none"
  BY DEF ReapInv
<1>t. \A w \in {"deadline", "inactivity"} :
        watch[w] \in {"act", "grace"} => arbiter # "pending"
  BY DEF TimeoutInv, Verdict
<1>1. CASE CancelFires
  BY <1>1 DEF CancelFires, proc, gate, tasks, self, results, ending
<1>2. CASE DeadlineElapses
  BY <1>2 DEF DeadlineElapses, proc, gate, tasks, self, results, ending
<1>3. CASE OutputQuietens
  BY <1>3 DEF OutputQuietens, proc, gate, tasks, self, results, ending
<1>4. CASE ChildWrites
  BY <1>4 DEF ChildWrites, proc, gate, tasks, self, results, ending
<1>5. CASE ChildExits
  BY <1>5 DEF ChildExits, Kills, env, gate, tasks, self, results, ending
<1>6. CASE ArmStream
  BY <1>6 DEF ArmStream, env, proc, gate, self, results, ending
<1>7. CASE StartKill
  BY <1>7 DEF StartKill, Kills, env, gate, tasks, self, results, ending
<1>8. CASE BeginProbe
  BY <1>8 DEF BeginProbe, env, proc, gate, tasks, results, ending
<1>9. CASE BeginWaitExit
  BY <1>9 DEF BeginWaitExit, env, proc, gate, tasks, results, ending
<1>10. CASE BeginWait
  BY <1>10 DEF BeginWait, env, proc, gate, tasks, results, ending
<1>11. CASE AbandonWait
  BY <1>11 DEF AbandonWait, env, proc, gate, tasks, results, ending
<1>12. CASE WaitRetires
  BY <1>12, <1>g DEF FinisherRetiredFirst, WaitRetires, Abort, GateFree, env, proc, results, ending
<1>13. CASE PollCancel
  BY <1>13, <1>g DEF FinisherRetiredFirst, PollCancel, env, proc, gate, tasks, results, ending
<1>14. CASE CancelArmRetires
  BY <1>14 DEF CancelArmRetires, GateFree, env, proc, tasks, results, ending
<1>15. CASE ReapLocks
  BY <1>15 DEF ReapLocks, GateFree, env, proc, tasks, results, ending
<1>16. CASE ReapUnderGate
  BY <1>16, <1>g DEF FinisherRetiredFirst, ReapUnderGate, env, tasks, results, ending
<1>17. CASE ReapRetires
  BY <1>17 DEF ReapRetires, env, proc, tasks, results, ending
<1>18. CASE ClaimExited
  BY <1>18 DEF ClaimExited, Claim, env, proc, gate, tasks, results, ending
<1>19. CASE ProbeSettles
  BY <1>19 DEF ProbeSettles, Abort, Snapshotted, Classified, GateFree, env,
         proc, ending
<1>20. CASE PollTimers
  BY <1>20, <1>g DEF FinisherRetiredFirst, PollTimers, Claim, env, proc, gate, tasks, results, ending
<1>21. CASE WaitUnparks
  BY <1>21 DEF WaitUnparks, env, proc, gate, tasks, results, ending
<1>22. CASE TeardownStarts
  BY <1>22 DEF TeardownStarts, Signals, TriesToKill, Kills, env, proc, gate,
         tasks, results, ending
<1>23. CASE KillTreeRetires
  BY <1>23 DEF KillTreeRetires, TriesToKill, GateFree, Kills, env, proc,
         tasks, results, ending
<1>24. CASE ConfirmReap
  BY <1>24 DEF ConfirmReap, env, gate, tasks, results, ending
<1>25. CASE GraceReaps
  BY <1>25 DEF GraceReaps, env, gate, tasks, results, ending
<1>26. CASE GraceEscalates
  BY <1>26 DEF GraceEscalates, Kills, env, proc, gate, tasks, results,
         ending
<1>27. CASE GraceRetires
  BY <1>27 DEF GraceRetires, GateFree, env, proc, tasks, results, ending
<1>28. CASE WaitSettles
  BY <1>28 DEF WaitSettles, Abort, Snapshotted, Classified, GateFree, env,
         proc, ending
<1>29. CASE TeardownFails
  BY <1>29, <1>r DEF TeardownFails, Snapshotted, env, proc, gate, tasks, ending
<1>30. CASE Deliver
  BY <1>30 DEF Deliver, env, proc, gate, tasks, ending
<1>31. CASE DropAborts
  BY <1>31 DEF DropAborts, Abort, env, proc, gate, results, ending
<1>32. CASE DropHandsOff
  BY <1>32 DEF DropHandsOff, GateFree, env, proc, gate, tasks, results
<1>33. CASE DropRetires
  BY <1>33 DEF DropRetires, GateFree, env, proc, tasks, results, ending
<1>34. CASE DropChild
  BY <1>34 DEF DropChild, env, proc, gate, tasks, results
<1>35. CASE HandoffLocks
  BY <1>35 DEF HandoffLocks, GateFree, env, proc, tasks, self, results
<1>36. CASE HandoffReaps
  BY <1>36 DEF HandoffReaps, env, tasks, self, results
<1>37. CASE HandoffRetires
  BY <1>37 DEF HandoffRetires, env, proc, tasks, self, results
<1>38. CASE OrphanReap
  BY <1>38 DEF OrphanReap, env, gate, tasks, self, results, ending
<1>39. CASE GroupDropKills
  BY <1>39 DEF GroupDropKills, Kills, env, gate, tasks, self, results,
         ending
<1>40. ASSUME NEW w \in Watchdogs, Watchdog(w)
      PROVE  SettleInv'
  <2>1. CASE WatchdogWakes(w)
    <3>1. w = "cancel" => cancelled
      BY <2>1 DEF WatchdogWakes, Trigger
    <3>2. w # "cancel" => watch'["cancel"] = watch["cancel"]
      BY <2>1, Zenon DEF WatchdogWakes
    <3>3. w = "cancel" => watch'["cancel"] = "check" /\ watch["cancel"] = "waiting"
      BY <2>1 DEF WatchdogWakes
    <3> QED BY <2>1, <3>1, <3>2, <3>3 DEF WatchdogWakes, env, proc, gate, self, results, ending
  <2>2. CASE WatchdogClaims(w)
    BY <2>2 DEF WatchdogClaims, Claim, Verdict, env, proc, gate, self, results,
           ending
  <2>3. CASE WatchdogChecks(w)
    BY <2>3 DEF WatchdogChecks, GateFree, env, proc, gate, self, results,
           ending
  <2>4. CASE WatchdogKillsGroup(w)
    BY <2>4, <1>t DEF WatchdogKillsGroup, Kills, env, proc, gate, self, results,
           ending
  <2>5. CASE WatchdogStartsGrace(w)
    BY <2>5 DEF WatchdogStartsGrace, Signals, Kills, env, proc, gate, self,
           results, ending
  <2>6. CASE WatchdogEndsGrace(w)
    BY <2>6, <1>t DEF WatchdogEndsGrace, Kills, env, proc, gate, self, results,
           ending
  <2>7. CASE WatchdogTurnsToPid(w)
    BY <2>7 DEF WatchdogTurnsToPid, env, proc, gate, self, results, ending
  <2>8. CASE GateForSignal(w)
    BY <2>8 DEF GateForSignal, GateFree, env, proc, self, results, ending
  <2>9. CASE SignalUnderGate(w)
    BY <2>9 DEF SignalUnderGate, Kills, Signals, env, proc, self, results,
           ending
  <2>10. CASE KillerPolls(w)
    BY <2>10 DEF KillerPolls, GateFree, env, proc, gate, self, results,
           ending
  <2> QED
    BY <1>40, <2>1, <2>2, <2>3, <2>4, <2>5, <2>6, <2>7, <2>8, <2>9, <2>10 DEF Watchdog
<1>41. CASE UNCHANGED vars
  BY <1>41 DEF vars, env, proc, gate, tasks, self, results, ending
<1> QED
  BY <1>1, <1>2, <1>3, <1>4, <1>5, <1>6, <1>7, <1>8, <1>9, <1>10, <1>11,
         <1>12, <1>13, <1>14, <1>15, <1>16, <1>17, <1>18, <1>19, <1>20,
         <1>21, <1>22, <1>23, <1>24, <1>25, <1>26, <1>27, <1>28, <1>29,
         <1>30, <1>31, <1>32, <1>33, <1>34, <1>35, <1>36, <1>37, <1>38,
         <1>39, <1>40, <1>41 DEF Next, World, Calls, OwnerSteps, Handoff,
         Finished

LEMMA SettleAlways == Spec => [](TypeOK /\ GateInv /\ ReapInv /\ TimeoutInv /\ SettleInv)
<1>1. Init => SettleInv
  BY DEF Init, SettleInv, Stopping, UncancelledWait, Watchdogs
<1>2. TypeOK /\ GateInv /\ ReapInv /\ TimeoutInv /\ SettleInv /\ [Next]_vars => SettleInv'
  BY SettleStep
<1> QED BY <1>1, <1>2, TypeCorrect, GateCorrect, ReapCorrect, TimeoutCorrect, PTL DEF Spec

\* The disposition, the arbiter and what a probe saw are settled once; and a kill
\* of the cancel watchdog is latched as a cancellation by whoever settles the run.
LEMMA SettledStep ==
    ASSUME TypeOK, GateInv, ReapInv, TimeoutInv, SettleInv, SettleInv', [Next]_vars
    PROVE  /\ snapshot # "none" => snapshot' = snapshot
           /\ arbiter # "pending" => arbiter' = arbiter
           /\ probed # "none" => probed' = probed
           /\ killedBy = "cancel" /\ op # "waitExit" /\ failure' = "none"
                /\ snapshot = "none" /\ snapshot' # "none"
              => snapshot' = "yes"
<1> USE DEF SettleInv, Told, Watchdogs
<1>1. CASE UNCHANGED <<snapshot, arbiter, probed>>
  BY <1>1
<1>2. CASE ClaimExited \/ PollTimers \/ \E w \in Watchdogs : WatchdogClaims(w)
  BY <1>2 DEF ClaimExited, PollTimers, WatchdogClaims, Claim, results
<1>3. CASE ProbeSettles
  <2>1. /\ UNCHANGED <<arbiter, killedBy, cancelled>> /\ Snapshotted(cancelled)
        /\ probed' = IF snapshot' = "yes" THEN "cancelled" ELSE Classified("exited")
        /\ owner = "settle" /\ op = "probe" /\ op' = op
    BY <1>3 DEF ProbeSettles, env, proc
  <2>2. snapshot' = IF snapshot = "none" THEN (IF cancelled THEN "yes" ELSE "no") ELSE snapshot
    BY <2>1 DEF Snapshotted
  <2>3. killedBy = "cancel" => cancelled
    OBVIOUS
  <2>4. probed # "none" => probed' = probed
    BY <2>1, <2>2
  <2> QED BY <2>1, <2>2, <2>3, <2>4
<1>4. CASE WaitSettles
  <2>1. /\ UNCHANGED <<arbiter, probed>> /\ Snapshotted(why = "cancel")
        /\ owner = "settle" /\ op \in {"none", "wait", "waitExit"}
    BY <1>4 DEF WaitSettles, TypeOK
  <2>2. snapshot' = IF snapshot = "none" THEN (IF why = "cancel" THEN "yes" ELSE "no") ELSE snapshot
    BY <2>1 DEF Snapshotted
  <2>3. op = "wait" /\ snapshot = "none" /\ killedBy = "cancel" => why = "cancel"
    BY <2>1 DEF UncancelledWait, CancelIsHarmless
  <2>4. op # "none"
    BY <2>1
  <2> QED BY <2>1, <2>2, <2>3, <2>4
<1>5. CASE TeardownFails
  BY <1>5 DEF TeardownFails, Snapshotted, ReapInv
<1>6. \/ UNCHANGED <<snapshot, arbiter, probed>>
      \/ ClaimExited \/ PollTimers \/ \E w \in Watchdogs : WatchdogClaims(w)
      \/ ProbeSettles \/ WaitSettles \/ TeardownFails
  <2>1. ASSUME NEW w \in Watchdogs, Watchdog(w)
        PROVE  UNCHANGED <<snapshot, arbiter, probed>> \/ WatchdogClaims(w)
    BY <2>1 DEF Watchdog, WatchdogWakes, WatchdogChecks, WatchdogKillsGroup, WatchdogStartsGrace,
         WatchdogEndsGrace, WatchdogTurnsToPid, GateForSignal, SignalUnderGate, KillerPolls, results
  <2>2. CASE World \/ Calls \/ Handoff \/ OrphanReap \/ GroupDropKills \/ Finished
             \/ UNCHANGED vars
    BY <2>2 DEF World, CancelFires, DeadlineElapses, OutputQuietens, ChildWrites, ChildExits,
         Calls, ArmStream, StartKill, BeginProbe, BeginWaitExit, BeginWait, AbandonWait, DropAborts,
         Handoff, HandoffLocks, HandoffReaps, HandoffRetires, OrphanReap, GroupDropKills, Finished,
         vars, results
  <2>3. CASE OwnerSteps
    BY <2>3 DEF OwnerSteps, WaitRetires, PollCancel, CancelArmRetires, ReapLocks, ReapUnderGate,
         ReapRetires, WaitUnparks, TeardownStarts, KillTreeRetires, ConfirmReap, GraceReaps,
         GraceEscalates, GraceRetires, Deliver, DropAborts, DropHandsOff, DropRetires, DropChild,
         results
  <2> QED BY <2>1, <2>2, <2>3 DEF Next
<1> QED BY <1>1, <1>2, <1>3, <1>4, <1>5, <1>6

\* A run that is settled stays so, whatever comes later: a probe's verdict is the
\* one a following wait reports, and a cancellation is reported as one.
THEOREM SettledCorrect == Spec => SettledForGood
<1>1. SettleInv => /\ probed # "none" => report \in {"none", probed, "unconfirmed"}
                   /\ snapshot = "yes"
                        => {report, probed} \subseteq {"none", "cancelled", "unconfirmed"}
  BY DEF SettleInv, Told
<1> QED BY <1>1, SettleAlways, SettledStep, PTL DEF SettledForGood, Spec
=============================================================================
