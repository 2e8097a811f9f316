-------------------------- MODULE Supervisor_proofs --------------------------
(***************************************************************************)
(* What holds of every supervisor and every budget: the session and the    *)
(* loop never lose, double or outrun an incarnation.  One lemma per part   *)
(* of the inductive invariant, each with one step per action.              *)
(***************************************************************************)
EXTENDS Supervisor, TLAPS

USE ConfigsAssumption

\* Every variable keeps to its values.
LEMMA ValuesStep == ASSUME TypeOK, [Next]_vars PROVE ValuesOK'
<1> USE DEF TypeOK, ValuesOK, LoopPc, StopPc, Ends, Reasons, Errors, loop,
            session, handle, proc
<1>1. CASE UserCancels
  BY <1>1 DEF UserCancels
<1>2. CASE ChildExits
  BY <1>2 DEF ChildExits
<1>3. CASE Begin
  BY <1>3 DEF Begin, Goto, Finish
<1>4. CASE Top
  BY <1>4 DEF Top, Finish
<1>5. CASE Launch
  BY <1>5 DEF Launch, Goto, Leaves, CurrentCleared
<1>6. CASE Publish
  BY <1>6 DEF Publish, Goto, PendingStop
<1>7. CASE CaptureLaunches
  BY <1>7 DEF CaptureLaunches, Goto, Leaves, CurrentCleared
<1>8. CASE StopSelf
  BY <1>8 DEF StopSelf, Goto, Leaves, CurrentCleared
<1>9. CASE RunReturns \/ TeardownFails
  <2>1. \E e \in {"clean", "crash", "error", "cancelled", "teardown"} : Leaves(e)
    BY <1>9 DEF RunReturns, TeardownFails
  <2>2. UNCHANGED <<conf, asked, userCancelled, handle>>
    BY <1>9 DEF RunReturns, TeardownFails
  <2> QED
    BY <2>1, <2>2 DEF Leaves, CurrentCleared
<1>10. CASE WatchWins
  BY <1>10 DEF WatchWins, Leaves, CurrentCleared
<1>11. CASE Ended
  BY <1>11 DEF Ended, Goto, Finish, StopNoticed, EndIsFinal, FinalError,
             WantsRestart
<1>12. CASE Gate
  BY <1>12 DEF Gate, Finish, Goto, BudgetSpent, GaveUp, Failed
<1>13. CASE StormEnds
  BY <1>13 DEF StormEnds, Interrupted, Finish, Goto
<1>14. CASE SleepEnds
  BY <1>14 DEF SleepEnds, Interrupted, Finish
<1>15. CASE Abort
  BY <1>15 DEF Abort, Awaits, CurrentCleared
<1>16. CASE RequestStop
  BY <1>16 DEF RequestStop, AttemptsOK, Attempt
<1>17. CASE FireStop
  BY <1>17 DEF FireStop
<1>18. CASE StopsChild
  <2>1. UNCHANGED <<conf, asked, userCancelled, loop, session>>
    BY <1>18 DEF StopsChild
  <2>2. stopPc' \in StopPc /\ aborted' \in BOOLEAN
    <3>1. CASE UNCHANGED aborted /\ stopPc' = "await"
      BY <3>1
    <3>2. CASE aborted' = TRUE /\ stopPc' = "failed"
      BY <3>2
    <3> QED
      BY <1>18, <3>1, <3>2 DEF StopsChild
  <2> QED
    BY <2>1, <2>2
<1>19. CASE StopReturns
  BY <1>19 DEF StopReturns
<1>20. CASE DropSession
  BY <1>20 DEF DropSession
<1>21. CASE UNCHANGED vars
  BY <1>21 DEF vars
<1> QED
  BY <1>1, <1>2, <1>3, <1>4, <1>5, <1>6, <1>7, <1>8, <1>9, <1>10, <1>11, <1>12,
     <1>13, <1>14, <1>15, <1>16, <1>17, <1>18, <1>19, <1>20, <1>21
     DEF Next, Task, Session, Rests

\* What is published, stopped or alive has begun.
LEMMA AttemptsStep == ASSUME TypeOK, AttemptInv, [Next]_vars PROVE AttemptsOK'
<1> USE DEF TypeOK, ValuesOK, AttemptsOK, AttemptInv, Attempt, loop, session,
            handle, proc
<1>1. CASE UserCancels
  BY <1>1 DEF UserCancels
<1>2. CASE ChildExits
  BY <1>2 DEF ChildExits
<1>3. CASE Begin
  BY <1>3 DEF Begin, Goto, Finish
<1>4. CASE Top
  <2>1. begun' \subseteq 1..Attempt'
    <3>1. UNCHANGED restarts /\ begun' \subseteq begun \cup {restarts + 1}
      BY <1>4 DEF Top, Finish
    <3>2. restarts + 1 \in 1..(restarts + 1)
      OBVIOUS
    <3> QED
      BY <3>1, <3>2
  <2>2. begun \subseteq begun'
    BY <1>4 DEF Top, Finish
  <2>3. (current' \in {current, 0}) /\ UNCHANGED <<handle, proc>>
    BY <1>4 DEF Top, Finish
  <2> QED
    BY <2>1, <2>2, <2>3
<1>5. CASE Launch
  BY <1>5 DEF Launch, Goto, Leaves, CurrentCleared
<1>6. CASE Publish
  BY <1>6 DEF Publish, Goto, PendingStop, FiresToken, Stoppers
<1>7. CASE CaptureLaunches
  BY <1>7 DEF CaptureLaunches, Goto, Leaves, CurrentCleared
<1>8. CASE StopSelf
  BY <1>8 DEF StopSelf, Goto, Leaves, CurrentCleared, KilledOnDrop
<1>9. CASE RunReturns \/ TeardownFails
  BY <1>9 DEF RunReturns, TeardownFails, Leaves, CurrentCleared, KilledOnDrop
<1>10. CASE WatchWins
  BY <1>10 DEF WatchWins, Leaves, CurrentCleared, KilledOnDrop
<1>11. CASE Ended
  BY <1>11 DEF Ended, Goto, Finish, StopNoticed
<1>12. CASE Gate
  BY <1>12 DEF Gate, Finish, Goto, BudgetSpent, GaveUp
<1>13. CASE StormEnds
  BY <1>13 DEF StormEnds, Interrupted, Finish, Goto
<1>14. CASE SleepEnds
  <2>1. begun' \subseteq 1..Attempt'
    <3>1. UNCHANGED begun /\ restarts' \in {restarts, restarts + 1}
      BY <1>14 DEF SleepEnds, Interrupted, Finish
    <3>2. 1..(restarts + 1) \subseteq 1..(restarts + 1 + 1)
      OBVIOUS
    <3> QED
      BY <3>1, <3>2
  <2>2. UNCHANGED begun /\ current' \in {current, 0} /\ UNCHANGED <<handle, proc>>
    BY <1>14 DEF SleepEnds, Interrupted, Finish
  <2> QED
    BY <2>1, <2>2
<1>15. CASE Abort
  BY <1>15 DEF Abort, Awaits, CurrentCleared, KilledOnDrop
<1>16. CASE RequestStop
  BY <1>16 DEF RequestStop
<1>17. CASE FireStop
  BY <1>17 DEF FireStop, Stoppers
<1>18. CASE StopsChild
  <2>1. UNCHANGED <<loop, session, stops>> /\ stopper' = 0
    BY <1>18 DEF StopsChild
  <2>2. live' \subseteq live
    BY <1>18 DEF StopsChild, KilledOnRelease
  <2>3. fired' \subseteq begun
    <3>1. CASE UNCHANGED fired
      BY <3>1
    <3>2. CASE fired' = fired \cup {stopper} /\ stopper # 0
      BY <3>2
    <3>3. stopper # 0
      BY <1>18 DEF StopsChild
    <3> QED
      BY <1>18, <3>1, <3>2, <3>3 DEF StopsChild, FiresToken
  <2> QED
    BY <2>1, <2>2, <2>3
<1>19. CASE StopReturns
  BY <1>19 DEF StopReturns
<1>20. CASE DropSession
  BY <1>20 DEF DropSession, KilledOnRelease
<1>21. CASE UNCHANGED vars
  BY <1>21 DEF vars
<1> QED
  BY <1>1, <1>2, <1>3, <1>4, <1>5, <1>6, <1>7, <1>8, <1>9, <1>10, <1>11, <1>12,
     <1>13, <1>14, <1>15, <1>16, <1>17, <1>18, <1>19, <1>20, <1>21
     DEF Next, Task, Session, Rests

\* The two make up the types.
LEMMA TypeStep == ASSUME TypeOK, AttemptInv, [Next]_vars PROVE TypeOK'
  BY ValuesStep, AttemptsStep DEF TypeOK

\* An attempt begins once, and is published only while its run is in hand.
LEMMA AttemptStep == ASSUME TypeOK, AttemptInv, [Next]_vars PROVE AttemptInv'
<1> USE DEF TypeOK, ValuesOK, AttemptsOK, AttemptInv, Attempt, loop, session,
            handle, proc
<1>1. CASE UserCancels
  BY <1>1 DEF UserCancels
<1>2. CASE ChildExits
  BY <1>2 DEF ChildExits
<1>3. CASE Begin
  BY <1>3 DEF Begin, Goto, Finish
<1>4. CASE Top
  BY <1>4 DEF Top, Finish
<1>5. CASE Launch
  BY <1>5 DEF Launch, Goto, Leaves, CurrentCleared
<1>6. CASE Publish
  BY <1>6 DEF Publish, Goto, PendingStop, FiresToken
<1>7. CASE CaptureLaunches
  BY <1>7 DEF CaptureLaunches, Goto, Leaves, CurrentCleared
<1>8. CASE StopSelf
  BY <1>8 DEF StopSelf, Goto, Leaves, CurrentCleared, KilledOnDrop
<1>9. CASE RunReturns \/ TeardownFails
  BY <1>9 DEF RunReturns, TeardownFails, Leaves, CurrentCleared, KilledOnDrop
<1>10. CASE WatchWins
  BY <1>10 DEF WatchWins, Leaves, CurrentCleared, KilledOnDrop
<1>11. CASE Ended
  BY <1>11 DEF Ended, Goto, Finish, StopNoticed
<1>12. CASE Gate
  BY <1>12 DEF Gate, Finish, Goto, BudgetSpent, GaveUp
<1>13. CASE StormEnds
  BY <1>13 DEF StormEnds, Interrupted, Finish, Goto
<1>14. CASE SleepEnds
  BY <1>14 DEF SleepEnds, Interrupted, Finish
<1>15. CASE Abort
  BY <1>15 DEF Abort, Awaits, CurrentCleared, KilledOnDrop
<1>16. CASE RequestStop
  BY <1>16 DEF RequestStop
<1>17. CASE FireStop
  BY <1>17 DEF FireStop
<1>18. CASE StopsChild
  BY <1>18 DEF StopsChild, FiresToken, KilledOnRelease
<1>19. CASE StopReturns
  BY <1>19 DEF StopReturns
<1>20. CASE DropSession
  BY <1>20 DEF DropSession, KilledOnRelease
<1>21. CASE UNCHANGED vars
  BY <1>21 DEF vars
<1> QED
  BY <1>1, <1>2, <1>3, <1>4, <1>5, <1>6, <1>7, <1>8, <1>9, <1>10, <1>11, <1>12,
     <1>13, <1>14, <1>15, <1>16, <1>17, <1>18, <1>19, <1>20, <1>21
     DEF Next, Task, Session, Rests

\* Nothing is stopped, and no token fired, before stop() asked for it.
LEMMA StopStep == ASSUME TypeOK, StopInv, [Next]_vars PROVE StopInv'
<1> USE DEF TypeOK, ValuesOK, AttemptsOK, StopInv, StopIsNotCancellation,
            Attempt, loop, session, handle, proc
<1>1. CASE UserCancels
  BY <1>1 DEF UserCancels
<1>2. CASE ChildExits
  BY <1>2 DEF ChildExits
<1>3. CASE Begin
  BY <1>3 DEF Begin, Goto, Finish
<1>4. CASE Top
  BY <1>4 DEF Top, Finish
<1>5. CASE Launch
  BY <1>5 DEF Launch, Goto, Leaves, CurrentCleared, TokenFired
<1>6. CASE Publish
  BY <1>6 DEF Publish, Goto, PendingStop, FiresToken
<1>7. CASE CaptureLaunches
  BY <1>7 DEF CaptureLaunches, Goto, Leaves, CurrentCleared, TokenFired
<1>8. CASE StopSelf
  BY <1>8 DEF StopSelf, Goto, Leaves, CurrentCleared, KilledOnDrop
<1>9. CASE RunReturns \/ TeardownFails
  BY <1>9 DEF RunReturns, TeardownFails, Leaves, CurrentCleared, KilledOnDrop, TokenFired
<1>10. CASE WatchWins
  BY <1>10 DEF WatchWins, Leaves, CurrentCleared, KilledOnDrop
<1>11. CASE Ended
  BY <1>11 DEF Ended, Goto, Finish, StopNoticed, EndIsFinal, FinalError
<1>12. CASE Gate
  BY <1>12 DEF Gate, Finish, Goto, BudgetSpent, GaveUp
<1>13. CASE StormEnds
  BY <1>13 DEF StormEnds, Interrupted, Finish, Goto
<1>14. CASE SleepEnds
  BY <1>14 DEF SleepEnds, Interrupted, Finish
<1>15. CASE Abort
  BY <1>15 DEF Abort, Awaits, CurrentCleared, KilledOnDrop
<1>16. CASE RequestStop
  BY <1>16 DEF RequestStop
<1>17. CASE FireStop
  BY <1>17 DEF FireStop
<1>18. CASE StopsChild
  BY <1>18 DEF StopsChild, FiresToken, KilledOnRelease
<1>19. CASE StopReturns
  BY <1>19 DEF StopReturns
<1>20. CASE DropSession
  BY <1>20 DEF DropSession, KilledOnRelease
<1>21. CASE UNCHANGED vars
  BY <1>21 DEF vars
<1> QED
  BY <1>1, <1>2, <1>3, <1>4, <1>5, <1>6, <1>7, <1>8, <1>9, <1>10, <1>11, <1>12,
     <1>13, <1>14, <1>15, <1>16, <1>17, <1>18, <1>19, <1>20, <1>21
     DEF Next, Task, Session, Rests

\* A child with a private group does not outlive its attempt into the next.
LEMMA LiveStep == ASSUME TypeOK, StopInv, AttemptInv, LiveInv, [Next]_vars PROVE LiveInv'
<1> USE DEF TypeOK, ValuesOK, AttemptsOK, StopInv, AttemptInv, LiveInv,
            Between, Attempt, EndIsFinal, loop, session, handle,
            proc
<1>1. CASE UserCancels
  BY <1>1 DEF UserCancels
<1>2. CASE ChildExits
  BY <1>2 DEF ChildExits
<1>3. CASE Begin
  BY <1>3 DEF Begin, Goto, Finish
<1>4. CASE Top
  BY <1>4 DEF Top, Finish
<1>5. CASE Launch
  BY <1>5 DEF Launch, Goto, Leaves, CurrentCleared
<1>6. CASE Publish
  BY <1>6 DEF Publish, Goto, PendingStop, FiresToken
<1>7. CASE CaptureLaunches
  BY <1>7 DEF CaptureLaunches, Goto, Leaves, CurrentCleared
<1>8. CASE StopSelf
  BY <1>8 DEF StopSelf, Goto, Leaves, CurrentCleared, KilledOnDrop
<1>9. CASE RunReturns \/ TeardownFails
  BY <1>9 DEF RunReturns, TeardownFails, Leaves, CurrentCleared, KilledOnDrop
<1>10. CASE WatchWins
  <2> SUFFICES ASSUME conf.kind = "own" PROVE LiveInv'
    BY <1>10 DEF WatchWins
  <2>1. pc' = "ended" /\ UNCHANGED <<restarts, stopping>>
    BY <1>10 DEF WatchWins, Leaves
  <2>2. live' \subseteq live
    BY <1>10 DEF WatchWins, KilledOnDrop, CurrentCleared
  <2>3. stopper # Attempt => live' = {}
    BY <1>10 DEF WatchWins, KilledOnDrop, CurrentCleared
  <2>4. stopper = Attempt => stopping
    OBVIOUS
  <2> QED
    BY <2>1, <2>2, <2>3, <2>4
<1>11. CASE Ended
  BY <1>11 DEF Ended, Goto, Finish, StopNoticed
<1>12. CASE Gate
  BY <1>12 DEF Gate, Finish, Goto, BudgetSpent, GaveUp
<1>13. CASE StormEnds
  BY <1>13 DEF StormEnds, Interrupted, Finish, Goto
<1>14. CASE SleepEnds
  BY <1>14 DEF SleepEnds, Interrupted, Finish
<1>15. CASE Abort
  BY <1>15 DEF Abort, Awaits, CurrentCleared, KilledOnDrop
<1>16. CASE RequestStop
  BY <1>16 DEF RequestStop
<1>17. CASE FireStop
  BY <1>17 DEF FireStop
<1>18. CASE StopsChild
  BY <1>18 DEF StopsChild, FiresToken, KilledOnRelease
<1>19. CASE StopReturns
  BY <1>19 DEF StopReturns
<1>20. CASE DropSession
  BY <1>20 DEF DropSession, KilledOnRelease
<1>21. CASE UNCHANGED vars
  BY <1>21 DEF vars
<1> QED
  BY <1>1, <1>2, <1>3, <1>4, <1>5, <1>6, <1>7, <1>8, <1>9, <1>10, <1>11, <1>12,
     <1>13, <1>14, <1>15, <1>16, <1>17, <1>18, <1>19, <1>20, <1>21
     DEF Next, Task, Session, Rests

\* The task and stop() never both stop an attempt.
LEMMA StopsStep == ASSUME TypeOK, StopInv, AttemptInv, StopsInv, [Next]_vars PROVE StopsInv'
<1> USE DEF TypeOK, ValuesOK, AttemptsOK, StopInv, AttemptInv, StopsInv,
            StoppedOnce, Unpublished, Stoppers, Attempt, loop,
            session, handle, proc
<1>1. CASE UserCancels
  BY <1>1 DEF UserCancels
<1>2. CASE ChildExits
  BY <1>2 DEF ChildExits
<1>3. CASE Begin
  BY <1>3 DEF Begin, Goto, Finish
<1>4. CASE Top
  <2>1. UNCHANGED <<stopper, stops, restarts>> /\ begun' \subseteq begun \cup {Attempt}
    BY <1>4 DEF Top, Finish
  <2>2. Attempt \notin begun
    BY <1>4 DEF Top
  <2>3. stopper # Attempt /\ \A s \in Stoppers : <<Attempt, s>> \notin stops
    BY <2>2
  <2>4. pc' \in Unpublished \/ pc' = "over"
    BY <1>4 DEF Top, Finish
  <2> QED
    BY <2>1, <2>2, <2>3, <2>4, <1>4 DEF Top
<1>5. CASE Launch
  BY <1>5 DEF Launch, Goto, Leaves, CurrentCleared
<1>6. CASE Publish
  BY <1>6 DEF Publish, Goto, PendingStop, FiresToken
<1>7. CASE CaptureLaunches
  BY <1>7 DEF CaptureLaunches, Goto, Leaves, CurrentCleared
<1>8. CASE StopSelf
  BY <1>8 DEF StopSelf, Goto, Leaves, CurrentCleared, KilledOnDrop
<1>9. CASE RunReturns \/ TeardownFails
  BY <1>9 DEF RunReturns, TeardownFails, Leaves, CurrentCleared, KilledOnDrop
<1>10. CASE WatchWins
  BY <1>10 DEF WatchWins, Leaves, CurrentCleared, KilledOnDrop
<1>11. CASE Ended
  BY <1>11 DEF Ended, Goto, Finish, StopNoticed
<1>12. CASE Gate
  BY <1>12 DEF Gate, Finish, Goto, BudgetSpent, GaveUp
<1>13. CASE StormEnds
  BY <1>13 DEF StormEnds, Interrupted, Finish, Goto
<1>14. CASE SleepEnds
  <2>1. UNCHANGED <<stopper, stops, begun>>
    BY <1>14 DEF SleepEnds, Interrupted, Finish
  <2>2. pc' = "over" \/ restarts' = restarts + 1
    BY <1>14 DEF SleepEnds, Interrupted, Finish
  <2>3. \A a \in begun : a # restarts + 1 + 1
    OBVIOUS
  <2> QED
    BY <2>1, <2>2, <2>3
<1>15. CASE Abort
  BY <1>15 DEF Abort, Awaits, CurrentCleared, KilledOnDrop
<1>16. CASE RequestStop
  BY <1>16 DEF RequestStop
<1>17. CASE FireStop
  BY <1>17 DEF FireStop
<1>18. CASE StopsChild
  BY <1>18 DEF StopsChild, FiresToken, KilledOnRelease
<1>19. CASE StopReturns
  BY <1>19 DEF StopReturns
<1>20. CASE DropSession
  BY <1>20 DEF DropSession, KilledOnRelease
<1>21. CASE UNCHANGED vars
  BY <1>21 DEF vars
<1> QED
  BY <1>1, <1>2, <1>3, <1>4, <1>5, <1>6, <1>7, <1>8, <1>9, <1>10, <1>11, <1>12,
     <1>13, <1>14, <1>15, <1>16, <1>17, <1>18, <1>19, <1>20, <1>21
     DEF Next, Task, Session, Rests

\* A stop is noticed before a second attempt begins after it.
LEMMA LaunchStep == ASSUME TypeOK, StopInv, AttemptInv, LaunchInv, [Next]_vars PROVE LaunchInv'
<1> USE DEF TypeOK, ValuesOK, AttemptsOK, StopInv, AttemptInv, LaunchInv,
            Between, Attempt, loop, session, handle, proc
<1>1. CASE UserCancels
  BY <1>1 DEF UserCancels
<1>2. CASE ChildExits
  BY <1>2 DEF ChildExits
<1>3. CASE Begin
  BY <1>3 DEF Begin, Goto, Finish
<1>4. CASE Top
  BY <1>4 DEF Top, Finish
<1>5. CASE Launch
  BY <1>5 DEF Launch, Goto, Leaves, CurrentCleared
<1>6. CASE Publish
  BY <1>6 DEF Publish, Goto, PendingStop, FiresToken
<1>7. CASE CaptureLaunches
  BY <1>7 DEF CaptureLaunches, Goto, Leaves, CurrentCleared
<1>8. CASE StopSelf
  BY <1>8 DEF StopSelf, Goto, Leaves, CurrentCleared, KilledOnDrop
<1>9. CASE RunReturns \/ TeardownFails
  BY <1>9 DEF RunReturns, TeardownFails, Leaves, CurrentCleared, KilledOnDrop
<1>10. CASE WatchWins
  BY <1>10 DEF WatchWins, Leaves, CurrentCleared, KilledOnDrop
<1>11. CASE Ended
  BY <1>11 DEF Ended, Goto, Finish, StopNoticed, EndIsFinal
<1>12. CASE Gate
  BY <1>12 DEF Gate, Finish, Goto, BudgetSpent, GaveUp
<1>13. CASE StormEnds
  BY <1>13 DEF StormEnds, Interrupted, Finish, Goto
<1>14. CASE SleepEnds
  BY <1>14 DEF SleepEnds, Interrupted, Finish
<1>15. CASE Abort
  BY <1>15 DEF Abort, Awaits, CurrentCleared, KilledOnDrop
<1>16. CASE RequestStop
  BY <1>16 DEF RequestStop
<1>17. CASE FireStop
  BY <1>17 DEF FireStop
<1>18. CASE StopsChild
  BY <1>18 DEF StopsChild, FiresToken, KilledOnRelease
<1>19. CASE StopReturns
  BY <1>19 DEF StopReturns
<1>20. CASE DropSession
  BY <1>20 DEF DropSession, KilledOnRelease
<1>21. CASE UNCHANGED vars
  BY <1>21 DEF vars
<1> QED
  BY <1>1, <1>2, <1>3, <1>4, <1>5, <1>6, <1>7, <1>8, <1>9, <1>10, <1>11, <1>12,
     <1>13, <1>14, <1>15, <1>16, <1>17, <1>18, <1>19, <1>20, <1>21
     DEF Next, Task, Session, Rests

\* The restart counter moves only within the policy and the budget.
LEMMA BudgetStep == ASSUME TypeOK, BudgetInv, [Next]_vars PROVE BudgetInv'
<1> USE DEF ConfigSpace, TypeOK, ValuesOK, AttemptsOK, BudgetInv, MayRestart,
            Attempt, loop, session, handle, proc
<1>1. CASE UserCancels
  BY <1>1 DEF UserCancels
<1>2. CASE ChildExits
  BY <1>2 DEF ChildExits
<1>3. CASE Begin
  BY <1>3 DEF Begin, Goto, Finish
<1>4. CASE Top
  BY <1>4 DEF Top, Finish
<1>5. CASE Launch
  BY <1>5 DEF Launch, Goto, Leaves, CurrentCleared
<1>6. CASE Publish
  BY <1>6 DEF Publish, Goto, PendingStop, FiresToken
<1>7. CASE CaptureLaunches
  BY <1>7 DEF CaptureLaunches, Goto, Leaves, CurrentCleared
<1>8. CASE StopSelf
  BY <1>8 DEF StopSelf, Goto, Leaves, CurrentCleared, KilledOnDrop
<1>9. CASE RunReturns \/ TeardownFails
  BY <1>9 DEF RunReturns, TeardownFails, Leaves, CurrentCleared, KilledOnDrop
<1>10. CASE WatchWins
  BY <1>10 DEF WatchWins, Leaves, CurrentCleared, KilledOnDrop
<1>11. CASE Ended
  BY <1>11 DEF Ended, Goto, Finish, StopNoticed, WantsRestart
<1>12. CASE Gate
  BY <1>12 DEF Gate, Finish, Goto, BudgetSpent, GaveUp
<1>13. CASE StormEnds
  BY <1>13 DEF StormEnds, Interrupted, Finish, Goto
<1>14. CASE SleepEnds
  BY <1>14 DEF SleepEnds, Interrupted, Finish
<1>15. CASE Abort
  BY <1>15 DEF Abort, Awaits, CurrentCleared, KilledOnDrop
<1>16. CASE RequestStop
  BY <1>16 DEF RequestStop
<1>17. CASE FireStop
  BY <1>17 DEF FireStop
<1>18. CASE StopsChild
  BY <1>18 DEF StopsChild, FiresToken, KilledOnRelease
<1>19. CASE StopReturns
  BY <1>19 DEF StopReturns
<1>20. CASE DropSession
  BY <1>20 DEF DropSession, KilledOnRelease
<1>21. CASE UNCHANGED vars
  BY <1>21 DEF vars
<1> QED
  BY <1>1, <1>2, <1>3, <1>4, <1>5, <1>6, <1>7, <1>8, <1>9, <1>10, <1>11, <1>12,
     <1>13, <1>14, <1>15, <1>16, <1>17, <1>18, <1>19, <1>20, <1>21
     DEF Next, Task, Session, Rests

\* The initial states satisfy the invariant.
LEMMA IInvInit == Init => IInv
<1> SUFFICES ASSUME Init PROVE IInv
  OBVIOUS
<1> USE DEF Init, Attempt
<1>1. TypeOK
  BY DEF TypeOK, ValuesOK, AttemptsOK, LoopPc, StopPc, Ends, Stoppers
<1>2. StopInv /\ AttemptInv
  BY DEF StopInv, StopIsNotCancellation, AttemptInv
<1>3. LiveInv /\ StopsInv /\ LaunchInv
  BY DEF LiveInv, Between, StopsInv, StoppedOnce, LaunchInv
<1>4. BudgetInv
  BY DEF BudgetInv, MayRestart, ConfigSpace
<1> QED
  BY <1>1, <1>2, <1>3, <1>4 DEF IInv

\* IInv is an inductive invariant of every supervisor.
THEOREM Inductive == Spec => []IInv
<1>1. IInv /\ [Next]_vars => IInv'
  BY TypeStep, StopStep, AttemptStep, LiveStep, StopsStep, LaunchStep, BudgetStep DEF IInv
<1> QED
  BY IInvInit, <1>1, PTL DEF Spec

\* Types of the session state, the loop and the handle (supervisor.rs).
THEOREM TypeCorrect == Spec => []TypeOK
  BY Inductive, PTL DEF IInv

\* drive never runs two incarnations with private groups at a time, whoever holds
\* a stopper and whichever teardown fails.
THEOREM OneAtATimeCorrect == Spec => []OneAtATime
<1>1. IInv => OneAtATime
  BY DEF IInv, LiveInv, OneAtATime
<1> QED
  BY Inductive, <1>1, PTL

\* publish_current shows status() and stop() no incarnation but the one in hand.
THEOREM PublishedCorrect == Spec => []PublishedIsRunning
<1>1. IInv => PublishedIsRunning
  BY DEF IInv, AttemptInv, PublishedIsRunning, OwnsChild
<1> QED
  BY Inductive, <1>1, PTL

\* publish_current and request_stop never both stop a child.
THEOREM StoppedOnceCorrect == Spec => []StoppedOnce
<1>1. IInv => StoppedOnce
  BY DEF IInv, StopsInv
<1> QED
  BY Inductive, <1>1, PTL

\* stop() is never reported as the caller's cancellation.
THEOREM StopNotCancellation == Spec => []StopIsNotCancellation
<1>1. IInv => StopIsNotCancellation
  BY DEF IInv, StopInv
<1> QED
  BY Inductive, <1>1, PTL

\* At most one attempt begins after request_stop.
THEOREM LaunchCorrect == Spec => []OneMoreLaunchAtMost
<1>1. IInv => OneMoreLaunchAtMost
  BY DEF IInv, LaunchInv, OneMoreLaunchAtMost
<1> QED
  BY Inductive, <1>1, PTL

\* may_restart's refusal and the budget of gate_restart bound what drive begins.
THEOREM BudgetCorrect == Spec => [](OneShotFedOnce /\ WithinBudget)
<1>1. IInv => OneShotFedOnce /\ WithinBudget
  BY DEF IInv, TypeOK, ValuesOK, AttemptsOK, ConfigSpace, BudgetInv, OneShotFedOnce, WithinBudget, Attempt
<1> QED
  BY Inductive, <1>1, PTL

=============================================================================
