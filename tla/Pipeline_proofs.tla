--------------------------- MODULE Pipeline_proofs ---------------------------
(***************************************************************************)
(* What holds of chains of any length and any configuration: a verdict is  *)
(* only given of reaped stages, and the blame stays with whoever had been  *)
(* seen to fail, and latched so, when the teardown fired.                  *)
(***************************************************************************)
EXTENDS Pipeline, WellFoundedInduction, TLAPS

USE ChainAssumption

\* Where the tasks stand: a task that drains has reaped its stage; one that is
\* done has too, unless its teardown failed, and does not pass a cancelled run
\* for a result. Nobody latches a disposition before the reap but a failed
\* teardown.
TaskInv ==
  /\ \A i \in Stages :
       /\ task[i] \in {"none", "wait", "drain"} <=> res[i] = "none"
       /\ task[i] = "drain" => child[i] = "reaped" /\ disp[i] # "unobserved"
       /\ res[i] \in {"ok", "io", "cancelled"} => child[i] = "reaped" /\ disp[i] # "unobserved"
       /\ snap[i] => res[i] # "ok" /\ child[i] = "reaped" /\ token
       /\ child[i] # "reaped" => disp[i] = "unobserved" \/ res[i] = "teardown"
       /\ phase = "launch" => task[i] = "none" /\ child[i] # "reaped"
  /\ watcher # "off" => Session
  /\ watcher \in {"seen", "confirmed", "latched"} => child[Last] = "reaped"
  /\ Session /\ phase \in {"launch", "live"} => task[Last] = "none"
  /\ phase = "live" => Session

\* What the shared records say: the confirmed are reaped, a victim is latched
\* after the teardown fired only, and who was latched when it fired is none.
RecordInv ==
  /\ \A i \in Stages : disp[i] = "victim" => teardown
  /\ \A i \in confirmed : child[i] = "reaped"
  /\ \A i \in atFire : disp[i] = "culprit" /\ teardown

\* An error that was joined is held, and has fired the teardown; so has one of the
\* task that finish drives itself. A driver that settles has joined them all.
ErrorInv ==
  /\ \A i \in Stages :
       /\ task[i] = "joined" /\ res[i] # "ok" => err # "none" /\ teardown
       /\ Session /\ i = Last /\ task[i] = "done" /\ res[i] # "ok" => teardown
  /\ phase = "settle" => Gathered

\* How a stage ended; one that was killed and yet is no victim was killed by the
\* token, the deadline, the caller, or after its own teardown had failed.
KilledInv ==
  /\ phase = "launch" => ~TimedOut
  /\ \A i \in Stages :
       /\ child[i] \in {"none", "alive"} <=> end[i] = "none"
       /\ end[i] = "killed" /\ child[i] = "exited" /\ ~Over =>
            token \/ TimedOut \/ explicit \/ teardown
       /\ end[i] = "killed" /\ child[i] = "reaped" =>
            \/ snap[i] \/ TimedOut \/ explicit \/ disp[i] = "victim" \/ res[i] = "teardown"
            \/ disp[i] = "unobserved" /\ teardown

ResultInv ==
  /\ ~Over => result.kind = "none"
  /\ ReportedMeansReaped
  /\ ObservedFailureIsBlamed

ChainInv == TypeOK /\ TaskInv /\ RecordInv /\ ErrorInv /\ KilledInv /\ ResultInv

-----------------------------------------------------------------------------
\* The first of a set of places is one of them.
LEMMA MinIsIn == ASSUME NEW T \in SUBSET Nat, T # {} PROVE Min(T) \in T
<1> DEFINE R == {ss \in Nat \X Nat : ss[1] < ss[2]}
<1>1. IsWellFoundedOn(R, Nat)
  BY NatLessThanWellFounded DEF OpToRel
<1>2. \A x, y \in Nat : y < x => <<y, x>> \in R
  OBVIOUS
<1> HIDE DEF R
<1>3. PICK x \in T : \A y \in T : <<y, x>> \notin R
  BY <1>1, WFMin
<1>4. \A y \in T : x =< y
  <2> TAKE y \in T
  <2>1. x \in Nat /\ y \in Nat /\ <<y, x>> \notin R
    BY <1>3
  <2>2. ~ (y < x)
    BY <1>2, <2>1
  <2> QED
    BY <2>1, <2>2
<1> QED
  BY <1>4 DEF Min

\* A chain has a last stage, and its stages are places.
LEMMA Chain == ASSUME TypeOK
               PROVE  /\ conf.n \in Nat /\ conf \in ConfigSpace /\ Last \in Stages
                      /\ Stages \subseteq Places /\ Places \subseteq Nat
  BY DEF TypeOK, ConfigSpace, Last, Stages, Places

\* Firing is for ever, and is what sets whose exit it found observed.
LEMMA FireMoves ==
    ASSUME TypeOK, NEW b \in BOOLEAN, NEW c \in Causes, FireIf(b, c)
    PROVE  /\ teardown' \in BOOLEAN /\ cause' \in Causes \cup {"none"}
           /\ teardown' <=> teardown \/ b
           /\ atFire' \in {atFire, {i \in confirmed : disp[i] # "unobserved"}}
           /\ teardown \/ ~teardown' => atFire' = atFire
           /\ atFire' \subseteq Stages
  BY DEF TypeOK, FireIf, Fire, fireVars

\* The verdict is an answer, and blames a stage only in a fold.
LEMMA VerdictIs ==
    ASSUME TypeOK
    PROVE  /\ Blamed \in Stages /\ FinalError \in Errors \cup {"none"}
           /\ Verdict \in [kind : Kinds, blame : 0..N, cause : Causes \cup {"none"}]
           /\ Verdict.kind \in {"fold", "timedout"} \cup Errors
           /\ Verdict.kind = "fold" => Verdict.blame = Blamed /\ ~TimedOut /\ FinalError = "none"
<1>1. Blamed \in Stages
  <2> DEFINE failures == {i \in Stages : CheckedFailure(i)}
             genuine  == {i \in failures : end[i] # "sigpipe" /\ disp[i] # "victim"}
  <2>1. failures \in SUBSET Nat /\ genuine \in SUBSET Nat /\ Last \in Stages
    BY Chain
  <2>2. CASE genuine # {}
    BY <2>1, <2>2, MinIsIn DEF Blamed
  <2>3. CASE genuine = {} /\ failures # {}
    BY <2>1, <2>3, MinIsIn DEF Blamed
  <2>4. CASE genuine = {} /\ failures = {}
    BY <2>1, <2>4 DEF Blamed
  <2> QED
    BY <2>2, <2>3, <2>4
<1>2. FinalError \in Errors \cup {"none"}
  <2>1. res[Last] \in Errors \cup {"none", "ok"} /\ err \in Errors \cup {"none"}
    BY Chain DEF TypeOK
  <2> QED
    BY <2>1 DEF FinalError, Prefer
<1>3. Stages \subseteq 0..N
  BY Chain DEF Places
<1> QED
  BY <1>1, <1>2, <1>3 DEF Verdict, Result, Kinds, Errors


\* What is over stays as it is.
LEMMA OverStays == ASSUME TypeOK, Over, [Next]_vars PROVE UNCHANGED vars
<1> USE DEF Over
<1>1. ~LaunchStage
  BY DEF LaunchStage
<1>2. ~LaunchFails
  BY DEF LaunchFails
<1>3. ~Begin
  BY DEF Begin
<1>4. ASSUME NEW i \in Stages, ChildExits(i) PROVE FALSE
  BY <1>4 DEF ChildExits
<1>5. ASSUME NEW i \in Stages, CancelStage(i) PROVE FALSE
  BY <1>5 DEF CancelStage
<1>6. ~FireToken
  BY DEF FireToken
<1>7. ASSUME NEW i \in Stages, Observe(i) PROVE FALSE
  BY <1>7 DEF Observe
<1>8. ASSUME NEW i \in Stages, Drained(i) PROVE FALSE
  BY <1>8 DEF Drained
<1>9. ASSUME NEW i \in Stages, CancelFails(i) PROVE FALSE
  BY <1>9 DEF CancelFails
<1>10. ASSUME NEW i \in Stages, Join(i) PROVE FALSE
  BY <1>10 DEF Join
<1>11. ~WatchProbe
  BY DEF WatchProbe
<1>12. ~WatchConfirms /\ ~WatchLatches /\ ~WatchFires
  BY DEF WatchConfirms, WatchLatches, WatchFires
<1>13. ~Borrow
  BY DEF Borrow
<1>14. ~PutBack
  BY DEF PutBack
<1>15. ~KillerKills
  BY DEF KillerKills
<1>16. ~KillerConfirms
  BY DEF KillerConfirms
<1>17. ~Expire
  BY DEF Expire
<1>18. ~DeadlineKills
  BY DEF DeadlineKills
<1>19. ~DeadlineConfirms
  BY DEF DeadlineConfirms
<1>20. ~Settle
  BY DEF Settle
<1>21. ~SettleEnds
  BY DEF SettleEnds
<1>22. ~GiveUp
  BY DEF GiveUp
<1>23. ~StartKill
  BY DEF StartKill
<1>24. ~Finish
  BY DEF Finish
<1>25. ~Dropped
  BY DEF Dropped
<1> QED
  BY <1>1, <1>2, <1>3, <1>4, <1>5, <1>6, <1>7, <1>8, <1>9, <1>10, <1>11, <1>12, <1>13, <1>14, <1>15, <1>16, <1>17, <1>18, <1>19, <1>20, <1>21, <1>22, <1>23, <1>24, <1>25 DEF Next

\* Every variable keeps to its values.
LEMMA TypeStep == ASSUME TypeOK, [Next]_vars PROVE TypeOK'
<1> USE DEF TypeOK, Causes, Ends, Errors, Kinds, Stages, Last, TimedOut, Session, stageVars, fireVars, termVars, bgVars, endVars
<1>1. CASE LaunchStage
  <2>1. Unstarted \subseteq Places /\ Unstarted \subseteq Nat
    BY Chain DEF Unstarted
  <2>2. Min(Unstarted) \in Places
    BY <1>1, <2>1, MinIsIn DEF LaunchStage
  <2> QED
    BY <1>1, <2>2, Chain DEF LaunchStage
<1>2. CASE LaunchFails
  BY <1>2, Chain DEF LaunchFails, Return, Fan, Result
<1>3. CASE Begin
  BY <1>3, Chain DEF Begin
<1>4. ASSUME NEW i \in Stages, ChildExits(i) PROVE TypeOK'
  BY <1>4, Chain DEF ChildExits
<1>5. ASSUME NEW i \in Stages, CancelStage(i) PROVE TypeOK'
  BY <1>5, Chain DEF CancelStage
<1>6. CASE FireToken
  BY <1>6, Chain DEF FireToken
<1>7. ASSUME NEW i \in Stages, Observe(i) PROVE TypeOK'
  BY <1>7, Chain DEF Observe, Latch
<1>8. ASSUME NEW i \in Stages, Drained(i) PROVE TypeOK'
  <2>1. PICK r \in {"ok", "io", "cancelled"} : TaskEnds(i, r, disp[i] = "victim")
    BY <1>8 DEF Drained
  <2>2. /\ teardown' \in BOOLEAN /\ cause' \in Causes \cup {"none"} /\ atFire' \subseteq Stages
        /\ task' = [task EXCEPT ![i] = "done"] /\ res' = [res EXCEPT ![i] = r]
    BY <2>1, FireMoves DEF TaskEnds, Fires, ErrorCause
  <2> QED
    BY <1>8, <2>2, Chain DEF Drained
<1>9. ASSUME NEW i \in Stages, CancelFails(i) PROVE TypeOK'
  <2>1. /\ teardown' \in BOOLEAN /\ cause' \in Causes \cup {"none"} /\ atFire' \subseteq Stages
        /\ task' = [task EXCEPT ![i] = "done"] /\ res' = [res EXCEPT ![i] = "teardown"]
    BY <1>9, FireMoves DEF CancelFails, TaskEnds, Fires, ErrorCause
  <2>2. disp' \in [Places -> {"unobserved", "culprit", "victim"}]
    BY <1>9 DEF CancelFails, Latch
  <2>3. termFail' \in {termFail, "Cancellation"}
    BY <1>9 DEF CancelFails
  <2>4. UNCHANGED <<conf, token, failure, err, explicit, child, end, snap, confirmed, bgVars, endVars>>
    BY <1>9 DEF CancelFails
  <2>5. confirmed' \subseteq Stages' /\ atFire' \subseteq Stages'
    BY <2>1, <2>4
  <2>6. /\ task' \in [Places -> {"none", "wait", "drain", "done", "joined"}]
        /\ res' \in [Places -> Errors \cup {"none", "ok"}]
    BY <2>1
  <2>7. {cause, termFail, failure}' \subseteq Causes \cup {"none"}
    BY <2>1, <2>3, <2>4
  <2> QED
    BY <2>1, <2>2, <2>4, <2>5, <2>6, <2>7
<1>10. ASSUME NEW i \in Stages, Join(i) PROVE TypeOK'
  <2>1. teardown' \in BOOLEAN /\ cause' \in Causes \cup {"none"} /\ atFire' \subseteq Stages
    BY <1>10, FireMoves DEF Join, ErrorCause
  <2>2. err' \in Errors \cup {"none"}
    BY <1>10, Chain DEF Join, Prefer
  <2> QED
    BY <1>10, <2>1, <2>2, Chain DEF Join
<1>11. CASE WatchProbe
  BY <1>11, Chain DEF WatchProbe
<1>12. CASE WatchConfirms
  <2>1. confirmed' = confirmed \cup {Last} /\ conf' = conf /\ watcher' = "confirmed"
    BY <1>12 DEF WatchConfirms
  <2>2. confirmed' \subseteq Stages'
    BY <2>1, Chain
  <2> QED
    BY <1>12, <2>1, <2>2 DEF WatchConfirms
<1>27. CASE WatchLatches
  BY <1>27, Chain DEF WatchLatches, Latch
<1>28. CASE WatchFires
  <2>1. teardown' \in BOOLEAN /\ cause' \in Causes \cup {"none"} /\ atFire' \subseteq Stages
    BY <1>28, FireMoves DEF WatchFires
  <2> QED
    BY <1>28, <2>1, Chain DEF WatchFires
<1>13. CASE Borrow
  BY <1>13, Chain DEF Borrow
<1>14. CASE PutBack
  BY <1>14, Chain DEF PutBack
<1>15. CASE KillerKills
  BY <1>15, Chain DEF KillerKills, Fan, Record, Latched
<1>16. CASE KillerConfirms
  BY <1>16, Chain DEF KillerConfirms, Confirms, Record, Latched
<1>17. CASE Expire
  BY <1>17, Chain DEF Expire
<1>18. CASE DeadlineKills
  BY <1>18, Chain DEF DeadlineKills, Fan, Record, Latched, Return, Result
<1>19. CASE DeadlineConfirms
  BY <1>19, Chain DEF DeadlineConfirms, Confirms, Record, Latched, Return, Fan, Result
<1>20. CASE Settle
  <2>1. result' \in [kind : Kinds, blame : 0..N, cause : Causes \cup {"none"}]
    BY <1>20, VerdictIs DEF Settle, Answer, Return, Result
  <2>2. /\ child' \in [Places -> {"none", "alive", "exited", "reaped"}]
        /\ end' \in [Places -> Ends \cup {"none"}]
    BY <1>20 DEF Settle, Answer, Return, Fan
  <2> QED
    BY <1>20, <2>1, <2>2, Chain DEF Settle, Answer, Return
<1>21. CASE SettleEnds
  <2>1. failure' \in Causes \cup {"none"}
    BY <1>21 DEF SettleEnds, Confirms, Record, Latched
  <2>2. result' \in [kind : Kinds, blame : 0..N, cause : Causes \cup {"none"}]
    BY <1>21, <2>1, VerdictIs DEF SettleEnds, Return, Result
  <2>3. /\ child' \in [Places -> {"none", "alive", "exited", "reaped"}]
        /\ end' \in [Places -> Ends \cup {"none"}]
    BY <1>21 DEF SettleEnds, Return, Fan
  <2> QED
    BY <1>21, <2>1, <2>2, <2>3, Chain DEF SettleEnds, Return
<1>22. CASE GiveUp
  BY <1>22, Chain DEF GiveUp, Return, Fan, Result
<1>23. CASE StartKill
  BY <1>23, Chain DEF StartKill, Fan, Record
<1>24. CASE Finish
  BY <1>24, Chain DEF Finish
<1>25. CASE Dropped
  BY <1>25, Chain DEF Dropped, Return, Fan, Result
<1>26. CASE UNCHANGED vars
  BY <1>26, Chain DEF vars
<1> QED
  BY <1>1, <1>2, <1>3, <1>4, <1>5, <1>6, <1>7, <1>8, <1>9, <1>10, <1>11, <1>12, <1>13, <1>14, <1>15, <1>16, <1>17, <1>18, <1>19, <1>20, <1>21, <1>22, <1>23, <1>24, <1>25, <1>26, <1>27, <1>28 DEF Next

\* Tasks observe before they answer.
LEMMA TaskStep == ASSUME TypeOK, TaskInv, [Next]_vars PROVE TaskInv'
<1> USE DEF TypeOK, TaskInv, Session, Over, Exited, Stages, Last, stageVars, fireVars, termVars, bgVars, endVars
<1>1. CASE LaunchStage
  BY <1>1, Chain DEF LaunchStage
<1>2. CASE LaunchFails
  BY <1>2, Chain DEF LaunchFails, Return, Fan, Result
<1>3. CASE Begin
  BY <1>3, Chain DEF Begin
<1>4. ASSUME NEW i \in Stages, ChildExits(i) PROVE TaskInv'
  BY <1>4, Chain DEF ChildExits
<1>5. ASSUME NEW i \in Stages, CancelStage(i) PROVE TaskInv'
  BY <1>5, Chain DEF CancelStage
<1>6. CASE FireToken
  BY <1>6, Chain DEF FireToken
<1>7. ASSUME NEW i \in Stages, Observe(i) PROVE TaskInv'
  BY <1>7, Chain DEF Observe, Latch
<1>8. ASSUME NEW i \in Stages, Drained(i) PROVE TaskInv'
  BY <1>8, Chain DEF Drained, TaskEnds, FireIf, Fire, Fires, ErrorCause
<1>9. ASSUME NEW i \in Stages, CancelFails(i) PROVE TaskInv'
  BY <1>9, Chain DEF CancelFails, Latch, TaskEnds, FireIf, Fire, Fires, ErrorCause
<1>10. ASSUME NEW i \in Stages, Join(i) PROVE TaskInv'
  BY <1>10, Chain DEF Join, FireIf, Fire, ErrorCause, Prefer
<1>11. CASE WatchProbe
  BY <1>11, Chain DEF WatchProbe
<1>12. CASE WatchConfirms
  BY <1>12, Chain DEF WatchConfirms
<1>27. CASE WatchLatches
  BY <1>27, Chain DEF WatchLatches, Latch
<1>28. CASE WatchFires
  BY <1>28, Chain DEF WatchFires, FireIf, Fire
<1>13. CASE Borrow
  BY <1>13, Chain DEF Borrow
<1>14. CASE PutBack
  BY <1>14, Chain DEF PutBack
<1>15. CASE KillerKills
  BY <1>15, Chain DEF KillerKills, Fan, Record, Latched
<1>16. CASE KillerConfirms
  BY <1>16, Chain DEF KillerConfirms, Confirms, Record, Latched
<1>17. CASE Expire
  BY <1>17, Chain DEF Expire
<1>18. CASE DeadlineKills
  BY <1>18, Chain DEF DeadlineKills, Fan, Record, Latched, Return, Result
<1>19. CASE DeadlineConfirms
  BY <1>19, Chain DEF DeadlineConfirms, Confirms, Record, Latched, Return, Fan, Result
<1>20. CASE Settle
  BY <1>20, Chain DEF Settle, Answer, Return, Fan, Result
<1>21. CASE SettleEnds
  BY <1>21, Chain DEF SettleEnds, Confirms, Record, Latched, Return, Fan, Result
<1>22. CASE GiveUp
  BY <1>22, Chain DEF GiveUp, Return, Fan, Result
<1>23. CASE StartKill
  BY <1>23, Chain DEF StartKill, Fan, Record
<1>24. CASE Finish
  <2>1. task[Last] = "none" /\ Last \in Stages /\ UNCHANGED <<conf, token, child, snap, disp, res>>
    BY <1>24, Chain DEF Finish
  <2>2. task' = [task EXCEPT ![Last] = "wait"] /\ phase' = "gather" /\ watcher' \in {watcher, "done"}
    BY <1>24 DEF Finish
  <2>3. Session
    BY <1>24 DEF Finish
  <2> QED
    BY <2>1, <2>2, <2>3, Chain
<1>25. CASE Dropped
  BY <1>25, Chain DEF Dropped, Return, Fan, Result
<1>26. CASE UNCHANGED vars
  BY <1>26, Chain DEF vars
<1> QED
  BY <1>1, <1>2, <1>3, <1>4, <1>5, <1>6, <1>7, <1>8, <1>9, <1>10, <1>11, <1>12, <1>13, <1>14, <1>15, <1>16, <1>17, <1>18, <1>19, <1>20, <1>21, <1>22, <1>23, <1>24, <1>25, <1>26, <1>27, <1>28 DEF Next

\* Firing finds no victim among those who were latched.
LEMMA FireRecords ==
    ASSUME TypeOK, RecordInv, NEW b \in BOOLEAN, NEW c \in Causes, FireIf(b, c),
           UNCHANGED <<conf, child, disp, confirmed>>
    PROVE  RecordInv'
<1>1. CASE b /\ ~teardown
  <2>1. teardown' /\ atFire' = {i \in confirmed : disp[i] # "unobserved"}
    BY <1>1 DEF FireIf, Fire
  <2>2. \A i \in confirmed : i \in Places /\ disp[i] # "victim"
    BY <1>1, Chain DEF TypeOK, RecordInv
  <2>3. \A i \in atFire' : disp[i] = "culprit"
    BY <2>1, <2>2 DEF TypeOK
  <2> QED
    BY <2>1, <2>3 DEF RecordInv, Stages
<1>2. CASE ~b \/ teardown
  <2>1. teardown' = teardown /\ atFire' = atFire
    BY <1>2, FireMoves DEF FireIf, fireVars, TypeOK
  <2> QED
    BY <2>1 DEF RecordInv, Stages
<1> QED
  BY <1>1, <1>2

\* The records stay true.
LEMMA RecordStep == ASSUME TypeOK, TaskInv, RecordInv, [Next]_vars PROVE RecordInv'
<1> USE DEF TypeOK, TaskInv, RecordInv, Session, Over, Stages, Last, stageVars, fireVars, termVars, bgVars, endVars
<1>1. CASE LaunchStage
  BY <1>1, Chain DEF LaunchStage
<1>2. CASE LaunchFails
  BY <1>2, Chain DEF LaunchFails, Return, Fan, Result
<1>3. CASE Begin
  BY <1>3, Chain DEF Begin
<1>4. ASSUME NEW i \in Stages, ChildExits(i) PROVE RecordInv'
  BY <1>4, Chain DEF ChildExits
<1>5. ASSUME NEW i \in Stages, CancelStage(i) PROVE RecordInv'
  BY <1>5, Chain DEF CancelStage
<1>6. CASE FireToken
  BY <1>6, Chain DEF FireToken
<1>7. ASSUME NEW i \in Stages, Observe(i) PROVE RecordInv'
  BY <1>7, Chain DEF Observe, Latch
<1>8. ASSUME NEW i \in Stages, Drained(i) PROVE RecordInv'
  <2>1. \E b \in BOOLEAN, c \in Causes : FireIf(b, c)
    BY <1>8 DEF Drained, TaskEnds, Fires, ErrorCause, Causes, CheckedFailure
  <2> QED
    BY <1>8, <2>1, FireRecords DEF Drained
<1>9. ASSUME NEW i \in Stages, CancelFails(i) PROVE RecordInv'
  <2>1. teardown => teardown' /\ atFire' = atFire
    BY <1>9, FireMoves DEF CancelFails, TaskEnds, Fires, ErrorCause, Errors, Causes
  <2>2. /\ atFire' \in {atFire, {j \in confirmed : disp[j] # "unobserved"}}
        /\ (atFire' # atFire => teardown')
    BY <1>9, FireMoves DEF CancelFails, TaskEnds, Fires, ErrorCause, Errors, Causes
  <2>3. disp'[i] = "victim" => teardown \/ disp[i] = "victim"
    BY <1>9 DEF CancelFails, Latch
  <2>4. \A j \in Stages : disp[j] # "unobserved" => disp'[j] = disp[j]
    BY <1>9 DEF CancelFails, Latch
  <2>5. \A j \in Stages : j # i => disp'[j] = disp[j]
    BY <1>9 DEF CancelFails, Latch
  <2> QED
    BY <1>9, <2>1, <2>2, <2>3, <2>4, <2>5, Chain DEF CancelFails
<1>10. ASSUME NEW i \in Stages, Join(i) PROVE RecordInv'
  <2>1. \E b \in BOOLEAN, c \in Causes : FireIf(b, c)
    BY <1>10 DEF Join, ErrorCause, Causes
  <2> QED
    BY <1>10, <2>1, FireRecords DEF Join
<1>11. CASE WatchProbe
  BY <1>11, Chain DEF WatchProbe
<1>12. CASE WatchConfirms
  BY <1>12, Chain DEF WatchConfirms
<1>27. CASE WatchLatches
  BY <1>27, Chain DEF WatchLatches, Latch
<1>28. CASE WatchFires
  <2>1. \E b \in BOOLEAN, c \in Causes : FireIf(b, c)
    BY <1>28 DEF WatchFires, Causes, CheckedFailure
  <2> QED
    BY <1>28, <2>1, FireRecords DEF WatchFires
<1>13. CASE Borrow
  BY <1>13, Chain DEF Borrow
<1>14. CASE PutBack
  BY <1>14, Chain DEF PutBack
<1>15. CASE KillerKills
  BY <1>15, Chain DEF KillerKills, Fan, Record, Latched
<1>16. CASE KillerConfirms
  BY <1>16, Chain DEF KillerConfirms, Confirms, Record, Latched
<1>17. CASE Expire
  BY <1>17, Chain DEF Expire
<1>18. CASE DeadlineKills
  BY <1>18, Chain DEF DeadlineKills, Fan, Record, Latched, Return, Result
<1>19. CASE DeadlineConfirms
  BY <1>19, Chain DEF DeadlineConfirms, Confirms, Record, Latched, Return, Fan, Result
<1>20. CASE Settle
  BY <1>20, Chain DEF Settle, Answer, Return, Fan, Result
<1>21. CASE SettleEnds
  BY <1>21, Chain DEF SettleEnds, Confirms, Record, Latched, Return, Fan, Result
<1>22. CASE GiveUp
  BY <1>22, Chain DEF GiveUp, Return, Fan, Result
<1>23. CASE StartKill
  BY <1>23, Chain DEF StartKill, Fan, Record
<1>24. CASE Finish
  BY <1>24, Chain DEF Finish
<1>25. CASE Dropped
  BY <1>25, Chain DEF Dropped, Return, Fan, Result
<1>26. CASE UNCHANGED vars
  BY <1>26, Chain DEF vars
<1> QED
  BY <1>1, <1>2, <1>3, <1>4, <1>5, <1>6, <1>7, <1>8, <1>9, <1>10, <1>11, <1>12, <1>13, <1>14, <1>15, <1>16, <1>17, <1>18, <1>19, <1>20, <1>21, <1>22, <1>23, <1>24, <1>25, <1>26, <1>27, <1>28 DEF Next

\* No error is forgotten.
LEMMA ErrorStep == ASSUME TypeOK, TaskInv, RecordInv, ErrorInv, [Next]_vars PROVE ErrorInv'
<1> USE DEF TypeOK, TaskInv, RecordInv, ErrorInv, Session, Over, Stages, Last, Errors, Gathered, stageVars, fireVars, termVars, bgVars, endVars
<1>1. CASE LaunchStage
  BY <1>1, Chain DEF LaunchStage
<1>2. CASE LaunchFails
  BY <1>2, Chain DEF LaunchFails, Return, Fan, Result
<1>3. CASE Begin
  BY <1>3, Chain DEF Begin
<1>4. ASSUME NEW i \in Stages, ChildExits(i) PROVE ErrorInv'
  BY <1>4, Chain DEF ChildExits
<1>5. ASSUME NEW i \in Stages, CancelStage(i) PROVE ErrorInv'
  BY <1>5, Chain DEF CancelStage
<1>6. CASE FireToken
  BY <1>6, Chain DEF FireToken
<1>7. ASSUME NEW i \in Stages, Observe(i) PROVE ErrorInv'
  BY <1>7, Chain DEF Observe, Latch
<1>8. ASSUME NEW i \in Stages, Drained(i) PROVE ErrorInv'
  BY <1>8, Chain DEF Drained, TaskEnds, FireIf, Fire, Fires, ErrorCause
<1>9. ASSUME NEW i \in Stages, CancelFails(i) PROVE ErrorInv'
  BY <1>9, Chain DEF CancelFails, Latch, TaskEnds, FireIf, Fire, Fires, ErrorCause
<1>10. ASSUME NEW i \in Stages, Join(i) PROVE ErrorInv'
  BY <1>10, Chain DEF Join, FireIf, Fire, ErrorCause, Prefer
<1>11. CASE WatchProbe
  BY <1>11, Chain DEF WatchProbe
<1>12. CASE WatchConfirms
  BY <1>12, Chain DEF WatchConfirms
<1>27. CASE WatchLatches
  BY <1>27, Chain DEF WatchLatches, Latch
<1>28. CASE WatchFires
  BY <1>28, Chain DEF WatchFires, FireIf, Fire
<1>13. CASE Borrow
  BY <1>13, Chain DEF Borrow
<1>14. CASE PutBack
  BY <1>14, Chain DEF PutBack
<1>15. CASE KillerKills
  BY <1>15, Chain DEF KillerKills, Fan, Record, Latched
<1>16. CASE KillerConfirms
  BY <1>16, Chain DEF KillerConfirms, Confirms, Record, Latched
<1>17. CASE Expire
  BY <1>17, Chain DEF Expire
<1>18. CASE DeadlineKills
  BY <1>18, Chain DEF DeadlineKills, Fan, Record, Latched, Return, Result
<1>19. CASE DeadlineConfirms
  BY <1>19, Chain DEF DeadlineConfirms, Confirms, Record, Latched, Return, Fan, Result
<1>20. CASE Settle
  BY <1>20, Chain DEF Settle, Answer, Return, Fan, Result
<1>21. CASE SettleEnds
  BY <1>21, Chain DEF SettleEnds, Confirms, Record, Latched, Return, Fan, Result
<1>22. CASE GiveUp
  BY <1>22, Chain DEF GiveUp, Return, Fan, Result
<1>23. CASE StartKill
  BY <1>23, Chain DEF StartKill, Fan, Record
<1>24. CASE Finish
  BY <1>24, Chain DEF Finish
<1>25. CASE Dropped
  BY <1>25, Chain DEF Dropped, Return, Fan, Result
<1>26. CASE UNCHANGED vars
  BY <1>26, Chain DEF vars
<1> QED
  BY <1>1, <1>2, <1>3, <1>4, <1>5, <1>6, <1>7, <1>8, <1>9, <1>10, <1>11, <1>12, <1>13, <1>14, <1>15, <1>16, <1>17, <1>18, <1>19, <1>20, <1>21, <1>22, <1>23, <1>24, <1>25, <1>26, <1>27, <1>28 DEF Next

\* Who is killed is a victim, or has a reason.
LEMMA KilledStep == ASSUME TypeOK, TaskInv, RecordInv, KilledInv, [Next]_vars PROVE KilledInv'
<1> USE DEF TypeOK, TaskInv, RecordInv, KilledInv, Session, Over, Exited, TimedOut, Stages, Last, Ends, stageVars, fireVars, termVars, bgVars, endVars
<1>1. CASE LaunchStage
  <2>1. Unstarted \subseteq Places /\ Unstarted \subseteq Nat
    BY Chain DEF Unstarted
  <2>2. Min(Unstarted) \in Unstarted
    BY <1>1, <2>1, MinIsIn DEF LaunchStage
  <2> QED
    BY <1>1, <2>2, Chain DEF LaunchStage, Unstarted
<1>2. CASE LaunchFails
  BY <1>2, Chain DEF LaunchFails, Return, Fan, Result
<1>3. CASE Begin
  BY <1>3, Chain DEF Begin
<1>4. ASSUME NEW i \in Stages, ChildExits(i) PROVE KilledInv'
  BY <1>4, Chain DEF ChildExits
<1>5. ASSUME NEW i \in Stages, CancelStage(i) PROVE KilledInv'
  BY <1>5, Chain DEF CancelStage
<1>6. CASE FireToken
  BY <1>6, Chain DEF FireToken
<1>7. ASSUME NEW i \in Stages, Observe(i) PROVE KilledInv'
  BY <1>7, Chain DEF Observe, Latch
<1>8. ASSUME NEW i \in Stages, Drained(i) PROVE KilledInv'
  BY <1>8, Chain DEF Drained, TaskEnds, FireIf, Fire, Fires, ErrorCause
<1>9. ASSUME NEW i \in Stages, CancelFails(i) PROVE KilledInv'
  BY <1>9, Chain DEF CancelFails, Latch, TaskEnds, FireIf, Fire, Fires, ErrorCause
<1>10. ASSUME NEW i \in Stages, Join(i) PROVE KilledInv'
  BY <1>10, Chain DEF Join, FireIf, Fire, ErrorCause, Prefer
<1>11. CASE WatchProbe
  <2>1. /\ child[Last] = "exited" \/ child[Last] = "reaped"
        /\ child' = [child EXCEPT ![Last] = "reaped"]
        /\ snap' = [snap EXCEPT ![Last] = token]
        /\ UNCHANGED <<conf, token, explicit, end, disp, res, teardown, deadline, phase>>
    BY <1>11 DEF WatchProbe
  <2>2. phase # "launch" /\ ~Over
    BY <1>11 DEF WatchProbe
  <2> QED
    BY <2>1, <2>2, Chain
<1>12. CASE WatchConfirms
  BY <1>12, Chain DEF WatchConfirms
<1>27. CASE WatchLatches
  BY <1>27, Chain DEF WatchLatches, Latch
<1>28. CASE WatchFires
  BY <1>28, Chain DEF WatchFires, FireIf, Fire
<1>13. CASE Borrow
  BY <1>13, Chain DEF Borrow
<1>14. CASE PutBack
  BY <1>14, Chain DEF PutBack
<1>15. CASE KillerKills
  BY <1>15, Chain DEF KillerKills, Fan, Record, Latched
<1>16. CASE KillerConfirms
  BY <1>16, Chain DEF KillerConfirms, Confirms, Record, Latched
<1>17. CASE Expire
  BY <1>17, Chain DEF Expire
<1>18. CASE DeadlineKills
  BY <1>18, Chain DEF DeadlineKills, Fan, Record, Latched, Return, Result
<1>19. CASE DeadlineConfirms
  BY <1>19, Chain DEF DeadlineConfirms, Confirms, Record, Latched, Return, Fan, Result
<1>20. CASE Settle
  BY <1>20, Chain DEF Settle, Answer, Return, Fan, Result
<1>21. CASE SettleEnds
  BY <1>21, Chain DEF SettleEnds, Confirms, Record, Latched, Return, Fan, Result
<1>22. CASE GiveUp
  BY <1>22, Chain DEF GiveUp, Return, Fan, Result
<1>23. CASE StartKill
  BY <1>23, Chain DEF StartKill, Fan, Record
<1>24. CASE Finish
  BY <1>24, Chain DEF Finish
<1>25. CASE Dropped
  BY <1>25, Chain DEF Dropped, Return, Fan, Result
<1>26. CASE UNCHANGED vars
  BY <1>26, Chain DEF vars
<1> QED
  BY <1>1, <1>2, <1>3, <1>4, <1>5, <1>6, <1>7, <1>8, <1>9, <1>10, <1>11, <1>12, <1>13, <1>14, <1>15, <1>16, <1>17, <1>18, <1>19, <1>20, <1>21, <1>22, <1>23, <1>24, <1>25, <1>26, <1>27, <1>28 DEF Next

-----------------------------------------------------------------------------
\* A verdict of tasks that were all joined, and owe no confirmation, is one of
\* reaped stages.
LEMMA GatheredAreReaped ==
    ASSUME TypeOK, TaskInv, RecordInv, ErrorInv, Gathered, ~teardown \/ AllConfirmed
    PROVE  \A i \in Stages : child[i] = "reaped"
<1>1. CASE AllConfirmed
  BY <1>1 DEF AllConfirmed, RecordInv
<1>2. CASE ~teardown
  <2> TAKE i \in Stages
  <2>1. res[i] = "ok"
    <3>1. task[i] = "joined" \/ (Session /\ i = Last /\ task[i] = "done")
      BY DEF Gathered
    <3> QED
      BY <1>2, <3>1 DEF ErrorInv
  <2> QED
    BY <2>1 DEF TaskInv
<1> QED
  BY <1>1, <1>2

\* A fold leaves no task's error out.
LEMMA FoldMeansOk ==
    ASSUME TypeOK, TaskInv, ErrorInv, Gathered, FinalError = "none"
    PROVE  \A i \in Stages : res[i] = "ok"
<1>1. err = "none" /\ (Session => res[Last] = "ok")
  <2>1. res[Last] # "none"
    <3>1. task[Last] \in {"done", "joined"} /\ Last \in Stages
      BY Chain DEF Gathered
    <3> QED
      BY <3>1 DEF TaskInv
  <2>2. CASE ~Session \/ res[Last] = "ok"
    BY <2>2 DEF FinalError
  <2>3. CASE Session /\ res[Last] # "ok"
    BY <2>1, <2>3 DEF FinalError, Prefer
  <2> QED
    BY <2>2, <2>3
<1> QED
  BY <1>1 DEF Gathered, ErrorInv

\* A fold blames a stage that failed by itself, if one was seen to fail when the
\* teardown fired.
LEMMA FoldBlames ==
    ASSUME TypeOK, TaskInv, RecordInv, KilledInv, ~explicit, ~TimedOut,
           \A i \in Stages : child[i] = "reaped" /\ res[i] = "ok",
           NEW i \in atFire, end[i] = "fail", CheckedFailure(i)
    PROVE  end[Blamed] = "fail"
<1> DEFINE failures == {j \in Stages : CheckedFailure(j)}
           genuine  == {j \in failures : end[j] # "sigpipe" /\ disp[j] # "victim"}
<1>1. i \in genuine
  BY DEF TypeOK, RecordInv
<1>2. genuine \in SUBSET Nat
  BY Chain
<1>3. Blamed \in genuine
  BY <1>1, <1>2, MinIsIn DEF Blamed
<1>4. PICK m \in genuine : m = Blamed
  BY <1>3
<1>5. /\ m \in Stages /\ m \in Places
      /\ end[m] \notin {"clean", "sigpipe"} /\ disp[m] # "victim"
  BY <1>4, Chain DEF CheckedFailure
<1>6. disp[m] # "unobserved" /\ ~snap[m] /\ child[m] = "reaped" /\ res[m] = "ok"
  BY <1>5 DEF TaskInv
<1>7. end[m] \notin {"killed", "none"}
  BY <1>5, <1>6 DEF KilledInv
<1> QED
  BY <1>4, <1>5, <1>7 DEF TypeOK, Ends

\* A return with the verdict keeps the properties.
LEMMA Verdicts ==
    ASSUME ChainInv, Gathered, ~teardown \/ AllConfirmed, Return(Verdict),
           UNCHANGED <<conf, disp, atFire, explicit>>
    PROVE  ResultInv'
<1> USE DEF ChainInv
<1>1. \A i \in Stages : child[i] = "reaped"
  BY GatheredAreReaped
<1>2. /\ Stages' = Stages /\ \A i \in Stages : i \in Places
      /\ \A i \in Stages : child'[i] = "reaped" /\ end'[i] = end[i]
  BY <1>1, Chain DEF Return, Fan, Stages, TypeOK
<1>3. ReportedMeansReaped'
  BY <1>2 DEF ReportedMeansReaped
<1>4. ObservedFailureIsBlamed'
  <2> SUFFICES ASSUME result'.kind = "fold", ~explicit',
                      NEW i \in atFire', end'[i] = "fail", CheckedFailure(i)'
               PROVE  end'[result'.blame] = "fail"
    BY DEF ObservedFailureIsBlamed
  <2>1. i \in atFire /\ i \in Stages /\ end[i] = "fail" /\ CheckedFailure(i) /\ ~explicit
    BY <1>2 DEF CheckedFailure, TypeOK
  <2>2. result'.blame = Blamed /\ ~TimedOut /\ FinalError = "none" /\ Blamed \in Stages
    BY VerdictIs DEF Return
  <2>3. \A j \in Stages : res[j] = "ok"
    BY <2>2, FoldMeansOk
  <2>4. end[Blamed] = "fail"
    BY <1>1, <2>1, <2>2, <2>3, FoldBlames
  <2> QED
    BY <1>2, <2>2, <2>4
<1> QED
  BY <1>3, <1>4 DEF ResultInv, Return, Over

\* A return that reports no stage's end is no concern of the properties.
LEMMA OtherReturns ==
    ASSUME NEW k \in {"launch", "dropped", "teardown"}, NEW c, Return(Result(k, 0, c))
    PROVE  ResultInv'
  BY DEF ResultInv, ReportedMeansReaped, ObservedFailureIsBlamed, Return, Result, Over

\* What is reported is reported justly.
LEMMA ResultStep == ASSUME ChainInv, [Next]_vars PROVE ResultInv'
<1> USE DEF ChainInv
<1>1. CASE Over
  <2>1. UNCHANGED vars
    BY <1>1, OverStays
  <2> QED
    BY <2>1 DEF vars, stageVars, fireVars, termVars, bgVars, endVars, ResultInv, Over, Stages,
                ReportedMeansReaped, ObservedFailureIsBlamed, CheckedFailure
<1>2. CASE Settle
  <2>1. UNCHANGED <<conf, disp, atFire, explicit>>
    BY <1>2 DEF Settle, fireVars
  <2>2. CASE Unsettled /\ failure = "none"
    BY <1>2, <2>2 DEF Settle, ResultInv, ReportedMeansReaped, ObservedFailureIsBlamed, Over
  <2>3. CASE failure # "none"
    BY <1>2, <2>3, OtherReturns DEF Settle, Answer
  <2>4. CASE ~Unsettled /\ failure = "none"
    BY <1>2, <2>1, <2>4, Verdicts DEF Settle, Answer, Unsettled
  <2> QED
    BY <2>2, <2>3, <2>4
<1>3. CASE SettleEnds
  <2>1. UNCHANGED <<conf, disp, atFire, explicit>>
    BY <1>3 DEF SettleEnds, fireVars
  <2>2. CASE failure' # "none"
    BY <1>3, <2>2, OtherReturns DEF SettleEnds
  <2>3. CASE failure' = "none"
    <3>1. Return(Verdict) /\ Gathered
      BY <1>3, <2>3 DEF SettleEnds, ErrorInv
    <3>2. AllConfirmed
      BY <1>3, <2>3 DEF SettleEnds, Confirms, Record, Latched, TypeOK, Causes
    <3> QED
      BY <2>1, <3>1, <3>2, Verdicts
  <2> QED
    BY <2>2, <2>3
<1>4. CASE LaunchFails \/ GiveUp \/ Dropped
  BY <1>4, OtherReturns DEF LaunchFails, GiveUp, Dropped
<1>5. CASE ~Over /\ UNCHANGED result /\ phase' # "over"
  BY <1>5 DEF ResultInv, ReportedMeansReaped, ObservedFailureIsBlamed, Over
<1>6. CASE DeadlineKills
  <2>1. CASE UNCHANGED endVars
    BY <1>5, <1>6, <2>1 DEF DeadlineKills, endVars, Over
  <2>2. CASE \E c \in {termFail, Latched} \ {"none"} : Return(Result("teardown", 0, c))
    BY <2>2, OtherReturns
  <2> QED
    BY <1>6, <2>1, <2>2 DEF DeadlineKills
<1>7. CASE DeadlineConfirms
  <2>1. CASE UNCHANGED endVars
    BY <1>5, <1>7, <2>1 DEF DeadlineConfirms, endVars, Over
  <2>2. CASE Return(Result("teardown", 0, IF termFail = "none" THEN Latched ELSE termFail))
    BY <2>2, OtherReturns
  <2> QED
    BY <1>7, <2>1, <2>2 DEF DeadlineConfirms
<1>8. ASSUME ~Over,
             \/ LaunchStage \/ Begin \/ FireToken \/ WatchProbe \/ WatchConfirms \/ WatchLatches
             \/ WatchFires \/ Borrow \/ PutBack
             \/ KillerKills \/ KillerConfirms \/ Expire \/ StartKill \/ Finish
             \/ \E i \in Stages : \/ ChildExits(i) \/ CancelStage(i) \/ Observe(i) \/ Drained(i)
                                  \/ CancelFails(i) \/ Join(i)
             \/ UNCHANGED vars
      PROVE  UNCHANGED result /\ phase' # "over"
  BY <1>8 DEF Over, vars, endVars, LaunchStage, Begin, FireToken, WatchProbe, WatchConfirms,
       WatchLatches, WatchFires, Borrow, PutBack, KillerKills, KillerConfirms, Expire,
       StartKill, Finish, ChildExits, CancelStage, Observe, Drained, CancelFails, Join
<1> QED
  BY <1>1, <1>2, <1>3, <1>4, <1>5, <1>6, <1>7, <1>8 DEF Next

LEMMA ChainInit == Init => ChainInv
<1> SUFFICES ASSUME Init PROVE ChainInv
  OBVIOUS
<1>1. TypeOK
  <2>1. result \in [kind : Kinds, blame : 0..N, cause : Causes \cup {"none"}]
    BY DEF Init, Result, Kinds
  <2>2. /\ child \in [Places -> {"none", "alive", "exited", "reaped"}]
        /\ end \in [Places -> Ends \cup {"none"}] /\ snap \in [Places -> BOOLEAN]
        /\ disp \in [Places -> {"unobserved", "culprit", "victim"}]
        /\ task \in [Places -> {"none", "wait", "drain", "done", "joined"}]
        /\ res \in [Places -> Errors \cup {"none", "ok"}]
    BY DEF Init
  <2> QED
    BY <2>1, <2>2 DEF Init, TypeOK
<1>2. TaskInv /\ RecordInv /\ ErrorInv /\ KilledInv
  BY <1>1, Chain DEF Init, TaskInv, RecordInv, ErrorInv, KilledInv, TimedOut
<1>3. ResultInv
  BY DEF Init, ResultInv, ReportedMeansReaped, ObservedFailureIsBlamed, Result
<1> QED
  BY <1>1, <1>2, <1>3 DEF ChainInv

\* ChainInv is an inductive invariant of every chain.
THEOREM ChainCorrect == Spec => []ChainInv
<1>1. ChainInv /\ [Next]_vars => ChainInv'
  BY TypeStep, TaskStep, RecordStep, ErrorStep, KilledStep, ResultStep DEF ChainInv
<1> QED
  BY ChainInit, <1>1, PTL DEF Spec

\* Types of the stages, the shared records and the background tasks (pipeline.rs).
THEOREM TypeCorrect == Spec => []TypeOK
  BY ChainCorrect, PTL DEF ChainInv

\* capture and finish report the end of a chain only when every stage was reaped.
THEOREM ReapedCorrect == Spec => []ReportedMeansReaped
<1>1. ChainInv => ReportedMeansReaped
  BY DEF ChainInv, ResultInv
<1> QED
  BY ChainCorrect, <1>1, PTL

\* The pipefail fold does not put the blame on a stage the teardown killed, nor on
\* a victim of a broken pipe, if a failure was confirmed and latched when the
\* teardown fired.
THEOREM BlameCorrect == Spec => []ObservedFailureIsBlamed
<1>1. ChainInv => ObservedFailureIsBlamed
  BY DEF ChainInv, ResultInv
<1> QED
  BY ChainCorrect, <1>1, PTL
=============================================================================
