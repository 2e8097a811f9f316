------------------------ MODULE GroupTeardown_proofs ------------------------
(***************************************************************************)
(* What holds of GroupTeardown for any number of calls: its types, that the*)
(* spare of a shutdown never covers a member it did not warn, that Drop    *)
(* kills whoever is not spared, and that a hard stop that reports no error *)
(* leaves none of its members alive whose state could be read.             *)
(***************************************************************************)
EXTENDS GroupTeardown, TLAPS

USE CallsAssumption

\* A request moves the word to a word of the same generation.
LEMMA RequestTypes ==
    ASSUME TypeOK, NEW g \in Nat, NEW s \in Stops \cup {Nobody}, Request(g, s)
    PROVE  /\ word' \in Word /\ word'.gen = word.gen
           /\ spareAt' \in Nat \cup {Never} /\ spareAt' <= word.gen
<1>1. word = [gen |-> word.gen, by |-> word.by] /\ word.gen \in Nat
  BY DEF TypeOK, Word
<1>2. CASE RequestTakes(g)
  <2>1. word' = [gen |-> word.gen, by |-> s]
    BY <1>1, <1>2 DEF Request
  <2> QED
    BY <1>1, <1>2, <2>1 DEF Request, RequestTakes, TypeOK, Word
<1>3. CASE ~RequestTakes(g)
  BY <1>3 DEF TypeOK, Request
<1> QED
  BY <1>2, <1>3

\* Moving a call leaves every call at a place of its kind.
LEMMA GotoTypes ==
    ASSUME TypeOK, NEW c \in Calls, NEW place, Goto(c, place),
           c \in Joins => place \in JoinPc, c \in Stops => place \in StopPc
    PROVE  /\ pc' \in [Calls -> JoinPc \cup StopPc]
           /\ \A j \in Joins : pc'[j] \in JoinPc
           /\ \A s \in Stops : pc'[s] \in StopPc
  BY DEF TypeOK, Goto, Calls

\* A clear's exchange moves the word one generation on, to a word that spares nobody.
LEMMA RearmTypes ==
    ASSUME TypeOK
    PROVE  /\ Rearmed(word) \in Word /\ Rearmed(word).gen = word.gen + 1
           /\ Rearmed(word).by = Nobody
           /\ Displaced(word) \in Word /\ Displaced(word).gen = word.gen + 1
           /\ Displaced(word).by = word.by
  BY DEF TypeOK, Rearmed, Displaced, Word

\* A read of the groups at most takes the mutex.
LEMMA ReadGroupsOwner ==
    ASSUME owner \in Calls \cup {Nobody}, NEW s \in Stops, NEW solosPc, NEW nextPc,
           ReadGroups(s, solosPc, nextPc)
    PROVE  owner' \in Calls \cup {Nobody}
  BY DEF ReadGroups, Acquire, Calls

\* Every step keeps the types, and no token gets ahead of the generation.
LEMMA TypeStep ==
    TypeOK /\ [Next]_vars => TypeOK'
<1> SUFFICES ASSUME TypeOK, [Next]_vars PROVE TypeOK'
  OBVIOUS
<1> USE DEF TypeOK, Word, JoinPc, StopPc, Tables, Joins, Calls
<1>1. ASSUME NEW j \in Joins, Spawn(j) PROVE TypeOK'
  <2>1. \E place \in {"forked", "refused"} : Goto(j, place)
    BY <1>1 DEF Spawn
  <2>2. /\ pc' \in [Calls -> JoinPc \cup StopPc]
        /\ \A i \in Joins : pc'[i] \in JoinPc
        /\ \A t \in Stops : pc'[t] \in StopPc
    BY <2>1, GotoTypes
  <2>3. proc' \in [Joins -> {"none", "live", "zombie", "gone"}]
    BY <1>1 DEF Spawn
  <2> QED
    BY <1>1, <2>2, <2>3 DEF Spawn, latch, tables, stops
<1>2. ASSUME NEW j \in Joins, Track(j) PROVE TypeOK'
  BY <1>2 DEF Track, Goto, latch, stops
<1>3. ASSUME NEW j \in Joins, SpawnReturns(j) PROVE TypeOK'
  BY <1>3 DEF SpawnReturns, Goto, tables, stops, Never
<1>4. ASSUME NEW j \in Joins, LaunchFails(j) PROVE TypeOK'
  BY <1>4 DEF LaunchFails, Goto, latch, tables, stops
<1>5. ASSUME NEW j \in Joins, RollbackKills(j) PROVE TypeOK'
  BY <1>5 DEF RollbackKills, Goto, Acquire, Killed, latch, stops
<1>6. ASSUME NEW j \in Joins, RollbackRestores(j) PROVE TypeOK'
  <2>1. displaced[j].gen \in Nat /\ displaced[j].by \in Stops \cup {Nobody}
    OBVIOUS
  <2>2. word' \in Word /\ word'.gen = word.gen /\ spareAt' \in Nat \cup {Never} /\ spareAt' <= word.gen
    BY <1>6, <2>1, RequestTypes DEF RollbackRestores
  <2> QED
    BY <1>6, <2>2 DEF RollbackRestores, Goto, Release, tables, stops
<1>7. ASSUME NEW j \in Joins, Adopt(j) PROVE TypeOK'
  <2>1. \E place \in {"locked", "refused"} : Goto(j, place)
    BY <1>7 DEF Adopt
  <2>2. /\ pc' \in [Calls -> JoinPc \cup StopPc]
        /\ \A i \in Joins : pc'[i] \in JoinPc
        /\ \A t \in Stops : pc'[t] \in StopPc
    BY <2>1, GotoTypes
  <2>3. home' \in [Joins -> Tables] /\ owner' \in Calls \cup {Nobody}
    BY <1>7 DEF Adopt, Acquire
  <2> QED
    BY <1>7, <2>2, <2>3 DEF Adopt, latch, stops
<1>8. ASSUME NEW j \in Joins, AdoptTracks(j) PROVE TypeOK'
  <2>1. \E place \in {"joined", "refused"} : Goto(j, place)
    BY <1>8 DEF AdoptTracks
  <2>2. /\ pc' \in [Calls -> JoinPc \cup StopPc]
        /\ \A i \in Joins : pc'[i] \in JoinPc
        /\ \A t \in Stops : pc'[t] \in StopPc
    BY <2>1, GotoTypes
  <2>3. /\ owner' = Nobody /\ tracked' \in SUBSET Joins /\ spareAt' \in {Never, spareAt}
        /\ UNCHANGED <<word, seen, displaced, epoch, home, stops, proc, dropped, heard>>
    BY <1>8 DEF AdoptTracks, Release
  <2>4. Never <= word.gen
    BY DEF Never
  <2> QED
    BY <2>2, <2>3, <2>4 DEF stops
<1>9. ASSUME NEW j \in Joins, ClearLoads(j) PROVE TypeOK'
  BY <1>9 DEF ClearLoads, Goto, tables, stops
<1>10. ASSUME NEW j \in Joins, ClearExchanges(j) PROVE TypeOK'
  <2>1. CASE seen[j] = word
    <3>1. /\ word' \in Word /\ word'.gen = word.gen + 1
          /\ displaced' = [displaced EXCEPT ![j] = Displaced(word)]
          /\ Displaced(word) \in Word /\ Displaced(word).gen = word.gen + 1
      BY <1>10, <2>1, RearmTypes DEF ClearExchanges
    <3>2. /\ displaced' \in [Joins -> Word]
          /\ \A i \in Joins : displaced'[i].gen <= word'.gen
      BY <3>1
    <3>3. \A t \in Stops : epoch'[t] <= word'.gen
      BY <1>10, <3>1 DEF ClearExchanges
    <3>4. pc' = [pc EXCEPT ![j] = "cleared"]
      BY <1>10, <2>1 DEF ClearExchanges, Goto
    <3> QED
      BY <1>10, <2>1, <3>1, <3>2, <3>3, <3>4 DEF ClearExchanges, tables, stops
  <2>2. CASE seen[j] # word
    BY <1>10, <2>2 DEF ClearExchanges, tables, stops
  <2> QED
    BY <2>1, <2>2
<1>11. ASSUME NEW j \in Joins, ProcessExits(j) PROVE TypeOK'
  BY <1>11 DEF ProcessExits, latch, tables, stops
<1>12. ASSUME NEW j \in Joins, HandleReaps(j) PROVE TypeOK'
  BY <1>12 DEF HandleReaps, latch, tables, stops
<1>13. ASSUME NEW s \in Stops, StopBegins(s) PROVE TypeOK'
  BY <1>13 DEF StopBegins, Goto, Joined, tables
<1>14. ASSUME NEW s \in Stops, SoftGroups(s) PROVE TypeOK'
  BY <1>14 DEF SoftGroups, Goto, Acquire, SoftSweep, Visited, Pruned, latch, stops, In, Present
<1>15. ASSUME NEW s \in Stops, SoftSolos(s) PROVE TypeOK'
  BY <1>15 DEF SoftSolos, Goto, Release, SoftSweep, Visited, Pruned, latch, stops, In, Present
<1>16. ASSUME NEW s \in Stops, PollGroups(s) PROVE TypeOK'
  <2>1. \E place \in {"pollSolos", "decide"} : Goto(s, place)
    BY <1>16 DEF PollGroups, ReadGroups
  <2>2. /\ pc' \in [Calls -> JoinPc \cup StopPc]
        /\ \A i \in Joins : pc'[i] \in JoinPc
        /\ \A t \in Stops : pc'[t] \in StopPc
    BY <2>1, GotoTypes
  <2>3. owner' \in Calls \cup {Nobody}
    BY <1>16, ReadGroupsOwner DEF PollGroups
  <2> QED
    BY <1>16, <2>2, <2>3 DEF PollGroups, latch, tables, stops
<1>17. ASSUME NEW s \in Stops, PollSolos(s) PROVE TypeOK'
  BY <1>17 DEF PollSolos, Goto, Release, latch, tables, stops
<1>18. ASSUME NEW s \in Stops, Abandon(s) PROVE TypeOK'
  BY <1>18 DEF Abandon, Goto, latch, tables, stops
<1>19. ASSUME NEW s \in Stops, DecideGroups(s) PROVE TypeOK'
  <2>1. \E place \in {"decideSolos", "request", "kill"} : Goto(s, place)
    BY <1>19 DEF DecideGroups, ReadGroups, AfterDrain
  <2>2. /\ pc' \in [Calls -> JoinPc \cup StopPc]
        /\ \A i \in Joins : pc'[i] \in JoinPc
        /\ \A t \in Stops : pc'[t] \in StopPc
    BY <2>1, GotoTypes
  <2>3. owner' \in Calls \cup {Nobody}
    BY <1>19, ReadGroupsOwner DEF DecideGroups
  <2> QED
    BY <1>19, <2>2, <2>3 DEF DecideGroups, latch, tables, stops
<1>20. ASSUME NEW s \in Stops, DecideSolos(s) PROVE TypeOK'
  BY <1>20 DEF DecideSolos, Goto, Release, Visited, AfterDrain, latch, tables, stops, In, Present
<1>21. ASSUME NEW s \in Stops, KillGroups(s) PROVE TypeOK'
  <2>1. proc' \in [Joins -> {"none", "live", "zombie", "gone"}]
    BY <1>21 DEF KillGroups, HardSweep, Killed
  <2>2. failed' \in [Stops -> BOOLEAN] /\ unread' \in [Stops -> SUBSET Deaf]
    BY <1>21 DEF KillGroups, HardSweep, Refusing
  <2> QED
    BY <1>21, <2>1, <2>2 DEF KillGroups, Goto, Acquire, HardSweep, Pruned, latch
<1>22. ASSUME NEW s \in Stops, KillSolos(s) PROVE TypeOK'
  <2>1. proc' \in [Joins -> {"none", "live", "zombie", "gone"}]
    BY <1>22 DEF KillSolos, HardSweep, Killed
  <2>2. failed' \in [Stops -> BOOLEAN] /\ unread' \in [Stops -> SUBSET Deaf]
    BY <1>22 DEF KillSolos, HardSweep, Refusing
  <2> QED
    BY <1>22, <2>1, <2>2 DEF KillSolos, Goto, Release, HardSweep, Pruned, latch
<1>23. ASSUME NEW s \in Stops, RequestSpare(s) PROVE TypeOK'
  <2>1. word' \in Word /\ word'.gen = word.gen /\ spareAt' \in Nat \cup {Never} /\ spareAt' <= word.gen
    BY <1>23, RequestTypes DEF RequestSpare
  <2> QED
    BY <1>23, <2>1 DEF RequestSpare, Goto, tables, stops
<1>24. CASE DropGroup
  BY <1>24 DEF DropGroup, Killed, Quiet, latch, tables, stops
<1>25. CASE UNCHANGED vars
  BY <1>25 DEF vars, latch, tables, stops
<1> QED
  BY <1>1, <1>2, <1>3, <1>4, <1>5, <1>6, <1>7, <1>8, <1>9, <1>10, <1>11, <1>12, <1>13, <1>14, <1>15, <1>16, <1>17, <1>18, <1>19, <1>20, <1>21, <1>22, <1>23, <1>24, <1>25 DEF Next, JoinStep, StopStep

\* The types hold at the start.
LEMMA TypeInit == Init => TypeOK
<1> SUFFICES ASSUME Init PROVE TypeOK
  OBVIOUS
<1>1. word \in Word /\ word.gen = 0
  BY DEF Init, Word
<1>2. seen \in [Joins -> Word] /\ displaced \in [Joins -> Word]
      /\ \A j \in Joins : displaced[j].gen <= word.gen
  BY <1>1 DEF Init
<1>3. pc \in [Calls -> JoinPc \cup StopPc]
      /\ (\A j \in Joins : pc[j] \in JoinPc) /\ (\A s \in Stops : pc[s] \in StopPc)
  BY DEF Init, Calls, JoinPc, StopPc
<1>4. /\ mode \in [Stops -> {"kill", "escalate", "spare"}]
      /\ epoch \in [Stops -> Nat] /\ \A s \in Stops : epoch[s] = 0
      /\ failed \in [Stops -> BOOLEAN] /\ unread \in [Stops -> SUBSET Deaf]
      /\ before \in [Stops -> SUBSET Joins]
  BY DEF Init
<1>5. /\ home \in [Joins -> Tables]
      /\ proc \in [Joins -> {"none", "live", "zombie", "gone"}]
      /\ heard \in [Joins -> SUBSET Stops]
  BY DEF Init, Tables
<1>6. tracked = {} /\ owner = Nobody /\ dropped = FALSE /\ spareAt = Never
  BY DEF Init
<1>7. \A s \in Stops : epoch[s] <= word.gen
  BY <1>1, <1>4
<1>8. owner \in Calls \cup {Nobody} /\ tracked \in SUBSET Joins
      /\ dropped \in BOOLEAN /\ spareAt \in Nat \cup {Never} /\ spareAt <= word.gen
  <2>1. Never \in Int /\ Never <= 0
    BY DEF Never
  <2> QED
    BY <1>1, <1>6, <2>1
<1> QED
  BY <1>1, <1>2, <1>3, <1>4, <1>5, <1>7, <1>8, Zenon DEF TypeOK

\* The types, and what a token can name, hold in every state.
THEOREM TypeCorrect == Spec => []TypeOK
  BY TypeInit, TypeStep, PTL DEF Spec

\* Where a call goes, and that no other call moves.
LEMMA GotoMoves ==
    ASSUME TypeOK, NEW c \in Calls, NEW place, Goto(c, place)
    PROVE  \A d \in Calls : pc'[d] = IF d = c THEN place ELSE pc[d]
  BY DEF TypeOK, Goto

-----------------------------------------------------------------------------
(* What every step does to the latch and to those who stand.               *)

WarnGroupsPc == {"softSolos", "poll", "pollSolos", "decide", "decideSolos", "request"}
WarnSolosPc  == WarnGroupsPc \ {"softSolos"}

\* Warnings are kept, nobody comes back, and whoever comes to stand has moved the
\* generation on.
Standers ==
    /\ \A j \in Joins : heard[j] \subseteq heard'[j]
    /\ \A j \in Standing : (Present(j)' => Present(j)) /\ home'[j] = home[j]
    /\ \A j \in Standing' : j \in Standing \/ word'.gen = word.gen + 1

\* The word stays, is re-armed one generation on, or gets the spare of a request.
WordMoves ==
    \/ word' = word
    \/ word'.gen = word.gen + 1 /\ word'.by = Nobody
    \/ /\ word.by = Nobody /\ word'.gen = word.gen
       /\ \/ \E s \in Stops : pc[s] = "request" /\ epoch[s] = word.gen /\ word'.by = s
          \/ \E p \in Joins : /\ pc[p] = "killed"
                              /\ displaced[p].gen = word.gen
                              /\ displaced[p].by # Nobody
                              /\ word'.by = displaced[p].by

\* A stop comes to have warned a table by sweeping it, on the snapshot it began with.
StopMoves ==
    \A s \in Stops :
        /\ pc'[s] \in WarnGroupsPc => epoch'[s] = epoch[s]
        /\ pc'[s] \in WarnGroupsPc => pc[s] \in WarnGroupsPc \/ SoftGroups(s)
        /\ pc'[s] \in WarnSolosPc => pc[s] \in WarnSolosPc \/ SoftSolos(s)

\* Every step keeps those who stand as Standers says.
LEMMA StandersStep ==
    TypeOK /\ [Next]_vars => Standers
<1> SUFFICES ASSUME TypeOK, [Next]_vars PROVE Standers
  OBVIOUS
<1> USE DEF Standers, Standing, Present, Calls, TypeOK
<1>1. ASSUME NEW j \in Joins, Spawn(j) PROVE Standers
  <2>1. PICK place \in {"forked", "refused"} : Goto(j, place)
    BY <1>1 DEF Spawn
  <2>2. \A d \in Calls : pc'[d] = IF d = j THEN place ELSE pc[d]
    BY <2>1, GotoMoves
  <2> QED
    BY <1>1, <2>2 DEF Spawn, latch, tables, stops
<1>2. ASSUME NEW j \in Joins, Track(j) PROVE Standers
  BY <1>2 DEF Track, Goto, latch, stops
<1>3. ASSUME NEW j \in Joins, SpawnReturns(j) PROVE Standers
  BY <1>3 DEF SpawnReturns, Goto, tables, stops
<1>4. ASSUME NEW j \in Joins, LaunchFails(j) PROVE Standers
  BY <1>4 DEF LaunchFails, Goto, latch, tables, stops
<1>5. ASSUME NEW j \in Joins, RollbackKills(j) PROVE Standers
  BY <1>5 DEF RollbackKills, Goto, Acquire, Killed, latch, stops
<1>6. ASSUME NEW j \in Joins, RollbackRestores(j) PROVE Standers
  BY <1>6 DEF RollbackRestores, Goto, Release, Request, tables, stops, RequestTakes
<1>7. ASSUME NEW j \in Joins, Adopt(j) PROVE Standers
  <2>1. PICK place \in {"locked", "refused"} : Goto(j, place)
    BY <1>7 DEF Adopt
  <2>2. \A d \in Calls : pc'[d] = IF d = j THEN place ELSE pc[d]
    BY <2>1, GotoMoves
  <2> QED
    BY <1>7, <2>2 DEF Adopt, Acquire, latch, stops
<1>8. ASSUME NEW j \in Joins, AdoptTracks(j) PROVE Standers
  <2>1. PICK place \in {"joined", "refused"} : Goto(j, place)
    BY <1>8 DEF AdoptTracks
  <2>2. \A d \in Calls : pc'[d] = IF d = j THEN place ELSE pc[d]
    BY <2>1, GotoMoves
  <2> QED
    BY <1>8, <2>2 DEF AdoptTracks, Release, stops
<1>9. ASSUME NEW j \in Joins, ClearLoads(j) PROVE Standers
  BY <1>9 DEF ClearLoads, Goto, tables, stops
<1>10. ASSUME NEW j \in Joins, ClearExchanges(j) PROVE Standers
  BY <1>10 DEF ClearExchanges, Goto, Rearmed, Displaced, tables, stops
<1>11. ASSUME NEW j \in Joins, ProcessExits(j) PROVE Standers
  BY <1>11 DEF ProcessExits, latch, tables, stops
<1>12. ASSUME NEW j \in Joins, HandleReaps(j) PROVE Standers
  BY <1>12 DEF HandleReaps, latch, tables, stops
<1>13. ASSUME NEW s \in Stops, StopBegins(s) PROVE Standers
  BY <1>13 DEF StopBegins, Goto, Joined, tables
<1>14. ASSUME NEW s \in Stops, SoftGroups(s) PROVE Standers
  BY <1>14 DEF SoftGroups, Goto, Acquire, SoftSweep, Visited, Pruned, latch, stops, In, Present
<1>15. ASSUME NEW s \in Stops, SoftSolos(s) PROVE Standers
  BY <1>15 DEF SoftSolos, Goto, Release, SoftSweep, Visited, Pruned, latch, stops, In, Present
<1>16. ASSUME NEW s \in Stops, PollGroups(s) PROVE Standers
  <2>1. PICK place \in {"pollSolos", "decide"} : Goto(s, place)
    BY <1>16 DEF PollGroups, ReadGroups
  <2>2. \A d \in Calls : pc'[d] = IF d = s THEN place ELSE pc[d]
    BY <2>1, GotoMoves
  <2> QED
    BY <1>16, <2>2 DEF PollGroups, ReadGroups, latch, tables, stops, Acquire, Visited, In, Present
<1>17. ASSUME NEW s \in Stops, PollSolos(s) PROVE Standers
  BY <1>17 DEF PollSolos, Goto, Release, latch, tables, stops
<1>18. ASSUME NEW s \in Stops, Abandon(s) PROVE Standers
  BY <1>18 DEF Abandon, Goto, latch, tables, stops
<1>19. ASSUME NEW s \in Stops, DecideGroups(s) PROVE Standers
  <2>1. PICK place \in {"decideSolos", "request", "kill"} : Goto(s, place)
    BY <1>19 DEF DecideGroups, ReadGroups, AfterDrain
  <2>2. \A d \in Calls : pc'[d] = IF d = s THEN place ELSE pc[d]
    BY <2>1, GotoMoves
  <2> QED
    BY <1>19, <2>2 DEF DecideGroups, ReadGroups, AfterDrain, latch, tables, stops, Acquire, Visited, In, Present
<1>20. ASSUME NEW s \in Stops, DecideSolos(s) PROVE Standers
  BY <1>20 DEF DecideSolos, Goto, Release, Visited, AfterDrain, latch, tables, stops, In, Present
<1>21. ASSUME NEW s \in Stops, KillGroups(s) PROVE Standers
  BY <1>21 DEF KillGroups, Goto, Acquire, HardSweep, Killed, Visited, Pruned, latch, In, Present
<1>22. ASSUME NEW s \in Stops, KillSolos(s) PROVE Standers
  BY <1>22 DEF KillSolos, Goto, Release, HardSweep, Killed, Visited, Pruned, latch, In, Present
<1>23. ASSUME NEW s \in Stops, RequestSpare(s) PROVE Standers
  BY <1>23 DEF RequestSpare, Goto, Request, tables, stops, RequestTakes
<1>24. CASE DropGroup
  BY <1>24 DEF DropGroup, Killed, Quiet, latch, tables, stops
<1>25. CASE UNCHANGED vars
  BY <1>25 DEF vars, latch, tables, stops
<1> QED
  BY <1>1, <1>2, <1>3, <1>4, <1>5, <1>6, <1>7, <1>8, <1>9, <1>10, <1>11, <1>12, <1>13, <1>14, <1>15, <1>16, <1>17, <1>18, <1>19, <1>20, <1>21, <1>22, <1>23, <1>24, <1>25 DEF Next, JoinStep, StopStep

\* Every step moves the word as WordMoves says.
LEMMA WordStep ==
    TypeOK /\ [Next]_vars => WordMoves
<1> SUFFICES ASSUME TypeOK, [Next]_vars PROVE WordMoves
  OBVIOUS
<1> USE DEF WordMoves
<1>1. ASSUME NEW j \in Joins, Spawn(j) PROVE WordMoves
  BY <1>1 DEF Spawn, Goto, latch, tables, stops
<1>2. ASSUME NEW j \in Joins, Track(j) PROVE WordMoves
  BY <1>2 DEF Track, Goto, latch, stops
<1>3. ASSUME NEW j \in Joins, SpawnReturns(j) PROVE WordMoves
  BY <1>3 DEF SpawnReturns, Goto, tables, stops
<1>4. ASSUME NEW j \in Joins, LaunchFails(j) PROVE WordMoves
  BY <1>4 DEF LaunchFails, Goto, latch, tables, stops
<1>5. ASSUME NEW j \in Joins, RollbackKills(j) PROVE WordMoves
  BY <1>5 DEF RollbackKills, Goto, Acquire, Killed, latch, stops
<1>6. ASSUME NEW j \in Joins, RollbackRestores(j) PROVE WordMoves
  BY <1>6 DEF RollbackRestores, Goto, Release, Request, tables, stops, RequestTakes
<1>7. ASSUME NEW j \in Joins, Adopt(j) PROVE WordMoves
  BY <1>7 DEF Adopt, Goto, Acquire, latch, stops
<1>8. ASSUME NEW j \in Joins, AdoptTracks(j) PROVE WordMoves
  BY <1>8 DEF AdoptTracks, Goto, Release, stops
<1>9. ASSUME NEW j \in Joins, ClearLoads(j) PROVE WordMoves
  BY <1>9 DEF ClearLoads, Goto, tables, stops
<1>10. ASSUME NEW j \in Joins, ClearExchanges(j) PROVE WordMoves
  BY <1>10, RearmTypes DEF ClearExchanges
<1>11. ASSUME NEW j \in Joins, ProcessExits(j) PROVE WordMoves
  BY <1>11 DEF ProcessExits, latch, tables, stops
<1>12. ASSUME NEW j \in Joins, HandleReaps(j) PROVE WordMoves
  BY <1>12 DEF HandleReaps, latch, tables, stops
<1>13. ASSUME NEW s \in Stops, StopBegins(s) PROVE WordMoves
  BY <1>13 DEF StopBegins, Goto, Joined, tables
<1>14. ASSUME NEW s \in Stops, SoftGroups(s) PROVE WordMoves
  BY <1>14 DEF SoftGroups, Goto, Acquire, SoftSweep, Visited, Pruned, latch, stops, In, Present
<1>15. ASSUME NEW s \in Stops, SoftSolos(s) PROVE WordMoves
  BY <1>15 DEF SoftSolos, Goto, Release, SoftSweep, Visited, Pruned, latch, stops, In, Present
<1>16. ASSUME NEW s \in Stops, PollGroups(s) PROVE WordMoves
  BY <1>16 DEF PollGroups, ReadGroups, latch, tables, stops, Goto, Acquire, Visited, In, Present
<1>17. ASSUME NEW s \in Stops, PollSolos(s) PROVE WordMoves
  BY <1>17 DEF PollSolos, Goto, Release, latch, tables, stops
<1>18. ASSUME NEW s \in Stops, Abandon(s) PROVE WordMoves
  BY <1>18 DEF Abandon, Goto, latch, tables, stops
<1>19. ASSUME NEW s \in Stops, DecideGroups(s) PROVE WordMoves
  BY <1>19 DEF DecideGroups, ReadGroups, AfterDrain, latch, tables, stops, Goto, Acquire, Visited, In, Present
<1>20. ASSUME NEW s \in Stops, DecideSolos(s) PROVE WordMoves
  BY <1>20 DEF DecideSolos, Goto, Release, Visited, AfterDrain, latch, tables, stops, In, Present
<1>21. ASSUME NEW s \in Stops, KillGroups(s) PROVE WordMoves
  BY <1>21 DEF KillGroups, Goto, Acquire, HardSweep, Killed, Visited, Pruned, latch, In, Present
<1>22. ASSUME NEW s \in Stops, KillSolos(s) PROVE WordMoves
  BY <1>22 DEF KillSolos, Goto, Release, HardSweep, Killed, Visited, Pruned, latch, In, Present
<1>23. ASSUME NEW s \in Stops, RequestSpare(s) PROVE WordMoves
  BY <1>23 DEF RequestSpare, Goto, Request, tables, stops, RequestTakes
<1>24. CASE DropGroup
  BY <1>24 DEF DropGroup, Killed, Quiet, latch, tables, stops
<1>25. CASE UNCHANGED vars
  BY <1>25 DEF vars, latch, tables, stops
<1> QED
  BY <1>1, <1>2, <1>3, <1>4, <1>5, <1>6, <1>7, <1>8, <1>9, <1>10, <1>11, <1>12, <1>13, <1>14, <1>15, <1>16, <1>17, <1>18, <1>19, <1>20, <1>21, <1>22, <1>23, <1>24, <1>25 DEF Next, JoinStep, StopStep

\* Every step moves the stops as StopMoves says.
LEMMA StopStepMoves ==
    TypeOK /\ [Next]_vars => StopMoves
<1> SUFFICES ASSUME TypeOK, [Next]_vars PROVE StopMoves
  OBVIOUS
<1> USE DEF StopMoves, WarnGroupsPc, WarnSolosPc, Calls
<1>1. ASSUME NEW j \in Joins, Spawn(j) PROVE StopMoves
  <2>1. PICK place \in {"forked", "refused"} : Goto(j, place)
    BY <1>1 DEF Spawn
  <2>2. \A d \in Calls : pc'[d] = IF d = j THEN place ELSE pc[d]
    BY <2>1, GotoMoves
  <2> QED
    BY <1>1, <2>2 DEF Spawn, latch
<1>2. ASSUME NEW j \in Joins, Track(j) PROVE StopMoves
  BY <1>2 DEF Track, Goto, latch, stops, latch
<1>3. ASSUME NEW j \in Joins, SpawnReturns(j) PROVE StopMoves
  BY <1>3 DEF SpawnReturns, Goto, tables, stops, latch
<1>4. ASSUME NEW j \in Joins, LaunchFails(j) PROVE StopMoves
  BY <1>4 DEF LaunchFails, Goto, latch, tables, stops, latch
<1>5. ASSUME NEW j \in Joins, RollbackKills(j) PROVE StopMoves
  BY <1>5 DEF RollbackKills, Goto, Acquire, Killed, latch, stops, latch
<1>6. ASSUME NEW j \in Joins, RollbackRestores(j) PROVE StopMoves
  BY <1>6 DEF RollbackRestores, Goto, Release, Request, tables, stops, RequestTakes, latch
<1>7. ASSUME NEW j \in Joins, Adopt(j) PROVE StopMoves
  <2>1. PICK place \in {"locked", "refused"} : Goto(j, place)
    BY <1>7 DEF Adopt
  <2>2. \A d \in Calls : pc'[d] = IF d = j THEN place ELSE pc[d]
    BY <2>1, GotoMoves
  <2> QED
    BY <1>7, <2>2 DEF Adopt, latch
<1>8. ASSUME NEW j \in Joins, AdoptTracks(j) PROVE StopMoves
  <2>1. PICK place \in {"joined", "refused"} : Goto(j, place)
    BY <1>8 DEF AdoptTracks
  <2>2. \A d \in Calls : pc'[d] = IF d = j THEN place ELSE pc[d]
    BY <2>1, GotoMoves
  <2> QED
    BY <1>8, <2>2 DEF AdoptTracks, latch
<1>9. ASSUME NEW j \in Joins, ClearLoads(j) PROVE StopMoves
  BY <1>9 DEF ClearLoads, Goto, tables, stops, latch
<1>10. ASSUME NEW j \in Joins, ClearExchanges(j) PROVE StopMoves
  <2>1. \A t \in Stops : pc'[t] = pc[t] /\ epoch'[t] = epoch[t]
    <3>1. CASE seen[j] = word
      BY <1>10, <3>1, GotoMoves DEF ClearExchanges, Calls
    <3>2. CASE seen[j] # word
      BY <1>10, <3>2 DEF ClearExchanges
    <3> QED
      BY <3>1, <3>2
  <2> QED
    BY <2>1
<1>11. ASSUME NEW j \in Joins, ProcessExits(j) PROVE StopMoves
  BY <1>11 DEF ProcessExits, latch, tables, stops, latch
<1>12. ASSUME NEW j \in Joins, HandleReaps(j) PROVE StopMoves
  BY <1>12 DEF HandleReaps, latch, tables, stops, latch
<1>13. ASSUME NEW s \in Stops, StopBegins(s) PROVE StopMoves
  BY <1>13 DEF StopBegins, Goto, Joined, tables, latch
<1>14. ASSUME NEW s \in Stops, SoftGroups(s) PROVE StopMoves
  <2>1. PICK place \in {"softSolos"} : Goto(s, place)
    BY <1>14 DEF SoftGroups
  <2>2. \A d \in Calls : pc'[d] = IF d = s THEN place ELSE pc[d]
    BY <2>1, GotoMoves
  <2>3. epoch' = epoch /\ pc[s] = "soft" 
    BY <1>14 DEF SoftGroups, SoftSweep, latch
  <2> QED
    BY <1>14, <2>2, <2>3 DEF Calls
<1>15. ASSUME NEW s \in Stops, SoftSolos(s) PROVE StopMoves
  <2>1. PICK place \in {"poll"} : Goto(s, place)
    BY <1>15 DEF SoftSolos
  <2>2. \A d \in Calls : pc'[d] = IF d = s THEN place ELSE pc[d]
    BY <2>1, GotoMoves
  <2>3. epoch' = epoch /\ pc[s] = "softSolos" 
    BY <1>15 DEF SoftSolos, SoftSweep, latch
  <2> QED
    BY <1>15, <2>2, <2>3 DEF Calls
<1>16. ASSUME NEW s \in Stops, PollGroups(s) PROVE StopMoves
  <2>1. PICK place \in {"pollSolos", "decide"} : Goto(s, place)
    BY <1>16 DEF PollGroups, ReadGroups
  <2>2. \A d \in Calls : pc'[d] = IF d = s THEN place ELSE pc[d]
    BY <2>1, GotoMoves
  <2> QED
    BY <1>16, <2>2 DEF PollGroups, latch
<1>17. ASSUME NEW s \in Stops, PollSolos(s) PROVE StopMoves
  BY <1>17 DEF PollSolos, Goto, Release, latch, tables, stops, latch
<1>18. ASSUME NEW s \in Stops, Abandon(s) PROVE StopMoves
  BY <1>18 DEF Abandon, Goto, latch, tables, stops, latch
<1>19. ASSUME NEW s \in Stops, DecideGroups(s) PROVE StopMoves
  <2>1. PICK place \in {"decideSolos", "request", "kill"} : Goto(s, place)
    BY <1>19 DEF DecideGroups, ReadGroups, AfterDrain
  <2>2. \A d \in Calls : pc'[d] = IF d = s THEN place ELSE pc[d]
    BY <2>1, GotoMoves
  <2> QED
    BY <1>19, <2>2 DEF DecideGroups, latch
<1>20. ASSUME NEW s \in Stops, DecideSolos(s) PROVE StopMoves
  BY <1>20 DEF DecideSolos, Goto, Release, Visited, AfterDrain, latch, tables, stops, In, Present, latch
<1>21. ASSUME NEW s \in Stops, KillGroups(s) PROVE StopMoves
  BY <1>21 DEF KillGroups, Goto, Acquire, HardSweep, Killed, Visited, Pruned, latch, In, Present, latch
<1>22. ASSUME NEW s \in Stops, KillSolos(s) PROVE StopMoves
  BY <1>22 DEF KillSolos, Goto, Release, HardSweep, Killed, Visited, Pruned, latch, In, Present, latch
<1>23. ASSUME NEW s \in Stops, RequestSpare(s) PROVE StopMoves
  BY <1>23 DEF RequestSpare, Goto, Request, tables, stops, RequestTakes, latch
<1>24. CASE DropGroup
  BY <1>24 DEF DropGroup, Killed, Quiet, latch, tables, stops
<1>25. CASE UNCHANGED vars
  BY <1>25 DEF vars, latch, tables, stops
<1> QED
  BY <1>1, <1>2, <1>3, <1>4, <1>5, <1>6, <1>7, <1>8, <1>9, <1>10, <1>11, <1>12, <1>13, <1>14, <1>15, <1>16, <1>17, <1>18, <1>19, <1>20, <1>21, <1>22, <1>23, <1>24, <1>25 DEF Next, JoinStep, StopStep

-----------------------------------------------------------------------------
(* The inductive invariant.                                                *)

\* Every step keeps each call on the path of its kind.
LEMMA PlaceStep ==
    TypeOK /\ PlaceInv /\ [Next]_vars => PlaceInv'
<1> SUFFICES ASSUME TypeOK, PlaceInv, [Next]_vars PROVE PlaceInv'
  OBVIOUS
<1> USE DEF PlaceInv, Calls, Joins
<1>1. ASSUME NEW j \in Joins, Spawn(j) PROVE PlaceInv'
  <2>1. PICK place \in {"forked", "refused"} : Goto(j, place)
    BY <1>1 DEF Spawn
  <2>2. \A d \in Calls : pc'[d] = IF d = j THEN place ELSE pc[d]
    BY <2>1, GotoMoves
  <2> QED
    BY <1>1, <2>2 DEF Spawn, latch, tables, stops
<1>2. ASSUME NEW j \in Joins, Track(j) PROVE PlaceInv'
  <2>1. \A d \in Calls : pc'[d] = IF d = j THEN "tracked" ELSE pc[d]
    BY <1>2, GotoMoves DEF Track, Calls
  <2> QED
    BY <1>2, <2>1 DEF Track, latch, stops
<1>3. ASSUME NEW j \in Joins, SpawnReturns(j) PROVE PlaceInv'
  <2>1. \A d \in Calls : pc'[d] = IF d = j THEN "joined" ELSE pc[d]
    BY <1>3, GotoMoves DEF SpawnReturns, Calls
  <2> QED
    BY <1>3, <2>1 DEF SpawnReturns, tables, stops
<1>4. ASSUME NEW j \in Joins, LaunchFails(j) PROVE PlaceInv'
  <2>1. \A d \in Calls : pc'[d] = IF d = j THEN "undoing" ELSE pc[d]
    BY <1>4, GotoMoves DEF LaunchFails, Calls
  <2> QED
    BY <1>4, <2>1 DEF LaunchFails, latch, tables, stops
<1>5. ASSUME NEW j \in Joins, RollbackKills(j) PROVE PlaceInv'
  <2>1. \A d \in Calls : pc'[d] = IF d = j THEN "killed" ELSE pc[d]
    BY <1>5, GotoMoves DEF RollbackKills, Calls
  <2> QED
    BY <1>5, <2>1 DEF RollbackKills, Acquire, Killed, latch, stops
<1>6. ASSUME NEW j \in Joins, RollbackRestores(j) PROVE PlaceInv'
  <2>1. \A d \in Calls : pc'[d] = IF d = j THEN "undone" ELSE pc[d]
    BY <1>6, GotoMoves DEF RollbackRestores, Calls
  <2> QED
    BY <1>6, <2>1 DEF RollbackRestores, Release, Request, tables, stops, RequestTakes
<1>7. ASSUME NEW j \in Joins, Adopt(j) PROVE PlaceInv'
  <2>1. PICK place \in {"locked", "refused"} : Goto(j, place)
    BY <1>7 DEF Adopt
  <2>2. \A d \in Calls : pc'[d] = IF d = j THEN place ELSE pc[d]
    BY <2>1, GotoMoves
  <2> QED
    BY <1>7, <2>2 DEF Adopt, Acquire, latch, stops
<1>8. ASSUME NEW j \in Joins, AdoptTracks(j) PROVE PlaceInv'
  <2>1. PICK place \in {"joined", "refused"} : Goto(j, place)
    BY <1>8 DEF AdoptTracks
  <2>2. \A d \in Calls : pc'[d] = IF d = j THEN place ELSE pc[d]
    BY <2>1, GotoMoves
  <2> QED
    BY <1>8, <2>2 DEF AdoptTracks, Release, stops
<1>9. ASSUME NEW j \in Joins, ClearLoads(j) PROVE PlaceInv'
  <2>1. \A d \in Calls : pc'[d] = IF d = j THEN "loaded" ELSE pc[d]
    BY <1>9, GotoMoves DEF ClearLoads, Calls
  <2> QED
    BY <1>9, <2>1 DEF ClearLoads, tables, stops
<1>10. ASSUME NEW j \in Joins, ClearExchanges(j) PROVE PlaceInv'
  <2>1. CASE seen[j] = word
    <3>1. \A d \in Calls : pc'[d] = IF d = j THEN "cleared" ELSE pc[d]
      BY <1>10, <2>1, GotoMoves DEF ClearExchanges, Calls
    <3> QED
      BY <1>10, <3>1 DEF ClearExchanges
  <2>2. CASE seen[j] # word
    BY <1>10, <2>2 DEF ClearExchanges
  <2> QED
    BY <2>1, <2>2
<1>11. ASSUME NEW j \in Joins, ProcessExits(j) PROVE PlaceInv'
  BY <1>11 DEF ProcessExits, latch, tables, stops
<1>12. ASSUME NEW j \in Joins, HandleReaps(j) PROVE PlaceInv'
  BY <1>12 DEF HandleReaps, latch, tables, stops
<1>13. ASSUME NEW s \in Stops, StopBegins(s) PROVE PlaceInv'
  <2>1. PICK place \in {"kill", "soft"} : Goto(s, place)
    BY <1>13 DEF StopBegins
  <2>2. \A d \in Calls : pc'[d] = IF d = s THEN place ELSE pc[d]
    BY <2>1, GotoMoves
  <2> QED
    BY <1>13, <2>2 DEF StopBegins, Joined, tables
<1>14. ASSUME NEW s \in Stops, SoftGroups(s) PROVE PlaceInv'
  <2>1. \A d \in Calls : pc'[d] = IF d = s THEN "softSolos" ELSE pc[d]
    BY <1>14, GotoMoves DEF SoftGroups, Calls
  <2> QED
    BY <1>14, <2>1 DEF SoftGroups, Acquire, SoftSweep, Visited, Pruned, latch, stops, In, Present
<1>15. ASSUME NEW s \in Stops, SoftSolos(s) PROVE PlaceInv'
  <2>1. \A d \in Calls : pc'[d] = IF d = s THEN "poll" ELSE pc[d]
    BY <1>15, GotoMoves DEF SoftSolos, Calls
  <2> QED
    BY <1>15, <2>1 DEF SoftSolos, Release, SoftSweep, Visited, Pruned, latch, stops, In, Present
<1>16. ASSUME NEW s \in Stops, PollGroups(s) PROVE PlaceInv'
  <2>1. PICK place \in {"pollSolos", "decide"} : Goto(s, place)
    BY <1>16 DEF PollGroups, ReadGroups
  <2>2. \A d \in Calls : pc'[d] = IF d = s THEN place ELSE pc[d]
    BY <2>1, GotoMoves
  <2> QED
    BY <1>16, <2>2 DEF PollGroups, ReadGroups, latch, tables, stops, Acquire, Visited, In, Present
<1>17. ASSUME NEW s \in Stops, PollSolos(s) PROVE PlaceInv'
  <2>1. \A d \in Calls : pc'[d] = IF d = s THEN "decide" ELSE pc[d]
    BY <1>17, GotoMoves DEF PollSolos, Calls
  <2> QED
    BY <1>17, <2>1 DEF PollSolos, Release, latch, tables, stops
<1>18. ASSUME NEW s \in Stops, Abandon(s) PROVE PlaceInv'
  <2>1. \A d \in Calls : pc'[d] = IF d = s THEN "abandoned" ELSE pc[d]
    BY <1>18, GotoMoves DEF Abandon, Calls
  <2> QED
    BY <1>18, <2>1 DEF Abandon, latch, tables, stops
<1>19. ASSUME NEW s \in Stops, DecideGroups(s) PROVE PlaceInv'
  <2>1. PICK place \in {"decideSolos", "request", "kill"} : Goto(s, place)
    BY <1>19 DEF DecideGroups, ReadGroups, AfterDrain
  <2>2. \A d \in Calls : pc'[d] = IF d = s THEN place ELSE pc[d]
    BY <2>1, GotoMoves
  <2> QED
    BY <1>19, <2>2 DEF DecideGroups, ReadGroups, AfterDrain, latch, tables, stops, Acquire, Visited, In, Present
<1>20. ASSUME NEW s \in Stops, DecideSolos(s) PROVE PlaceInv'
  <2>1. PICK place \in {"request", "kill", "done"} : Goto(s, place)
    BY <1>20 DEF DecideSolos, AfterDrain
  <2>2. \A d \in Calls : pc'[d] = IF d = s THEN place ELSE pc[d]
    BY <2>1, GotoMoves
  <2> QED
    BY <1>20, <2>2 DEF DecideSolos, Release, Visited, AfterDrain, latch, tables, stops, In, Present
<1>21. ASSUME NEW s \in Stops, KillGroups(s) PROVE PlaceInv'
  <2>1. \A d \in Calls : pc'[d] = IF d = s THEN "killSolos" ELSE pc[d]
    BY <1>21, GotoMoves DEF KillGroups, Calls
  <2> QED
    BY <1>21, <2>1 DEF KillGroups, Acquire, HardSweep, Killed, Visited, Pruned, latch, In, Present
<1>22. ASSUME NEW s \in Stops, KillSolos(s) PROVE PlaceInv'
  <2>1. \A d \in Calls : pc'[d] = IF d = s THEN "done" ELSE pc[d]
    BY <1>22, GotoMoves DEF KillSolos, Calls
  <2> QED
    BY <1>22, <2>1 DEF KillSolos, Release, HardSweep, Killed, Visited, Pruned, latch, In, Present
<1>23. ASSUME NEW s \in Stops, RequestSpare(s) PROVE PlaceInv'
  <2>1. \A d \in Calls : pc'[d] = IF d = s THEN "done" ELSE pc[d]
    BY <1>23, GotoMoves DEF RequestSpare, Calls
  <2> QED
    BY <1>23, <2>1 DEF RequestSpare, Request, tables, stops, RequestTakes
<1>24. CASE DropGroup
  BY <1>24 DEF DropGroup, Killed, Quiet, latch, tables, stops
<1>25. CASE UNCHANGED vars
  BY <1>25 DEF vars, latch, tables, stops
<1> QED
  BY <1>1, <1>2, <1>3, <1>4, <1>5, <1>6, <1>7, <1>8, <1>9, <1>10, <1>11, <1>12, <1>13, <1>14, <1>15, <1>16, <1>17, <1>18, <1>19, <1>20, <1>21, <1>22, <1>23, <1>24, <1>25 DEF Next, JoinStep, StopStep

\* Only the call in its critical section has the mutex.
LEMMA LockStep ==
    TypeOK /\ PlaceInv /\ LockInv /\ [Next]_vars => LockInv'
<1> SUFFICES ASSUME TypeOK, PlaceInv, LockInv, [Next]_vars PROVE LockInv'
  OBVIOUS
<1> USE DEF LockInv, InLock, Holds, Calls, Joins, PlaceInv
<1>1. ASSUME NEW j \in Joins, Spawn(j) PROVE LockInv'
  <2>1. PICK place \in {"forked", "refused"} : Goto(j, place)
    BY <1>1 DEF Spawn
  <2>2. \A d \in Calls : pc'[d] = IF d = j THEN place ELSE pc[d]
    BY <2>1, GotoMoves
  <2> QED
    BY <1>1, <2>2 DEF Spawn, latch, tables, stops
<1>2. ASSUME NEW j \in Joins, Track(j) PROVE LockInv'
  <2>1. \A d \in Calls : pc'[d] = IF d = j THEN "tracked" ELSE pc[d]
    BY <1>2, GotoMoves DEF Track, Calls
  <2> QED
    BY <1>2, <2>1 DEF Track, latch, stops
<1>3. ASSUME NEW j \in Joins, SpawnReturns(j) PROVE LockInv'
  <2>1. \A d \in Calls : pc'[d] = IF d = j THEN "joined" ELSE pc[d]
    BY <1>3, GotoMoves DEF SpawnReturns, Calls
  <2> QED
    BY <1>3, <2>1 DEF SpawnReturns, tables, stops
<1>4. ASSUME NEW j \in Joins, LaunchFails(j) PROVE LockInv'
  <2>1. \A d \in Calls : pc'[d] = IF d = j THEN "undoing" ELSE pc[d]
    BY <1>4, GotoMoves DEF LaunchFails, Calls
  <2> QED
    BY <1>4, <2>1 DEF LaunchFails, latch, tables, stops
<1>5. ASSUME NEW j \in Joins, RollbackKills(j) PROVE LockInv'
  <2>1. \A d \in Calls : pc'[d] = IF d = j THEN "killed" ELSE pc[d]
    BY <1>5, GotoMoves DEF RollbackKills, Calls
  <2> QED
    BY <1>5, <2>1 DEF RollbackKills, Acquire, Killed, latch, stops
<1>6. ASSUME NEW j \in Joins, RollbackRestores(j) PROVE LockInv'
  <2>1. \A d \in Calls : pc'[d] = IF d = j THEN "undone" ELSE pc[d]
    BY <1>6, GotoMoves DEF RollbackRestores, Calls
  <2> QED
    BY <1>6, <2>1 DEF RollbackRestores, Release, Request, tables, stops, RequestTakes
<1>7. ASSUME NEW j \in Joins, Adopt(j) PROVE LockInv'
  <2>1. CASE Acquire(j) /\ Goto(j, "locked")
    BY <1>7, <2>1, GotoMoves DEF Adopt, Acquire
  <2>2. CASE Goto(j, "refused") /\ UNCHANGED owner
    BY <1>7, <2>2, GotoMoves DEF Adopt
  <2> QED
    BY <1>7, <2>1, <2>2 DEF Adopt
<1>8. ASSUME NEW j \in Joins, AdoptTracks(j) PROVE LockInv'
  <2>1. PICK place \in {"joined", "refused"} : Goto(j, place)
    BY <1>8 DEF AdoptTracks
  <2>2. \A d \in Calls : pc'[d] = IF d = j THEN place ELSE pc[d]
    BY <2>1, GotoMoves
  <2> QED
    BY <1>8, <2>2 DEF AdoptTracks, Release, stops
<1>9. ASSUME NEW j \in Joins, ClearLoads(j) PROVE LockInv'
  <2>1. \A d \in Calls : pc'[d] = IF d = j THEN "loaded" ELSE pc[d]
    BY <1>9, GotoMoves DEF ClearLoads, Calls
  <2> QED
    BY <1>9, <2>1 DEF ClearLoads, tables, stops
<1>10. ASSUME NEW j \in Joins, ClearExchanges(j) PROVE LockInv'
  <2>1. CASE seen[j] = word
    <3>1. \A d \in Calls : pc'[d] = IF d = j THEN "cleared" ELSE pc[d]
      BY <1>10, <2>1, GotoMoves DEF ClearExchanges, Calls
    <3> QED
      BY <1>10, <3>1 DEF ClearExchanges
  <2>2. CASE seen[j] # word
    BY <1>10, <2>2 DEF ClearExchanges
  <2> QED
    BY <2>1, <2>2
<1>11. ASSUME NEW j \in Joins, ProcessExits(j) PROVE LockInv'
  BY <1>11 DEF ProcessExits, latch, tables, stops
<1>12. ASSUME NEW j \in Joins, HandleReaps(j) PROVE LockInv'
  BY <1>12 DEF HandleReaps, latch, tables, stops
<1>13. ASSUME NEW s \in Stops, StopBegins(s) PROVE LockInv'
  <2>1. PICK place \in {"kill", "soft"} : Goto(s, place)
    BY <1>13 DEF StopBegins
  <2>2. \A d \in Calls : pc'[d] = IF d = s THEN place ELSE pc[d]
    BY <2>1, GotoMoves
  <2> QED
    BY <1>13, <2>2 DEF StopBegins, Joined, tables
<1>14. ASSUME NEW s \in Stops, SoftGroups(s) PROVE LockInv'
  <2>1. \A d \in Calls : pc'[d] = IF d = s THEN "softSolos" ELSE pc[d]
    BY <1>14, GotoMoves DEF SoftGroups, Calls
  <2> QED
    BY <1>14, <2>1 DEF SoftGroups, Acquire, SoftSweep, Visited, Pruned, latch, stops, In, Present
<1>15. ASSUME NEW s \in Stops, SoftSolos(s) PROVE LockInv'
  <2>1. \A d \in Calls : pc'[d] = IF d = s THEN "poll" ELSE pc[d]
    BY <1>15, GotoMoves DEF SoftSolos, Calls
  <2> QED
    BY <1>15, <2>1 DEF SoftSolos, Release, SoftSweep, Visited, Pruned, latch, stops, In, Present
<1>16. ASSUME NEW s \in Stops, PollGroups(s) PROVE LockInv'
  <2>1. CASE owner = Nobody /\ Goto(s, "decide") /\ UNCHANGED owner
    BY <1>16, <2>1, GotoMoves DEF PollGroups, AfterDrain
  <2>2. CASE Acquire(s) /\ Goto(s, "pollSolos")
    BY <1>16, <2>2, GotoMoves DEF PollGroups, Acquire
  <2> QED
    BY <1>16, <2>1, <2>2 DEF PollGroups, ReadGroups
<1>17. ASSUME NEW s \in Stops, PollSolos(s) PROVE LockInv'
  <2>1. \A d \in Calls : pc'[d] = IF d = s THEN "decide" ELSE pc[d]
    BY <1>17, GotoMoves DEF PollSolos, Calls
  <2> QED
    BY <1>17, <2>1 DEF PollSolos, Release, latch, tables, stops
<1>18. ASSUME NEW s \in Stops, Abandon(s) PROVE LockInv'
  <2>1. \A d \in Calls : pc'[d] = IF d = s THEN "abandoned" ELSE pc[d]
    BY <1>18, GotoMoves DEF Abandon, Calls
  <2> QED
    BY <1>18, <2>1 DEF Abandon, latch, tables, stops
<1>19. ASSUME NEW s \in Stops, DecideGroups(s) PROVE LockInv'
  <2>1. CASE owner = Nobody /\ Goto(s, AfterDrain(s, FALSE)) /\ UNCHANGED owner
    BY <1>19, <2>1, GotoMoves DEF DecideGroups, AfterDrain
  <2>2. CASE Acquire(s) /\ Goto(s, "decideSolos")
    BY <1>19, <2>2, GotoMoves DEF DecideGroups, Acquire
  <2> QED
    BY <1>19, <2>1, <2>2 DEF DecideGroups, ReadGroups
<1>20. ASSUME NEW s \in Stops, DecideSolos(s) PROVE LockInv'
  <2>1. PICK place \in {"request", "kill", "done"} : Goto(s, place)
    BY <1>20 DEF DecideSolos, AfterDrain
  <2>2. \A d \in Calls : pc'[d] = IF d = s THEN place ELSE pc[d]
    BY <2>1, GotoMoves
  <2> QED
    BY <1>20, <2>2 DEF DecideSolos, Release, Visited, AfterDrain, latch, tables, stops, In, Present
<1>21. ASSUME NEW s \in Stops, KillGroups(s) PROVE LockInv'
  <2>1. \A d \in Calls : pc'[d] = IF d = s THEN "killSolos" ELSE pc[d]
    BY <1>21, GotoMoves DEF KillGroups, Calls
  <2> QED
    BY <1>21, <2>1 DEF KillGroups, Acquire, HardSweep, Killed, Visited, Pruned, latch, In, Present
<1>22. ASSUME NEW s \in Stops, KillSolos(s) PROVE LockInv'
  <2>1. \A d \in Calls : pc'[d] = IF d = s THEN "done" ELSE pc[d]
    BY <1>22, GotoMoves DEF KillSolos, Calls
  <2> QED
    BY <1>22, <2>1 DEF KillSolos, Release, HardSweep, Killed, Visited, Pruned, latch, In, Present
<1>23. ASSUME NEW s \in Stops, RequestSpare(s) PROVE LockInv'
  <2>1. \A d \in Calls : pc'[d] = IF d = s THEN "done" ELSE pc[d]
    BY <1>23, GotoMoves DEF RequestSpare, Calls
  <2> QED
    BY <1>23, <2>1 DEF RequestSpare, Request, tables, stops, RequestTakes
<1>24. CASE DropGroup
  BY <1>24 DEF DropGroup, Killed, Quiet, latch, tables, stops
<1>25. CASE UNCHANGED vars
  BY <1>25 DEF vars, latch, tables, stops
<1> QED
  BY <1>1, <1>2, <1>3, <1>4, <1>5, <1>6, <1>7, <1>8, <1>9, <1>10, <1>11, <1>12, <1>13, <1>14, <1>15, <1>16, <1>17, <1>18, <1>19, <1>20, <1>21, <1>22, <1>23, <1>24, <1>25 DEF Next, JoinStep, StopStep

\* Nobody who joined leaves the tables before it is gone.
LEMMA TrackStep ==
    TypeOK /\ PlaceInv /\ TrackInv /\ [Next]_vars => TrackInv'
<1> SUFFICES ASSUME TypeOK, PlaceInv, TrackInv, [Next]_vars PROVE TrackInv'
  OBVIOUS
<1> USE DEF TrackInv, Calls, Joins, TypeOK, Present, PlaceInv
<1>1. ASSUME NEW j \in Joins, Spawn(j) PROVE TrackInv'
  <2>1. PICK place \in {"forked", "refused"} : Goto(j, place)
    BY <1>1 DEF Spawn
  <2>2. \A d \in Calls : pc'[d] = IF d = j THEN place ELSE pc[d]
    BY <2>1, GotoMoves
  <2> QED
    BY <1>1, <2>2 DEF Spawn, latch, tables, stops
<1>2. ASSUME NEW j \in Joins, Track(j) PROVE TrackInv'
  <2>1. \A d \in Calls : pc'[d] = IF d = j THEN "tracked" ELSE pc[d]
    BY <1>2, GotoMoves DEF Track, Calls
  <2> QED
    BY <1>2, <2>1 DEF Track, latch, stops
<1>3. ASSUME NEW j \in Joins, SpawnReturns(j) PROVE TrackInv'
  <2>1. \A d \in Calls : pc'[d] = IF d = j THEN "joined" ELSE pc[d]
    BY <1>3, GotoMoves DEF SpawnReturns, Calls
  <2> QED
    BY <1>3, <2>1 DEF SpawnReturns, tables, stops
<1>4. ASSUME NEW j \in Joins, LaunchFails(j) PROVE TrackInv'
  <2>1. \A d \in Calls : pc'[d] = IF d = j THEN "undoing" ELSE pc[d]
    BY <1>4, GotoMoves DEF LaunchFails, Calls
  <2> QED
    BY <1>4, <2>1 DEF LaunchFails, latch, tables, stops
<1>5. ASSUME NEW j \in Joins, RollbackKills(j) PROVE TrackInv'
  <2>1. \A d \in Calls : pc'[d] = IF d = j THEN "killed" ELSE pc[d]
    BY <1>5, GotoMoves DEF RollbackKills, Calls
  <2> QED
    BY <1>5, <2>1 DEF RollbackKills, Acquire, Killed, latch, stops
<1>6. ASSUME NEW j \in Joins, RollbackRestores(j) PROVE TrackInv'
  <2>1. \A d \in Calls : pc'[d] = IF d = j THEN "undone" ELSE pc[d]
    BY <1>6, GotoMoves DEF RollbackRestores, Calls
  <2> QED
    BY <1>6, <2>1 DEF RollbackRestores, Release, Request, tables, stops, RequestTakes
<1>7. ASSUME NEW j \in Joins, Adopt(j) PROVE TrackInv'
  <2>1. PICK place \in {"locked", "refused"} : Goto(j, place)
    BY <1>7 DEF Adopt
  <2>2. \A d \in Calls : pc'[d] = IF d = j THEN place ELSE pc[d]
    BY <2>1, GotoMoves
  <2> QED
    BY <1>7, <2>2 DEF Adopt, Acquire, latch, stops
<1>8. ASSUME NEW j \in Joins, AdoptTracks(j) PROVE TrackInv'
  <2>1. PICK place \in {"joined", "refused"} : Goto(j, place)
    BY <1>8 DEF AdoptTracks
  <2>2. \A d \in Calls : pc'[d] = IF d = j THEN place ELSE pc[d]
    BY <2>1, GotoMoves
  <2> QED
    BY <1>8, <2>2 DEF AdoptTracks, Release, stops
<1>9. ASSUME NEW j \in Joins, ClearLoads(j) PROVE TrackInv'
  <2>1. \A d \in Calls : pc'[d] = IF d = j THEN "loaded" ELSE pc[d]
    BY <1>9, GotoMoves DEF ClearLoads, Calls
  <2> QED
    BY <1>9, <2>1 DEF ClearLoads, tables, stops
<1>10. ASSUME NEW j \in Joins, ClearExchanges(j) PROVE TrackInv'
  BY <1>10 DEF ClearExchanges, Goto, Rearmed, Displaced, tables, stops
<1>11. ASSUME NEW j \in Joins, ProcessExits(j) PROVE TrackInv'
  BY <1>11 DEF ProcessExits, latch, tables, stops
<1>12. ASSUME NEW j \in Joins, HandleReaps(j) PROVE TrackInv'
  BY <1>12 DEF HandleReaps, latch, tables, stops
<1>13. ASSUME NEW s \in Stops, StopBegins(s) PROVE TrackInv'
  <2>1. PICK place \in {"kill", "soft"} : Goto(s, place)
    BY <1>13 DEF StopBegins
  <2>2. \A d \in Calls : pc'[d] = IF d = s THEN place ELSE pc[d]
    BY <2>1, GotoMoves
  <2> QED
    BY <1>13, <2>2 DEF StopBegins, Joined, tables
<1>14. ASSUME NEW s \in Stops, SoftGroups(s) PROVE TrackInv'
  <2>1. \A d \in Calls : pc'[d] = IF d = s THEN "softSolos" ELSE pc[d]
    BY <1>14, GotoMoves DEF SoftGroups, Calls
  <2> QED
    BY <1>14, <2>1 DEF SoftGroups, Acquire, SoftSweep, Visited, Pruned, latch, stops, In, Present
<1>15. ASSUME NEW s \in Stops, SoftSolos(s) PROVE TrackInv'
  <2>1. \A d \in Calls : pc'[d] = IF d = s THEN "poll" ELSE pc[d]
    BY <1>15, GotoMoves DEF SoftSolos, Calls
  <2> QED
    BY <1>15, <2>1 DEF SoftSolos, Release, SoftSweep, Visited, Pruned, latch, stops, In, Present
<1>16. ASSUME NEW s \in Stops, PollGroups(s) PROVE TrackInv'
  <2>1. PICK place \in {"pollSolos", "decide"} : Goto(s, place)
    BY <1>16 DEF PollGroups, ReadGroups
  <2>2. \A d \in Calls : pc'[d] = IF d = s THEN place ELSE pc[d]
    BY <2>1, GotoMoves
  <2> QED
    BY <1>16, <2>2 DEF PollGroups, ReadGroups, latch, tables, stops, Acquire, Visited, In, Present
<1>17. ASSUME NEW s \in Stops, PollSolos(s) PROVE TrackInv'
  <2>1. \A d \in Calls : pc'[d] = IF d = s THEN "decide" ELSE pc[d]
    BY <1>17, GotoMoves DEF PollSolos, Calls
  <2> QED
    BY <1>17, <2>1 DEF PollSolos, Release, latch, tables, stops
<1>18. ASSUME NEW s \in Stops, Abandon(s) PROVE TrackInv'
  <2>1. \A d \in Calls : pc'[d] = IF d = s THEN "abandoned" ELSE pc[d]
    BY <1>18, GotoMoves DEF Abandon, Calls
  <2> QED
    BY <1>18, <2>1 DEF Abandon, latch, tables, stops
<1>19. ASSUME NEW s \in Stops, DecideGroups(s) PROVE TrackInv'
  <2>1. PICK place \in {"decideSolos", "request", "kill"} : Goto(s, place)
    BY <1>19 DEF DecideGroups, ReadGroups, AfterDrain
  <2>2. \A d \in Calls : pc'[d] = IF d = s THEN place ELSE pc[d]
    BY <2>1, GotoMoves
  <2> QED
    BY <1>19, <2>2 DEF DecideGroups, ReadGroups, AfterDrain, latch, tables, stops, Acquire, Visited, In, Present
<1>20. ASSUME NEW s \in Stops, DecideSolos(s) PROVE TrackInv'
  <2>1. PICK place \in {"request", "kill", "done"} : Goto(s, place)
    BY <1>20 DEF DecideSolos, AfterDrain
  <2>2. \A d \in Calls : pc'[d] = IF d = s THEN place ELSE pc[d]
    BY <2>1, GotoMoves
  <2> QED
    BY <1>20, <2>2 DEF DecideSolos, Release, Visited, AfterDrain, latch, tables, stops, In, Present
<1>21. ASSUME NEW s \in Stops, KillGroups(s) PROVE TrackInv'
  <2>1. \A d \in Calls : pc'[d] = IF d = s THEN "killSolos" ELSE pc[d]
    BY <1>21, GotoMoves DEF KillGroups, Calls
  <2> QED
    BY <1>21, <2>1 DEF KillGroups, Acquire, HardSweep, Killed, Visited, Pruned, latch, In, Present
<1>22. ASSUME NEW s \in Stops, KillSolos(s) PROVE TrackInv'
  <2>1. \A d \in Calls : pc'[d] = IF d = s THEN "done" ELSE pc[d]
    BY <1>22, GotoMoves DEF KillSolos, Calls
  <2> QED
    BY <1>22, <2>1 DEF KillSolos, Release, HardSweep, Killed, Visited, Pruned, latch, In, Present
<1>23. ASSUME NEW s \in Stops, RequestSpare(s) PROVE TrackInv'
  <2>1. \A d \in Calls : pc'[d] = IF d = s THEN "done" ELSE pc[d]
    BY <1>23, GotoMoves DEF RequestSpare, Calls
  <2> QED
    BY <1>23, <2>1 DEF RequestSpare, Request, tables, stops, RequestTakes
<1>24. CASE DropGroup
  BY <1>24 DEF DropGroup, Killed, Quiet, latch, tables, stops
<1>25. CASE UNCHANGED vars
  BY <1>25 DEF vars, latch, tables, stops
<1> QED
  BY <1>1, <1>2, <1>3, <1>4, <1>5, <1>6, <1>7, <1>8, <1>9, <1>10, <1>11, <1>12, <1>13, <1>14, <1>15, <1>16, <1>17, <1>18, <1>19, <1>20, <1>21, <1>22, <1>23, <1>24, <1>25 DEF Next, JoinStep, StopStep

\* The snapshots: a stop warns a table by sweeping it, and whoever comes to stand
\* afterwards moves the generation past the snapshot.
LEMMA EpochStep ==
    TypeOK /\ PlaceInv /\ LockInv /\ TrackInv /\ EpochInv /\ [Next]_vars => EpochInv'
<1> SUFFICES ASSUME TypeOK, PlaceInv, LockInv, TrackInv, EpochInv, [Next]_vars,
                    NEW s \in Stops, epoch'[s] = word'.gen,
                    NEW j \in Joins, j \in Standing', Present(j)'
             PROVE  /\ pc'[s] \in WarnGroupsPc /\ home'[j] = "groups" => s \in heard'[j]
                    /\ pc'[s] \in WarnSolosPc /\ home'[j] = "solos" => s \in heard'[j]
  BY DEF EpochInv, Warned, WarnGroupsPc, WarnSolosPc, Standing
<1>1. Standers /\ WordMoves /\ StopMoves
  BY StandersStep, WordStep, StopStepMoves
<1>2. ASSUME pc'[s] \in WarnGroupsPc
      PROVE  /\ epoch[s] = word.gen /\ word'.gen = word.gen
             /\ j \in Standing /\ Present(j) /\ home'[j] = home[j]
             /\ heard[j] \subseteq heard'[j]
  <2>1. epoch'[s] = epoch[s] /\ epoch[s] \in Nat /\ word.gen \in Nat /\ epoch[s] <= word.gen
    BY <1>1, <1>2 DEF StopMoves, TypeOK, Word
  <2>2. word'.gen = word.gen \/ word'.gen = word.gen + 1
    BY <1>1 DEF WordMoves
  <2>3. epoch[s] = word.gen /\ word'.gen = word.gen
    BY <2>1, <2>2
  <2>4. word'.gen # word.gen + 1
    BY <2>1, <2>3
  <2> QED
    BY <1>1, <2>3, <2>4 DEF Standers
<1>3. ASSUME pc'[s] \in WarnGroupsPc, home'[j] = "groups" PROVE s \in heard'[j]
  <2>1. CASE pc[s] \in WarnGroupsPc
    BY <1>2, <1>3, <2>1 DEF EpochInv, Warned, WarnGroupsPc
  <2>2. CASE SoftGroups(s)
    <3>1. j \in tracked
      <4>1. CASE j \in Spawns \cup Launches
        BY <1>2, <1>3, <4>1 DEF TrackInv, Standing
      <4>2. CASE j \in Adoptions
        <5>1. owner = Nobody
          BY <2>2 DEF SoftGroups, Acquire
        <5>2. pc[j] # "cleared"
          BY <4>2, <5>1 DEF LockInv, InLock, Calls, Joins
        <5> QED
          BY <1>2, <1>3, <4>2, <5>2 DEF TrackInv, Standing
      <4> QED
        BY <4>1, <4>2 DEF Joins
    <3> QED
      BY <1>2, <1>3, <2>2, <3>1 DEF SoftGroups, SoftSweep, Visited, In
  <2> QED
    BY <1>1, <1>3, <2>1, <2>2 DEF StopMoves
<1>4. ASSUME pc'[s] \in WarnSolosPc, home'[j] = "solos" PROVE s \in heard'[j]
  <2> USE DEF WarnSolosPc
  <2>1. CASE pc[s] \in WarnSolosPc
    BY <1>2, <1>4, <2>1 DEF EpochInv, Warned, WarnGroupsPc
  <2>2. CASE SoftSolos(s)
    <3>1. j \in Adoptions
      BY <1>2, <1>4 DEF TrackInv, Joins
    <3>2. owner = s /\ s # j
      BY <2>2, <3>1 DEF SoftSolos, LockInv, InLock, Holds, Calls, Joins
    <3>3. pc[j] # "cleared"
      BY <3>1, <3>2 DEF LockInv, InLock, Calls, Joins
    <3>4. j \in tracked
      BY <1>2, <1>4, <3>1, <3>3 DEF TrackInv, Standing
    <3> QED
      BY <1>2, <1>4, <2>2, <3>4 DEF SoftSolos, SoftSweep, Visited, In
  <2> QED
    BY <1>1, <1>4, <2>1, <2>2 DEF StopMoves
<1> QED
  BY <1>3, <1>4

\* The spare in force: it is set by a stop that has warned all who stand, or put
\* back by a rollback nobody has come to stand since.
LEMMA LatchStep ==
    TypeOK /\ EpochInv /\ LatchInv /\ TokenInv /\ [Next]_vars => LatchInv'
<1> SUFFICES ASSUME TypeOK, EpochInv, LatchInv, TokenInv, [Next]_vars, word'.by # Nobody,
                    NEW j \in Joins, j \in Standing', Present(j)'
             PROVE  word'.by \in heard'[j]
  BY DEF LatchInv, Warned, Standing
<1>1. Standers /\ WordMoves
  BY StandersStep, WordStep
<1>2. word.gen \in Nat /\ word'.gen = word.gen
  BY <1>1 DEF WordMoves, TypeOK, Word
<1>3. word'.gen # word.gen + 1
  BY <1>2
<1>4. j \in Standing /\ Present(j) /\ heard[j] \subseteq heard'[j]
  BY <1>1, <1>3 DEF Standers
<1>5. CASE word' = word
  BY <1>4, <1>5 DEF LatchInv, Warned
<1>6. ASSUME NEW s \in Stops, pc[s] = "request", epoch[s] = word.gen, word'.by = s
      PROVE  word'.by \in heard'[j]
  <2>1. home[j] \in {"groups", "solos"}
    BY DEF TypeOK, Tables
  <2> QED
    BY <1>4, <1>6, <2>1 DEF EpochInv, Warned
<1>7. ASSUME NEW p \in Joins, pc[p] = "killed", displaced[p].gen = word.gen,
             displaced[p].by # Nobody, word'.by = displaced[p].by
      PROVE  word'.by \in heard'[j]
  <2>1. j # p
    BY <1>4, <1>7 DEF Standing
  <2> QED
    BY <1>4, <1>7, <2>1 DEF TokenInv, Warned
<1> QED
  BY <1>1, <1>3, <1>5, <1>6, <1>7 DEF WordMoves

TokenPc == {"cleared", "undoing", "killed"}

\* A call that can restore a token has it from before, or has just exchanged the
\* word for it, and then nobody else came to stand.
TokenMoves ==
    \A p \in Joins : pc'[p] \in TokenPc =>
        \/ pc[p] \in TokenPc /\ displaced'[p] = displaced[p]
        \/ /\ displaced'[p].by = word.by
           /\ \A j \in Joins \ {p} : j \in Standing' => j \in Standing

\* Every step moves the tokens as TokenMoves says.
LEMMA TokenStepMoves ==
    TypeOK /\ [Next]_vars => TokenMoves
<1> SUFFICES ASSUME TypeOK, [Next]_vars PROVE TokenMoves
  OBVIOUS
<1> USE DEF TokenMoves, TokenPc, Calls
<1>1. ASSUME NEW j \in Joins, Spawn(j) PROVE TokenMoves
  <2>1. PICK place \in {"forked", "refused"} : Goto(j, place)
    BY <1>1 DEF Spawn
  <2>2. \A d \in Calls : pc'[d] = IF d = j THEN place ELSE pc[d]
    BY <2>1, GotoMoves
  <2> QED
    BY <1>1, <2>2 DEF Spawn, latch, tables, stops
<1>2. ASSUME NEW j \in Joins, Track(j) PROVE TokenMoves
  <2>1. \A d \in Calls : pc'[d] = IF d = j THEN "tracked" ELSE pc[d]
    BY <1>2, GotoMoves DEF Track, Calls
  <2> QED
    BY <1>2, <2>1 DEF Track, latch, stops
<1>3. ASSUME NEW j \in Joins, SpawnReturns(j) PROVE TokenMoves
  <2>1. \A d \in Calls : pc'[d] = IF d = j THEN "joined" ELSE pc[d]
    BY <1>3, GotoMoves DEF SpawnReturns, Calls
  <2> QED
    BY <1>3, <2>1 DEF SpawnReturns, tables, stops
<1>4. ASSUME NEW j \in Joins, LaunchFails(j) PROVE TokenMoves
  <2>1. \A d \in Calls : pc'[d] = IF d = j THEN "undoing" ELSE pc[d]
    BY <1>4, GotoMoves DEF LaunchFails, Calls
  <2> QED
    BY <1>4, <2>1 DEF LaunchFails, latch, tables, stops
<1>5. ASSUME NEW j \in Joins, RollbackKills(j) PROVE TokenMoves
  <2>1. \A d \in Calls : pc'[d] = IF d = j THEN "killed" ELSE pc[d]
    BY <1>5, GotoMoves DEF RollbackKills, Calls
  <2> QED
    BY <1>5, <2>1 DEF RollbackKills, Acquire, Killed, latch, stops
<1>6. ASSUME NEW j \in Joins, RollbackRestores(j) PROVE TokenMoves
  <2>1. \A d \in Calls : pc'[d] = IF d = j THEN "undone" ELSE pc[d]
    BY <1>6, GotoMoves DEF RollbackRestores, Calls
  <2> QED
    BY <1>6, <2>1 DEF RollbackRestores, Release, Request, tables, stops, RequestTakes
<1>7. ASSUME NEW j \in Joins, Adopt(j) PROVE TokenMoves
  <2>1. PICK place \in {"locked", "refused"} : Goto(j, place)
    BY <1>7 DEF Adopt
  <2>2. \A d \in Calls : pc'[d] = IF d = j THEN place ELSE pc[d]
    BY <2>1, GotoMoves
  <2> QED
    BY <1>7, <2>2 DEF Adopt, Acquire, latch, stops
<1>8. ASSUME NEW j \in Joins, AdoptTracks(j) PROVE TokenMoves
  <2>1. PICK place \in {"joined", "refused"} : Goto(j, place)
    BY <1>8 DEF AdoptTracks
  <2>2. \A d \in Calls : pc'[d] = IF d = j THEN place ELSE pc[d]
    BY <2>1, GotoMoves
  <2> QED
    BY <1>8, <2>2 DEF AdoptTracks, Release, stops
<1>9. ASSUME NEW j \in Joins, ClearLoads(j) PROVE TokenMoves
  <2>1. \A d \in Calls : pc'[d] = IF d = j THEN "loaded" ELSE pc[d]
    BY <1>9, GotoMoves DEF ClearLoads, Calls
  <2> QED
    BY <1>9, <2>1 DEF ClearLoads, tables, stops
<1>10. ASSUME NEW j \in Joins, ClearExchanges(j) PROVE TokenMoves
  <2>1. CASE seen[j] = word
    <3>1. \A d \in Calls : pc'[d] = IF d = j THEN "cleared" ELSE pc[d]
      BY <1>10, <2>1, GotoMoves DEF ClearExchanges, Calls
    <3>2. /\ displaced'[j] = Displaced(word)
          /\ \A i \in Joins \ {j} : displaced'[i] = displaced[i]
      BY <1>10, <2>1 DEF ClearExchanges, TypeOK
    <3> QED
      BY <3>1, <3>2, RearmTypes DEF Standing
  <2>2. CASE seen[j] # word
    BY <1>10, <2>2 DEF ClearExchanges
  <2> QED
    BY <2>1, <2>2
<1>11. ASSUME NEW j \in Joins, ProcessExits(j) PROVE TokenMoves
  BY <1>11 DEF ProcessExits, latch, tables, stops
<1>12. ASSUME NEW j \in Joins, HandleReaps(j) PROVE TokenMoves
  BY <1>12 DEF HandleReaps, latch, tables, stops
<1>13. ASSUME NEW s \in Stops, StopBegins(s) PROVE TokenMoves
  <2>1. PICK place \in {"kill", "soft"} : Goto(s, place)
    BY <1>13 DEF StopBegins
  <2>2. \A d \in Calls : pc'[d] = IF d = s THEN place ELSE pc[d]
    BY <2>1, GotoMoves
  <2> QED
    BY <1>13, <2>2 DEF StopBegins, Joined, tables
<1>14. ASSUME NEW s \in Stops, SoftGroups(s) PROVE TokenMoves
  <2>1. \A d \in Calls : pc'[d] = IF d = s THEN "softSolos" ELSE pc[d]
    BY <1>14, GotoMoves DEF SoftGroups, Calls
  <2> QED
    BY <1>14, <2>1 DEF SoftGroups, Acquire, SoftSweep, Visited, Pruned, latch, stops, In, Present
<1>15. ASSUME NEW s \in Stops, SoftSolos(s) PROVE TokenMoves
  <2>1. \A d \in Calls : pc'[d] = IF d = s THEN "poll" ELSE pc[d]
    BY <1>15, GotoMoves DEF SoftSolos, Calls
  <2> QED
    BY <1>15, <2>1 DEF SoftSolos, Release, SoftSweep, Visited, Pruned, latch, stops, In, Present
<1>16. ASSUME NEW s \in Stops, PollGroups(s) PROVE TokenMoves
  <2>1. PICK place \in {"pollSolos", "decide"} : Goto(s, place)
    BY <1>16 DEF PollGroups, ReadGroups
  <2>2. \A d \in Calls : pc'[d] = IF d = s THEN place ELSE pc[d]
    BY <2>1, GotoMoves
  <2> QED
    BY <1>16, <2>2 DEF PollGroups, ReadGroups, latch, tables, stops, Acquire, Visited, In, Present
<1>17. ASSUME NEW s \in Stops, PollSolos(s) PROVE TokenMoves
  <2>1. \A d \in Calls : pc'[d] = IF d = s THEN "decide" ELSE pc[d]
    BY <1>17, GotoMoves DEF PollSolos, Calls
  <2> QED
    BY <1>17, <2>1 DEF PollSolos, Release, latch, tables, stops
<1>18. ASSUME NEW s \in Stops, Abandon(s) PROVE TokenMoves
  <2>1. \A d \in Calls : pc'[d] = IF d = s THEN "abandoned" ELSE pc[d]
    BY <1>18, GotoMoves DEF Abandon, Calls
  <2> QED
    BY <1>18, <2>1 DEF Abandon, latch, tables, stops
<1>19. ASSUME NEW s \in Stops, DecideGroups(s) PROVE TokenMoves
  <2>1. PICK place \in {"decideSolos", "request", "kill"} : Goto(s, place)
    BY <1>19 DEF DecideGroups, ReadGroups, AfterDrain
  <2>2. \A d \in Calls : pc'[d] = IF d = s THEN place ELSE pc[d]
    BY <2>1, GotoMoves
  <2> QED
    BY <1>19, <2>2 DEF DecideGroups, ReadGroups, AfterDrain, latch, tables, stops, Acquire, Visited, In, Present
<1>20. ASSUME NEW s \in Stops, DecideSolos(s) PROVE TokenMoves
  <2>1. PICK place \in {"request", "kill", "done"} : Goto(s, place)
    BY <1>20 DEF DecideSolos, AfterDrain
  <2>2. \A d \in Calls : pc'[d] = IF d = s THEN place ELSE pc[d]
    BY <2>1, GotoMoves
  <2> QED
    BY <1>20, <2>2 DEF DecideSolos, Release, Visited, AfterDrain, latch, tables, stops, In, Present
<1>21. ASSUME NEW s \in Stops, KillGroups(s) PROVE TokenMoves
  <2>1. \A d \in Calls : pc'[d] = IF d = s THEN "killSolos" ELSE pc[d]
    BY <1>21, GotoMoves DEF KillGroups, Calls
  <2> QED
    BY <1>21, <2>1 DEF KillGroups, Acquire, HardSweep, Killed, Visited, Pruned, latch, In, Present
<1>22. ASSUME NEW s \in Stops, KillSolos(s) PROVE TokenMoves
  <2>1. \A d \in Calls : pc'[d] = IF d = s THEN "done" ELSE pc[d]
    BY <1>22, GotoMoves DEF KillSolos, Calls
  <2> QED
    BY <1>22, <2>1 DEF KillSolos, Release, HardSweep, Killed, Visited, Pruned, latch, In, Present
<1>23. ASSUME NEW s \in Stops, RequestSpare(s) PROVE TokenMoves
  <2>1. \A d \in Calls : pc'[d] = IF d = s THEN "done" ELSE pc[d]
    BY <1>23, GotoMoves DEF RequestSpare, Calls
  <2> QED
    BY <1>23, <2>1 DEF RequestSpare, Request, tables, stops, RequestTakes
<1>24. CASE DropGroup
  BY <1>24 DEF DropGroup, Killed, Quiet, latch, tables, stops
<1>25. CASE UNCHANGED vars
  BY <1>25 DEF vars, latch, tables, stops
<1> QED
  BY <1>1, <1>2, <1>3, <1>4, <1>5, <1>6, <1>7, <1>8, <1>9, <1>10, <1>11, <1>12, <1>13, <1>14, <1>15, <1>16, <1>17, <1>18, <1>19, <1>20, <1>21, <1>22, <1>23, <1>24, <1>25 DEF Next, JoinStep, StopStep

\* The tokens: one that is still current names a spare that all others who stand
\* were warned for.
LEMMA TokenStep ==
    TypeOK /\ LatchInv /\ TokenInv /\ [Next]_vars => TokenInv'
<1> SUFFICES ASSUME TypeOK, LatchInv, TokenInv, [Next]_vars,
                    NEW p \in Joins, pc'[p] \in TokenPc,
                    displaced'[p].by # Nobody, displaced'[p].gen = word'.gen,
                    NEW j \in Joins \ {p}, j \in Standing', Present(j)'
             PROVE  displaced'[p].by \in heard'[j]
  BY DEF TokenInv, TokenPc, Warned, Standing
<1>1. Standers /\ WordMoves /\ TokenMoves
  BY StandersStep, WordStep, TokenStepMoves
<1>2. CASE pc[p] \in TokenPc /\ displaced'[p] = displaced[p]
  <2>1. displaced[p].gen \in Nat /\ word.gen \in Nat /\ displaced[p].gen <= word.gen
    BY DEF TypeOK, Word
  <2>2. word'.gen = word.gen \/ word'.gen = word.gen + 1
    BY <1>1 DEF WordMoves
  <2>3. displaced[p].gen = word.gen /\ word'.gen # word.gen + 1
    BY <1>2, <2>1, <2>2
  <2>4. j \in Standing /\ Present(j) /\ heard[j] \subseteq heard'[j]
    BY <1>1, <2>3 DEF Standers
  <2> QED
    BY <1>2, <2>3, <2>4 DEF TokenInv, TokenPc, Warned
<1>3. CASE displaced'[p].by = word.by /\ \A i \in Joins \ {p} : i \in Standing' => i \in Standing
  <2>1. j \in Standing /\ Present(j) /\ heard[j] \subseteq heard'[j]
    BY <1>1, <1>3 DEF Standers
  <2> QED
    BY <1>3, <2>1 DEF LatchInv, Warned
<1> QED
  BY <1>1, <1>2, <1>3 DEF TokenMoves

\* A request leaves the spare there was, or sets that of the shutdown it is for.
LEMMA WordBy ==
    ASSUME TypeOK, NEW g, NEW s, Request(g, s)
    PROVE  word'.by = word.by \/ word'.by = s
  BY DEF TypeOK, Word, Request

\* A spare is that of a non-escalating shutdown that has returned.
LEMMA AuthorStep ==
    TypeOK /\ AuthorInv /\ [Next]_vars => AuthorInv'
<1> SUFFICES ASSUME TypeOK, AuthorInv, [Next]_vars PROVE AuthorInv'
  OBVIOUS
<1> USE DEF AuthorInv, Calls, Joins
<1>1. ASSUME NEW j \in Joins, Spawn(j) PROVE AuthorInv'
  <2>1. PICK place \in {"forked", "refused"} : Goto(j, place)
    BY <1>1 DEF Spawn
  <2>2. \A d \in Calls : pc'[d] = IF d = j THEN place ELSE pc[d]
    BY <2>1, GotoMoves
  <2> QED
    BY <1>1, <2>2 DEF Spawn, latch, tables, stops
<1>2. ASSUME NEW j \in Joins, Track(j) PROVE AuthorInv'
  <2>1. \A d \in Calls : pc'[d] = IF d = j THEN "tracked" ELSE pc[d]
    BY <1>2, GotoMoves DEF Track, Calls
  <2> QED
    BY <1>2, <2>1 DEF Track, latch, stops
<1>3. ASSUME NEW j \in Joins, SpawnReturns(j) PROVE AuthorInv'
  <2>1. \A d \in Calls : pc'[d] = IF d = j THEN "joined" ELSE pc[d]
    BY <1>3, GotoMoves DEF SpawnReturns, Calls
  <2> QED
    BY <1>3, <2>1 DEF SpawnReturns, tables, stops
<1>4. ASSUME NEW j \in Joins, LaunchFails(j) PROVE AuthorInv'
  <2>1. \A d \in Calls : pc'[d] = IF d = j THEN "undoing" ELSE pc[d]
    BY <1>4, GotoMoves DEF LaunchFails, Calls
  <2> QED
    BY <1>4, <2>1 DEF LaunchFails, latch, tables, stops
<1>5. ASSUME NEW j \in Joins, RollbackKills(j) PROVE AuthorInv'
  <2>1. \A d \in Calls : pc'[d] = IF d = j THEN "killed" ELSE pc[d]
    BY <1>5, GotoMoves DEF RollbackKills, Calls
  <2> QED
    BY <1>5, <2>1 DEF RollbackKills, Acquire, Killed, latch, stops
<1>6. ASSUME NEW j \in Joins, RollbackRestores(j) PROVE AuthorInv'
  <2>1. \A d \in Calls : pc'[d] = IF d = j THEN "undone" ELSE pc[d]
    BY <1>6, GotoMoves DEF RollbackRestores, Calls
  <2>2. word'.by = word.by \/ word'.by = displaced[j].by
    BY <1>6, WordBy DEF RollbackRestores
  <2> QED
    BY <1>6, <2>1, <2>2 DEF RollbackRestores, stops
<1>7. ASSUME NEW j \in Joins, Adopt(j) PROVE AuthorInv'
  <2>1. PICK place \in {"locked", "refused"} : Goto(j, place)
    BY <1>7 DEF Adopt
  <2>2. \A d \in Calls : pc'[d] = IF d = j THEN place ELSE pc[d]
    BY <2>1, GotoMoves
  <2> QED
    BY <1>7, <2>2 DEF Adopt, Acquire, latch, stops
<1>8. ASSUME NEW j \in Joins, AdoptTracks(j) PROVE AuthorInv'
  <2>1. PICK place \in {"joined", "refused"} : Goto(j, place)
    BY <1>8 DEF AdoptTracks
  <2>2. \A d \in Calls : pc'[d] = IF d = j THEN place ELSE pc[d]
    BY <2>1, GotoMoves
  <2> QED
    BY <1>8, <2>2 DEF AdoptTracks, Release, stops
<1>9. ASSUME NEW j \in Joins, ClearLoads(j) PROVE AuthorInv'
  <2>1. \A d \in Calls : pc'[d] = IF d = j THEN "loaded" ELSE pc[d]
    BY <1>9, GotoMoves DEF ClearLoads, Calls
  <2> QED
    BY <1>9, <2>1 DEF ClearLoads, tables, stops
<1>10. ASSUME NEW j \in Joins, ClearExchanges(j) PROVE AuthorInv'
  <2>1. \A t \in Stops : pc'[t] = pc[t]
    <3>1. CASE seen[j] = word
      BY <1>10, <3>1, GotoMoves DEF ClearExchanges
    <3>2. CASE seen[j] # word
      BY <1>10, <3>2 DEF ClearExchanges
    <3> QED
      BY <3>1, <3>2
  <2>2. \A t \in Stops : t = word'.by \/ (\E i \in Joins : t = displaced'[i].by)
                         => t = word.by \/ (\E i \in Joins : t = displaced[i].by)
    <3>1. CASE seen[j] = word
      <4>1. word'.by = Nobody
        BY <1>10, <3>1, RearmTypes DEF ClearExchanges
      <4>2. \A i \in Joins : displaced'[i] = IF i = j THEN Displaced(word) ELSE displaced[i]
        BY <1>10, <3>1 DEF ClearExchanges, TypeOK
      <4>3. \A i \in Joins : displaced'[i].by = word.by \/ displaced'[i].by = displaced[i].by
        BY <4>2, RearmTypes
      <4> QED
        BY <4>1, <4>3
    <3>2. CASE seen[j] # word
      BY <1>10, <3>2 DEF ClearExchanges
    <3> QED
      BY <3>1, <3>2
  <2>3. mode' = mode
    BY <1>10 DEF ClearExchanges, stops
  <2> QED
    BY <2>1, <2>2, <2>3
<1>11. ASSUME NEW j \in Joins, ProcessExits(j) PROVE AuthorInv'
  BY <1>11 DEF ProcessExits, latch, tables, stops
<1>12. ASSUME NEW j \in Joins, HandleReaps(j) PROVE AuthorInv'
  BY <1>12 DEF HandleReaps, latch, tables, stops
<1>13. ASSUME NEW s \in Stops, StopBegins(s) PROVE AuthorInv'
  <2>1. PICK place \in {"kill", "soft"} : Goto(s, place)
    BY <1>13 DEF StopBegins
  <2>2. \A d \in Calls : pc'[d] = IF d = s THEN place ELSE pc[d]
    BY <2>1, GotoMoves
  <2> QED
    BY <1>13, <2>2 DEF StopBegins, Joined, tables
<1>14. ASSUME NEW s \in Stops, SoftGroups(s) PROVE AuthorInv'
  <2>1. \A d \in Calls : pc'[d] = IF d = s THEN "softSolos" ELSE pc[d]
    BY <1>14, GotoMoves DEF SoftGroups, Calls
  <2> QED
    BY <1>14, <2>1 DEF SoftGroups, Acquire, SoftSweep, Visited, Pruned, latch, stops, In, Present
<1>15. ASSUME NEW s \in Stops, SoftSolos(s) PROVE AuthorInv'
  <2>1. \A d \in Calls : pc'[d] = IF d = s THEN "poll" ELSE pc[d]
    BY <1>15, GotoMoves DEF SoftSolos, Calls
  <2> QED
    BY <1>15, <2>1 DEF SoftSolos, Release, SoftSweep, Visited, Pruned, latch, stops, In, Present
<1>16. ASSUME NEW s \in Stops, PollGroups(s) PROVE AuthorInv'
  <2>1. PICK place \in {"pollSolos", "decide"} : Goto(s, place)
    BY <1>16 DEF PollGroups, ReadGroups
  <2>2. \A d \in Calls : pc'[d] = IF d = s THEN place ELSE pc[d]
    BY <2>1, GotoMoves
  <2> QED
    BY <1>16, <2>2 DEF PollGroups, ReadGroups, latch, tables, stops, Acquire, Visited, In, Present
<1>17. ASSUME NEW s \in Stops, PollSolos(s) PROVE AuthorInv'
  <2>1. \A d \in Calls : pc'[d] = IF d = s THEN "decide" ELSE pc[d]
    BY <1>17, GotoMoves DEF PollSolos, Calls
  <2> QED
    BY <1>17, <2>1 DEF PollSolos, Release, latch, tables, stops
<1>18. ASSUME NEW s \in Stops, Abandon(s) PROVE AuthorInv'
  <2>1. \A d \in Calls : pc'[d] = IF d = s THEN "abandoned" ELSE pc[d]
    BY <1>18, GotoMoves DEF Abandon, Calls
  <2> QED
    BY <1>18, <2>1 DEF Abandon, latch, tables, stops
<1>19. ASSUME NEW s \in Stops, DecideGroups(s) PROVE AuthorInv'
  <2>1. PICK place \in {"decideSolos", "request", "kill"} : Goto(s, place) /\ (place = "request" => mode[s] = "spare")
    BY <1>19 DEF DecideGroups, ReadGroups, AfterDrain
  <2>2. \A d \in Calls : pc'[d] = IF d = s THEN place ELSE pc[d]
    BY <2>1, GotoMoves
  <2>3. pc[s] = "decide" /\ UNCHANGED <<word, displaced, mode>>
    BY <1>19 DEF DecideGroups, latch, stops
  <2> QED
    BY <2>1, <2>2, <2>3
<1>20. ASSUME NEW s \in Stops, DecideSolos(s) PROVE AuthorInv'
  <2>1. PICK place \in {"request", "kill", "done"} : Goto(s, place) /\ (place = "request" => mode[s] = "spare")
    BY <1>20 DEF DecideSolos, AfterDrain
  <2>2. \A d \in Calls : pc'[d] = IF d = s THEN place ELSE pc[d]
    BY <2>1, GotoMoves
  <2>3. pc[s] = "decideSolos" /\ UNCHANGED <<word, displaced, mode>>
    BY <1>20 DEF DecideSolos, latch, stops
  <2> QED
    BY <2>1, <2>2, <2>3
<1>21. ASSUME NEW s \in Stops, KillGroups(s) PROVE AuthorInv'
  <2>1. \A d \in Calls : pc'[d] = IF d = s THEN "killSolos" ELSE pc[d]
    BY <1>21, GotoMoves DEF KillGroups, Calls
  <2> QED
    BY <1>21, <2>1 DEF KillGroups, Acquire, HardSweep, Killed, Visited, Pruned, latch, In, Present
<1>22. ASSUME NEW s \in Stops, KillSolos(s) PROVE AuthorInv'
  <2>1. \A d \in Calls : pc'[d] = IF d = s THEN "done" ELSE pc[d]
    BY <1>22, GotoMoves DEF KillSolos, Calls
  <2> QED
    BY <1>22, <2>1 DEF KillSolos, Release, HardSweep, Killed, Visited, Pruned, latch, In, Present
<1>23. ASSUME NEW s \in Stops, RequestSpare(s) PROVE AuthorInv'
  <2>1. \A d \in Calls : pc'[d] = IF d = s THEN "done" ELSE pc[d]
    BY <1>23, GotoMoves DEF RequestSpare, Calls
  <2>2. word'.by = word.by \/ word'.by = s
    BY <1>23, WordBy DEF RequestSpare
  <2>3. pc[s] = "request"
    BY <1>23 DEF RequestSpare
  <2> QED
    BY <1>23, <2>1, <2>2, <2>3 DEF RequestSpare, stops
<1>24. CASE DropGroup
  BY <1>24 DEF DropGroup, Killed, Quiet, latch, tables, stops
<1>25. CASE UNCHANGED vars
  BY <1>25 DEF vars, latch, tables, stops
<1> QED
  BY <1>1, <1>2, <1>3, <1>4, <1>5, <1>6, <1>7, <1>8, <1>9, <1>10, <1>11, <1>12, <1>13, <1>14, <1>15, <1>16, <1>17, <1>18, <1>19, <1>20, <1>21, <1>22, <1>23, <1>24, <1>25 DEF Next, JoinStep, StopStep

\* Drop kills whoever is tracked and takes signals, and nothing follows it.
LEMMA DropStep ==
    TypeOK /\ TrackInv /\ DropInv /\ [Next]_vars => DropInv'
<1> SUFFICES ASSUME TypeOK, TrackInv, DropInv, [Next]_vars PROVE DropInv'
  OBVIOUS
<1> USE DEF DropInv
<1>1. ASSUME NEW j \in Joins, Spawn(j) PROVE DropInv'
  BY <1>1 DEF Spawn, Quiet, Over, Calls, SoftSweep, HardSweep
<1>2. ASSUME NEW j \in Joins, Track(j) PROVE DropInv'
  BY <1>2 DEF Track, Quiet, Over, Calls, SoftSweep, HardSweep
<1>3. ASSUME NEW j \in Joins, SpawnReturns(j) PROVE DropInv'
  BY <1>3 DEF SpawnReturns, Quiet, Over, Calls, SoftSweep, HardSweep
<1>4. ASSUME NEW j \in Joins, LaunchFails(j) PROVE DropInv'
  BY <1>4 DEF LaunchFails, Quiet, Over, Calls, SoftSweep, HardSweep
<1>5. ASSUME NEW j \in Joins, RollbackKills(j) PROVE DropInv'
  BY <1>5 DEF RollbackKills, Quiet, Over, Calls, SoftSweep, HardSweep
<1>6. ASSUME NEW j \in Joins, RollbackRestores(j) PROVE DropInv'
  BY <1>6 DEF RollbackRestores, Quiet, Over, Calls, SoftSweep, HardSweep
<1>7. ASSUME NEW j \in Joins, Adopt(j) PROVE DropInv'
  BY <1>7 DEF Adopt, Quiet, Over, Calls, SoftSweep, HardSweep
<1>8. ASSUME NEW j \in Joins, AdoptTracks(j) PROVE DropInv'
  BY <1>8 DEF AdoptTracks, Quiet, Over, Calls, SoftSweep, HardSweep
<1>9. ASSUME NEW j \in Joins, ClearLoads(j) PROVE DropInv'
  BY <1>9 DEF ClearLoads, Quiet, Over, Calls, SoftSweep, HardSweep
<1>10. ASSUME NEW j \in Joins, ClearExchanges(j) PROVE DropInv'
  BY <1>10 DEF ClearExchanges, Quiet, Over, Calls, SoftSweep, HardSweep
<1>11. ASSUME NEW j \in Joins, ProcessExits(j) PROVE DropInv'
  BY <1>11 DEF ProcessExits, latch, Quiet, TypeOK
<1>12. ASSUME NEW j \in Joins, HandleReaps(j) PROVE DropInv'
  BY <1>12 DEF HandleReaps, latch, Quiet, TypeOK
<1>13. ASSUME NEW s \in Stops, StopBegins(s) PROVE DropInv'
  BY <1>13 DEF StopBegins, Quiet, Over, Calls, SoftSweep, HardSweep
<1>14. ASSUME NEW s \in Stops, SoftGroups(s) PROVE DropInv'
  BY <1>14 DEF SoftGroups, Quiet, Over, Calls, SoftSweep, HardSweep
<1>15. ASSUME NEW s \in Stops, SoftSolos(s) PROVE DropInv'
  BY <1>15 DEF SoftSolos, Quiet, Over, Calls, SoftSweep, HardSweep
<1>16. ASSUME NEW s \in Stops, PollGroups(s) PROVE DropInv'
  BY <1>16 DEF PollGroups, Quiet, Over, Calls, SoftSweep, HardSweep
<1>17. ASSUME NEW s \in Stops, PollSolos(s) PROVE DropInv'
  BY <1>17 DEF PollSolos, Quiet, Over, Calls, SoftSweep, HardSweep
<1>18. ASSUME NEW s \in Stops, Abandon(s) PROVE DropInv'
  BY <1>18 DEF Abandon, Quiet, Over, Calls, SoftSweep, HardSweep
<1>19. ASSUME NEW s \in Stops, DecideGroups(s) PROVE DropInv'
  BY <1>19 DEF DecideGroups, Quiet, Over, Calls, SoftSweep, HardSweep
<1>20. ASSUME NEW s \in Stops, DecideSolos(s) PROVE DropInv'
  BY <1>20 DEF DecideSolos, Quiet, Over, Calls, SoftSweep, HardSweep
<1>21. ASSUME NEW s \in Stops, KillGroups(s) PROVE DropInv'
  BY <1>21 DEF KillGroups, Quiet, Over, Calls, SoftSweep, HardSweep
<1>22. ASSUME NEW s \in Stops, KillSolos(s) PROVE DropInv'
  BY <1>22 DEF KillSolos, Quiet, Over, Calls, SoftSweep, HardSweep
<1>23. ASSUME NEW s \in Stops, RequestSpare(s) PROVE DropInv'
  BY <1>23 DEF RequestSpare, Quiet, Over, Calls, SoftSweep, HardSweep
<1>24. CASE DropGroup
  <2>1. Quiet'
    BY <1>24 DEF DropGroup, Quiet
  <2>2. ASSUME word'.by = Nobody, NEW j \in Joins, pc'[j] = "joined", proc'[j] = "live"
        PROVE  j \in Deaf
    <3>1. proc'[j] = Killed(tracked)[j] /\ pc[j] = "joined"
      BY <1>24, <2>2 DEF DropGroup, latch
    <3>2. proc[j] = "live"
      BY <2>2, <3>1 DEF Killed
    <3>3. j \in tracked
      BY <3>1, <3>2 DEF TrackInv, Joins, Present
    <3> QED
      BY <2>2, <3>1, <3>2, <3>3 DEF Killed
  <2> QED
    BY <2>1, <2>2
<1>25. CASE UNCHANGED vars
  BY <1>25 DEF vars, latch, tables, stops, Quiet
<1> QED
  BY <1>1, <1>2, <1>3, <1>4, <1>5, <1>6, <1>7, <1>8, <1>9, <1>10, <1>11, <1>12, <1>13, <1>14, <1>15, <1>16, <1>17, <1>18, <1>19, <1>20, <1>21, <1>22, <1>23, <1>24, <1>25 DEF Next, JoinStep, StopStep

\* A hard stop has dealt with those who had joined when it began.
LEMMA KillStep ==
    TypeOK /\ TrackInv /\ AuthorInv /\ KillInv /\ [Next]_vars => KillInv'
<1> SUFFICES ASSUME TypeOK, TrackInv, AuthorInv, KillInv, [Next]_vars PROVE KillInv'
  OBVIOUS
<1> USE DEF KillInv, Calls, Joins
<1>1. ASSUME NEW j \in Joins, Spawn(j) PROVE KillInv'
  <2>1. \A i \in Joins : pc[i] = "joined" => pc'[i] = "joined" /\ proc'[i] = proc[i]
    BY <1>1 DEF Spawn, Goto, TypeOK
  <2>2. \A t \in Stops : pc'[t] = pc[t]
    BY <1>1 DEF Spawn, Goto, TypeOK
  <2> QED
    BY <1>1, <2>1, <2>2 DEF Spawn, tables, stops
<1>2. ASSUME NEW j \in Joins, Track(j) PROVE KillInv'
  <2>1. \A d \in Calls : pc'[d] = IF d = j THEN "tracked" ELSE pc[d]
    BY <1>2, GotoMoves DEF Track, Calls
  <2> QED
    BY <1>2, <2>1 DEF Track, latch, stops
<1>3. ASSUME NEW j \in Joins, SpawnReturns(j) PROVE KillInv'
  <2>1. \A d \in Calls : pc'[d] = IF d = j THEN "joined" ELSE pc[d]
    BY <1>3, GotoMoves DEF SpawnReturns, Calls
  <2> QED
    BY <1>3, <2>1 DEF SpawnReturns, tables, stops
<1>4. ASSUME NEW j \in Joins, LaunchFails(j) PROVE KillInv'
  <2>1. \A d \in Calls : pc'[d] = IF d = j THEN "undoing" ELSE pc[d]
    BY <1>4, GotoMoves DEF LaunchFails, Calls
  <2> QED
    BY <1>4, <2>1 DEF LaunchFails, latch, tables, stops
<1>5. ASSUME NEW j \in Joins, RollbackKills(j) PROVE KillInv'
  <2>1. \A d \in Calls : pc'[d] = IF d = j THEN "killed" ELSE pc[d]
    BY <1>5, GotoMoves DEF RollbackKills, Calls
  <2> QED
    BY <1>5, <2>1 DEF RollbackKills, Acquire, Killed, latch, stops
<1>6. ASSUME NEW j \in Joins, RollbackRestores(j) PROVE KillInv'
  <2>1. \A d \in Calls : pc'[d] = IF d = j THEN "undone" ELSE pc[d]
    BY <1>6, GotoMoves DEF RollbackRestores, Calls
  <2> QED
    BY <1>6, <2>1 DEF RollbackRestores, Release, Request, tables, stops, RequestTakes
<1>7. ASSUME NEW j \in Joins, Adopt(j) PROVE KillInv'
  <2>1. \A i \in Joins : pc[i] = "joined" => pc'[i] = "joined" /\ home'[i] = home[i]
    BY <1>7 DEF Adopt, Goto, TypeOK
  <2>2. \A t \in Stops : pc'[t] = pc[t]
    BY <1>7 DEF Adopt, Goto, TypeOK
  <2> QED
    BY <1>7, <2>1, <2>2 DEF Adopt, stops
<1>8. ASSUME NEW j \in Joins, AdoptTracks(j) PROVE KillInv'
  <2>1. PICK place \in {"joined", "refused"} : Goto(j, place)
    BY <1>8 DEF AdoptTracks
  <2>2. \A d \in Calls : pc'[d] = IF d = j THEN place ELSE pc[d]
    BY <2>1, GotoMoves
  <2> QED
    BY <1>8, <2>2 DEF AdoptTracks, Release, stops
<1>9. ASSUME NEW j \in Joins, ClearLoads(j) PROVE KillInv'
  <2>1. \A d \in Calls : pc'[d] = IF d = j THEN "loaded" ELSE pc[d]
    BY <1>9, GotoMoves DEF ClearLoads, Calls
  <2> QED
    BY <1>9, <2>1 DEF ClearLoads, tables, stops
<1>10. ASSUME NEW j \in Joins, ClearExchanges(j) PROVE KillInv'
  <2>1. pc' = pc \/ \A d \in Calls : pc'[d] = IF d = j THEN "cleared" ELSE pc[d]
    <3>1. CASE seen[j] = word
      BY <1>10, <3>1, GotoMoves DEF ClearExchanges, Calls
    <3>2. CASE seen[j] # word
      BY <1>10, <3>2 DEF ClearExchanges
    <3> QED
      BY <3>1, <3>2
  <2>2. pc[j] = "loaded"
    BY <1>10 DEF ClearExchanges
  <2>3. UNCHANGED <<before, mode, home, proc, failed, unread>>
    BY <1>10 DEF ClearExchanges, tables, stops
  <2> QED
    BY <2>1, <2>2, <2>3
<1>11. ASSUME NEW j \in Joins, ProcessExits(j) PROVE KillInv'
  BY <1>11 DEF ProcessExits, latch, tables, stops
<1>12. ASSUME NEW j \in Joins, HandleReaps(j) PROVE KillInv'
  BY <1>12 DEF HandleReaps, latch, tables, stops
<1>13. ASSUME NEW s \in Stops, StopBegins(s) PROVE KillInv'
  <2>1. PICK place \in {"kill", "soft"} : Goto(s, place)
    BY <1>13 DEF StopBegins
  <2>2. \A d \in Calls : pc'[d] = IF d = s THEN place ELSE pc[d]
    BY <2>1, GotoMoves
  <2> QED
    BY <1>13, <2>2 DEF StopBegins, Joined, tables
<1>14. ASSUME NEW s \in Stops, SoftGroups(s) PROVE KillInv'
  <2>1. \A d \in Calls : pc'[d] = IF d = s THEN "softSolos" ELSE pc[d]
    BY <1>14, GotoMoves DEF SoftGroups, Calls
  <2> QED
    BY <1>14, <2>1 DEF SoftGroups, Acquire, SoftSweep, Visited, Pruned, latch, stops, In
<1>15. ASSUME NEW s \in Stops, SoftSolos(s) PROVE KillInv'
  <2>1. \A d \in Calls : pc'[d] = IF d = s THEN "poll" ELSE pc[d]
    BY <1>15, GotoMoves DEF SoftSolos, Calls
  <2> QED
    BY <1>15, <2>1 DEF SoftSolos, Release, SoftSweep, Visited, Pruned, latch, stops, In
<1>16. ASSUME NEW s \in Stops, PollGroups(s) PROVE KillInv'
  <2>1. PICK place \in {"pollSolos", "decide"} : Goto(s, place)
    BY <1>16 DEF PollGroups, ReadGroups
  <2>2. \A d \in Calls : pc'[d] = IF d = s THEN place ELSE pc[d]
    BY <2>1, GotoMoves
  <2> QED
    BY <1>16, <2>2 DEF PollGroups, ReadGroups, latch, tables, stops, Acquire, Visited, In
<1>17. ASSUME NEW s \in Stops, PollSolos(s) PROVE KillInv'
  <2>1. \A d \in Calls : pc'[d] = IF d = s THEN "decide" ELSE pc[d]
    BY <1>17, GotoMoves DEF PollSolos, Calls
  <2> QED
    BY <1>17, <2>1 DEF PollSolos, Release, latch, tables, stops
<1>18. ASSUME NEW s \in Stops, Abandon(s) PROVE KillInv'
  <2>1. \A d \in Calls : pc'[d] = IF d = s THEN "abandoned" ELSE pc[d]
    BY <1>18, GotoMoves DEF Abandon, Calls
  <2> QED
    BY <1>18, <2>1 DEF Abandon, latch, tables, stops
<1>19. ASSUME NEW s \in Stops, DecideGroups(s) PROVE KillInv'
  <2>1. PICK place \in {"decideSolos", "request", "kill"} :
             Goto(s, place) /\ (place = "decideSolos" => Visited("groups") = {})
    BY <1>19 DEF DecideGroups, ReadGroups, AfterDrain
  <2>2. \A d \in Calls : pc'[d] = IF d = s THEN place ELSE pc[d]
    BY <2>1, GotoMoves
  <2>3. UNCHANGED <<before, mode, home, proc, failed, unread>> /\ pc[s] = "decide"
    BY <1>19 DEF DecideGroups, tables, stops
  <2>4. \A i \in Joins : pc[i] = "joined" /\ proc[i] = "live" /\ home[i] = "groups"
                         => i \in Visited("groups")
    BY DEF TrackInv, Present, Visited, In, Joins
  <2> QED
    BY <2>1, <2>2, <2>3, <2>4
<1>20. ASSUME NEW s \in Stops, DecideSolos(s) PROVE KillInv'
  <2>1. PICK place \in {"request", "kill", "done"} :
             /\ Goto(s, place)
             /\ place = "done" /\ mode[s] # "spare" => Visited("solos") = {}
    BY <1>20 DEF DecideSolos, AfterDrain
  <2>2. \A d \in Calls : pc'[d] = IF d = s THEN place ELSE pc[d]
    BY <2>1, GotoMoves
  <2>3. UNCHANGED <<before, mode, home, proc, failed, unread>> /\ pc[s] = "decideSolos"
    BY <1>20 DEF DecideSolos, tables, stops
  <2>4. \A i \in Joins : pc[i] = "joined" /\ proc[i] = "live" /\ home[i] = "solos"
                         => i \in Visited("solos")
    BY DEF TrackInv, Present, Visited, In, Joins
  <2>5. \A i \in Joins : home[i] = "groups" \/ home[i] = "solos"
    BY DEF TypeOK, Tables
  <2> QED
    BY <2>1, <2>2, <2>3, <2>4, <2>5
<1>21. ASSUME NEW s \in Stops, KillGroups(s) PROVE KillInv'
  <2>1. ASSUME NEW i \in Joins, proc'[i] = "live" PROVE proc[i] = "live"
    BY <1>21, <2>1 DEF KillGroups, HardSweep, Killed
  <2>2. ASSUME NEW i \in Joins, i \in tracked, home[i] = "groups", proc'[i] = "live"
        PROVE  failed'[s] \/ i \in unread'[s]
    <3>1. i \in Visited("groups") /\ proc[i] = "live"
      BY <2>1, <2>2 DEF Visited, In, Present
    <3>2. i \in Refusing("groups")
      BY <1>21, <2>2, <3>1 DEF KillGroups, HardSweep, Killed, Refusing
    <3>3. PICK blind \in SUBSET Refusing("groups") :
               /\ failed' = [failed EXCEPT ![s] = @ \/ blind # Refusing("groups")]
               /\ unread' = [unread EXCEPT ![s] = @ \cup blind]
      BY <1>21 DEF KillGroups, HardSweep
    <3>4. CASE i \in blind
      BY <3>3, <3>4 DEF TypeOK
    <3>5. CASE i \notin blind
      BY <3>2, <3>3, <3>5 DEF TypeOK
    <3> QED
      BY <3>4, <3>5
  <2>3. \A r \in Stops : (failed[r] => failed'[r]) /\ unread[r] \subseteq unread'[r]
    BY <1>21 DEF KillGroups, HardSweep, TypeOK
  <2>4. \A d \in Calls : pc'[d] = IF d = s THEN "killSolos" ELSE pc[d]
    BY <1>21, GotoMoves DEF KillGroups, Calls
  <2>5. before' = before /\ mode' = mode /\ home' = home /\ pc[s] = "kill"
    BY <1>21 DEF KillGroups, HardSweep
  <2>6. \A i \in Joins : pc[i] = "joined" /\ proc[i] = "live" => i \in tracked
    BY DEF TrackInv, Present, Joins
  <2>7. \A i \in Joins : home[i] = "groups" \/ home[i] = "solos"
    BY DEF TypeOK, Tables
  <2> QED
    BY <2>1, <2>2, <2>3, <2>4, <2>5, <2>6, <2>7 DEF TypeOK
<1>22. ASSUME NEW s \in Stops, KillSolos(s) PROVE KillInv'
  <2>1. ASSUME NEW i \in Joins, proc'[i] = "live" PROVE proc[i] = "live"
    BY <1>22, <2>1 DEF KillSolos, HardSweep, Killed
  <2>2. ASSUME NEW i \in Joins, i \in tracked, home[i] = "solos", proc'[i] = "live"
        PROVE  failed'[s] \/ i \in unread'[s]
    <3>1. i \in Visited("solos") /\ proc[i] = "live"
      BY <2>1, <2>2 DEF Visited, In, Present
    <3>2. i \in Refusing("solos")
      BY <1>22, <2>2, <3>1 DEF KillSolos, HardSweep, Killed, Refusing
    <3>3. PICK blind \in SUBSET Refusing("solos") :
               /\ failed' = [failed EXCEPT ![s] = @ \/ blind # Refusing("solos")]
               /\ unread' = [unread EXCEPT ![s] = @ \cup blind]
      BY <1>22 DEF KillSolos, HardSweep
    <3>4. CASE i \in blind
      BY <3>3, <3>4 DEF TypeOK
    <3>5. CASE i \notin blind
      BY <3>2, <3>3, <3>5 DEF TypeOK
    <3> QED
      BY <3>4, <3>5
  <2>3. \A r \in Stops : (failed[r] => failed'[r]) /\ unread[r] \subseteq unread'[r]
    BY <1>22 DEF KillSolos, HardSweep, TypeOK
  <2>4. \A d \in Calls : pc'[d] = IF d = s THEN "done" ELSE pc[d]
    BY <1>22, GotoMoves DEF KillSolos, Calls
  <2>5. before' = before /\ mode' = mode /\ home' = home /\ pc[s] = "killSolos"
    BY <1>22 DEF KillSolos, HardSweep
  <2>6. \A i \in Joins : pc[i] = "joined" /\ proc[i] = "live" => i \in tracked
    BY DEF TrackInv, Present, Joins
  <2>7. \A i \in Joins : home[i] = "groups" \/ home[i] = "solos"
    BY DEF TypeOK, Tables
  <2> QED
    BY <2>1, <2>2, <2>3, <2>4, <2>5, <2>6, <2>7 DEF TypeOK
<1>23. ASSUME NEW s \in Stops, RequestSpare(s) PROVE KillInv'
  <2>1. \A d \in Calls : pc'[d] = IF d = s THEN "done" ELSE pc[d]
    BY <1>23, GotoMoves DEF RequestSpare, Calls
  <2>2. mode[s] = "spare"
    BY <1>23 DEF RequestSpare, AuthorInv
  <2> QED
    BY <1>23, <2>1, <2>2 DEF RequestSpare, tables, stops
<1>24. CASE DropGroup
  <2>1. \A j \in Joins : proc'[j] = "live" => proc[j] = "live"
    BY <1>24 DEF DropGroup, Killed
  <2> QED
    BY <1>24, <2>1 DEF DropGroup, tables, stops
<1>25. CASE UNCHANGED vars
  BY <1>25 DEF vars, latch, tables, stops
<1> QED
  BY <1>1, <1>2, <1>3, <1>4, <1>5, <1>6, <1>7, <1>8, <1>9, <1>10, <1>11, <1>12, <1>13, <1>14, <1>15, <1>16, <1>17, <1>18, <1>19, <1>20, <1>21, <1>22, <1>23, <1>24, <1>25 DEF Next, JoinStep, StopStep

-----------------------------------------------------------------------------
(* The theorems.                                                           *)

\* No call has begun, and some were refused: nothing stands, nothing is held.
LEMMA IInvInit == Init => IInv
<1> SUFFICES ASSUME Init PROVE IInv
  OBVIOUS
<1>1. TypeOK
  BY TypeInit
<1>2. PlaceInv /\ LockInv
  BY DEF Init, PlaceInv, LockInv, InLock, Holds, Calls, Joins
<1>3. TrackInv /\ KillInv /\ DropInv
  BY DEF Init, TrackInv, KillInv, DropInv, Calls, Joins
<1>4. \A j \in Joins : pc[j] \in {"idle", "refused"} /\ displaced[j].by = Nobody
  BY DEF Init, Calls
<1>5. word.by = Nobody /\ \A s \in Stops : pc[s] = "idle" /\ s # Nobody
  BY DEF Init, Calls
<1>6. EpochInv /\ LatchInv /\ TokenInv
  BY <1>4, <1>5 DEF EpochInv, LatchInv, TokenInv, Standing
<1>7. AuthorInv
  BY <1>4, <1>5 DEF AuthorInv
<1> QED
  BY <1>1, <1>2, <1>3, <1>6, <1>7 DEF IInv

\* The invariant the properties follow from holds in every state.
THEOREM Inductive == Spec => []IInv
<1>1. IInv /\ [Next]_vars => IInv'
  BY TypeStep, PlaceStep, LockStep, TrackStep, EpochStep, LatchStep, TokenStep, AuthorStep,
     DropStep, KillStep DEF IInv
<1> QED
  BY <1>1, IInvInit, PTL DEF Spec

\* However many calls race, a spare in force covers only members that its own
\* shutdown has warned.
THEOREM NewcomerCorrect == Spec => []NewcomerNotSpared
<1>1. IInv => NewcomerNotSpared
  BY DEF IInv, LatchInv, NewcomerNotSpared, Standing, Warned
<1> QED
  BY <1>1, Inductive, PTL

\* A member that outlives Drop refuses signals, or was left by a shutdown that
\* warned it and did not escalate.
THEOREM DropCorrect == Spec => []DropKillsUnspared
<1>1. IInv => DropKillsUnspared
  <2> SUFFICES ASSUME IInv, dropped, NEW j \in Joins,
                      pc[j] = "joined", proc[j] = "live", j \notin Deaf
               PROVE  \E s \in heard[j] : mode[s] = "spare" /\ pc[s] = "done"
    BY DEF DropKillsUnspared
  <2>1. word.by \in Stops
    BY DEF IInv, DropInv, TypeOK, Word
  <2>2. word.by \in heard[j]
    BY <2>1 DEF IInv, LatchInv, Standing, Warned, Present, Calls
  <2> QED
    BY <2>1, <2>2 DEF IInv, AuthorInv
<1> QED
  BY <1>1, Inductive, PTL

\* A hard stop that reports no error leaves nobody alive who had joined before it,
\* but one that refused its signal and whose state could not be read.
THEOREM KillCorrect == Spec => []KillReachesMembers
<1>1. IInv => KillReachesMembers
  BY DEF IInv, KillInv, KillReachesMembers, TypeOK
<1> QED
  BY <1>1, Inductive, PTL

-----------------------------------------------------------------------------
(* Spares that are owed.                                                   *)

\* The latch, the tokens and the places on which a spare depends stay.
SpareKept ==
    /\ word' = word /\ displaced' = displaced /\ spareAt' = spareAt
    /\ \A j \in Spawns : pc[j] = "cleared" => pc'[j] = "cleared"
    /\ \A a \in Adoptions : pc[a] \in {"cleared", "refused"} => pc'[a] = pc[a]
    /\ \A p \in Launches : pc[p] \in TokenPc => pc'[p] \in TokenPc

\* A call moves between places that do not matter to the spare.
LEMMA SpareGoto ==
    ASSUME TypeOK, NEW c \in Calls, NEW place, Goto(c, place), UNCHANGED latch,
           c \in Spawns => pc[c] # "cleared",
           c \in Adoptions => pc[c] \notin {"cleared", "refused"},
           c \in Launches => pc[c] \notin TokenPc \/ place \in TokenPc
    PROVE  SpareKept
<1>1. \A d \in Calls : pc'[d] = IF d = c THEN place ELSE pc[d]
  BY GotoMoves
<1> QED
  BY <1>1 DEF SpareKept, latch, Calls, Joins

\* A step that keeps all this keeps the spare owed.
LEMMA SpareKeptStep ==
    SpareInv /\ SpareKept => SpareInv'
  BY DEF SpareInv, SpareKept, SpareHeld, RearmedInVain, TokenPc, Joins

\* An exchange leaves its token to its call; the one that held the current token
\* would be another launch.
LEMMA SpareExchange ==
    ASSUME TypeOK, SpareInv, LaunchesInTurn', NEW j \in Joins, ClearExchanges(j)
    PROVE  SpareInv'
<1>1. CASE seen[j] # word
  <2>1. SpareKept
    BY <1>1 DEF ClearExchanges, SpareKept
  <2> QED
    BY <2>1, SpareKeptStep
<1>2. CASE seen[j] = word
  <2> SUFFICES ASSUME SpareHeld
               PROVE  \/ \E i \in Spawns : pc'[i] = "cleared"
                      \/ \E a \in Adoptions :
                           pc'[a] \in {"cleared", "refused"} /\ displaced'[a].gen > spareAt
                      \/ \E p \in Launches :
                           /\ pc'[p] \in TokenPc
                           /\ displaced'[p].by # Nobody /\ displaced'[p].gen = word'.gen
    BY DEF SpareInv, SpareHeld, RearmedInVain, TokenPc, ClearExchanges
  <2>1. \A d \in Calls : pc'[d] = IF d = j THEN "cleared" ELSE pc[d]
    BY <1>2, GotoMoves DEF ClearExchanges, Calls
  <2>2. /\ word' = Rearmed(word)
        /\ displaced'[j] = Displaced(word)
        /\ \A i \in Joins \ {j} : displaced'[i] = displaced[i]
    BY <1>2 DEF ClearExchanges, TypeOK
  <2>3. /\ displaced'[j].by = word.by
        /\ displaced'[j].gen = word'.gen
    BY <2>2, RearmTypes
  <2>4. CASE j \in Spawns
    BY <2>1, <2>4 DEF Calls, Joins
  <2>7. CASE j \in Adoptions
    <3>1. displaced'[j].gen > spareAt
      BY <2>2, RearmTypes DEF TypeOK, Word, Never
    <3> QED
      BY <2>1, <2>7, <3>1 DEF Calls, Joins
  <2>5. CASE j \in Launches /\ word.by # Nobody
    BY <2>1, <2>3, <2>5 DEF Calls, TokenPc
  <2>6. CASE j \in Launches /\ word.by = Nobody
    <3>1. CASE \E i \in Spawns : pc[i] = "cleared"
      BY <2>1, <2>6, <3>1 DEF Calls, Joins
    <3>3. ASSUME NEW a \in Adoptions, pc[a] \in {"cleared", "refused"}, displaced[a].gen > spareAt
          PROVE  pc'[a] \in {"cleared", "refused"} /\ displaced'[a].gen > spareAt
      BY <2>1, <2>2, <2>6, <3>3 DEF Calls, Joins
    <3>2. ASSUME NEW p \in Launches, pc[p] \in TokenPc PROVE FALSE
      <4>1. pc[j] = "loaded"
        BY DEF ClearExchanges
      <4>2. p # j
        BY <3>2, <4>1 DEF TokenPc
      <4>3. pc'[j] \in TokenPc /\ pc'[p] \in TokenPc
        BY <2>1, <3>2, <4>2 DEF Calls, Joins, TokenPc
      <4> QED
        BY <2>6, <4>2, <4>3 DEF LaunchesInTurn, TokenPc
    <3> QED
      BY <2>6, <3>1, <3>2, <3>3 DEF SpareInv, RearmedInVain, TokenPc
  <2> QED
    BY <2>4, <2>5, <2>6, <2>7 DEF Joins
<1> QED
  BY <1>1, <1>2

\* A launch that is undone restores the spare it owes; one that owes none does
\* not disturb who does.
LEMMA SpareRestore ==
    ASSUME TypeOK, PlaceInv, SpareInv, NEW j \in Joins, RollbackRestores(j)
    PROVE  SpareInv'
<1>1. word = [gen |-> word.gen, by |-> word.by]
  BY DEF TypeOK, Word
<1>2. \A d \in Calls : pc'[d] = IF d = j THEN "undone" ELSE pc[d]
  BY GotoMoves DEF RollbackRestores, Calls
<1>3. displaced' = displaced /\ pc[j] = "killed"
  BY DEF RollbackRestores
<1>4. CASE displaced[j].by # Nobody /\ RequestTakes(displaced[j].gen)
  <2>1. word' = [word EXCEPT !.by = displaced[j].by]
    BY <1>4 DEF RollbackRestores, Request
  <2>2. word'.by # Nobody
    BY <1>1, <1>4, <2>1
  <2> QED
    BY <2>2 DEF SpareInv
<1>5. CASE ~(displaced[j].by # Nobody /\ RequestTakes(displaced[j].gen))
  <2>1. word' = word /\ spareAt' = spareAt
    BY <1>5 DEF RollbackRestores, Request
  <2> SUFFICES ASSUME SpareHeld, word.by = Nobody
               PROVE  \/ \E i \in Spawns : pc'[i] = "cleared"
                      \/ \E a \in Adoptions :
                           pc'[a] \in {"cleared", "refused"} /\ displaced[a].gen > spareAt
                      \/ \E p \in Launches :
                           /\ pc'[p] \in TokenPc
                           /\ displaced[p].by # Nobody /\ displaced[p].gen = word.gen
    BY <1>3, <2>1 DEF SpareInv, SpareHeld, RearmedInVain, TokenPc
  <2>2. ~(displaced[j].by # Nobody /\ displaced[j].gen = word.gen)
    BY <1>1, <1>5 DEF RequestTakes
  <2>3. CASE \E i \in Spawns : pc[i] = "cleared"
    BY <1>2, <1>3, <2>3 DEF Calls, Joins
  <2>5. ASSUME NEW a \in Adoptions, pc[a] \in {"cleared", "refused"}, displaced[a].gen > spareAt
        PROVE  pc'[a] \in {"cleared", "refused"}
    BY <1>2, <1>3, <2>5 DEF Calls, Joins
  <2>4. ASSUME NEW p \in Launches, pc[p] \in TokenPc,
               displaced[p].by # Nobody, displaced[p].gen = word.gen
        PROVE  pc'[p] \in TokenPc
    BY <1>2, <2>2, <2>4 DEF Calls, Joins
  <2> QED
    BY <2>3, <2>4, <2>5 DEF SpareInv, RearmedInVain, TokenPc
<1> QED
  BY <1>4, <1>5

\* Every step that leaves the launches in turn keeps a displaced spare owed.
LEMMA SpareStep ==
    TypeOK /\ PlaceInv /\ SpareInv /\ LaunchesInTurn' /\ [Next]_vars => SpareInv'
<1> SUFFICES ASSUME TypeOK, PlaceInv, SpareInv, LaunchesInTurn', [Next]_vars PROVE SpareInv'
  OBVIOUS
<1> USE SpareKeptStep, SpareGoto DEF Calls
<1>1. ASSUME NEW j \in Joins, Spawn(j) PROVE SpareInv'
  <2>1. pc[j] = "idle" /\ UNCHANGED latch /\ \E place \in {"forked", "refused"} : Goto(j, place)
    BY <1>1 DEF Spawn
  <2> QED
    BY <2>1 DEF TokenPc
<1>2. ASSUME NEW j \in Joins, Track(j) PROVE SpareInv'
  BY <1>2 DEF Track, TokenPc
<1>3. ASSUME NEW j \in Joins, SpawnReturns(j) PROVE SpareInv'
  BY <1>3 DEF SpawnReturns, SpareInv, SpareHeld
<1>4. ASSUME NEW j \in Joins, LaunchFails(j) PROVE SpareInv'
  <2>1. j \in Launches /\ UNCHANGED latch /\ Goto(j, "undoing")
    BY <1>4 DEF LaunchFails
  <2> QED
    BY <2>1 DEF TokenPc
<1>5. ASSUME NEW j \in Joins, RollbackKills(j) PROVE SpareInv'
  <2>1. pc[j] = "undoing" /\ UNCHANGED latch /\ Goto(j, "killed")
    BY <1>5 DEF RollbackKills
  <2> QED
    BY <2>1 DEF TokenPc
<1>6. ASSUME NEW j \in Joins, RollbackRestores(j) PROVE SpareInv'
  BY <1>6, SpareRestore
<1>7. ASSUME NEW j \in Joins, Adopt(j) PROVE SpareInv'
  <2>1. pc[j] = "idle" /\ UNCHANGED latch /\ \E place \in {"locked", "refused"} : Goto(j, place)
    BY <1>7 DEF Adopt
  <2> QED
    BY <2>1 DEF TokenPc
<1>8. ASSUME NEW j \in Joins, AdoptTracks(j) PROVE SpareInv'
  <2>1. CASE spareAt' = Never
    BY <2>1 DEF SpareInv, SpareHeld
  <2>2. CASE Goto(j, "refused") /\ spareAt' = spareAt
    <3>1. \A d \in Calls : pc'[d] = IF d = j THEN "refused" ELSE pc[d]
      BY <2>2, GotoMoves
    <3>2. j \in Adoptions /\ word' = word /\ displaced' = displaced
      BY <1>8 DEF AdoptTracks
    <3> QED
      BY <2>2, <3>1, <3>2 DEF SpareInv, SpareHeld, RearmedInVain, Joins
  <2> QED
    BY <1>8, <2>1, <2>2 DEF AdoptTracks
<1>9. ASSUME NEW j \in Joins, ClearLoads(j) PROVE SpareInv'
  <2>1. /\ pc[j] \in {"tracked", "locked"}
        /\ \A d \in Calls : pc'[d] = IF d = j THEN "loaded" ELSE pc[d]
        /\ word' = word /\ displaced' = displaced /\ spareAt' = spareAt
    BY <1>9, GotoMoves DEF ClearLoads
  <2>2. SpareKept
    BY <2>1 DEF SpareKept, TokenPc, Joins
  <2> QED
    BY <2>2
<1>10. ASSUME NEW j \in Joins, ClearExchanges(j) PROVE SpareInv'
  BY <1>10, SpareExchange
<1>11. CASE UNCHANGED <<pc, latch>>
  BY <1>11 DEF SpareKept, latch
<1>12. ASSUME NEW j \in Joins, ProcessExits(j) \/ HandleReaps(j) PROVE SpareInv'
  BY <1>11, <1>12 DEF ProcessExits, HandleReaps
<1>13. ASSUME NEW s \in Stops, StopBegins(s) PROVE SpareInv'
  <2>1. /\ \A d \in Joins : pc'[d] = pc[d]
        /\ word' = word /\ displaced' = displaced /\ spareAt' = spareAt
    <3>1. PICK place \in {"kill", "soft"} : Goto(s, place)
      BY <1>13 DEF StopBegins
    <3> QED
      BY <1>13, <3>1, GotoMoves DEF StopBegins
  <2> QED
    BY <2>1 DEF SpareKept, Joins
<1>14. ASSUME NEW s \in Stops, NEW place, Goto(s, place), UNCHANGED latch PROVE SpareInv'
  BY <1>14 DEF Joins
<1>15. ASSUME NEW s \in Stops, SoftGroups(s) \/ SoftSolos(s) PROVE SpareInv'
  BY <1>14, <1>15 DEF SoftGroups, SoftSolos, SoftSweep
<1>16. ASSUME NEW s \in Stops, PollGroups(s) \/ PollSolos(s) \/ Abandon(s) PROVE SpareInv'
  BY <1>14, <1>16 DEF PollGroups, PollSolos, Abandon, ReadGroups
<1>17. ASSUME NEW s \in Stops, DecideGroups(s) \/ DecideSolos(s) PROVE SpareInv'
  BY <1>14, <1>17 DEF DecideGroups, DecideSolos, ReadGroups
<1>18. ASSUME NEW s \in Stops, KillGroups(s) \/ KillSolos(s) PROVE SpareInv'
  BY <1>14, <1>18 DEF KillGroups, KillSolos, HardSweep
<1>19. ASSUME NEW s \in Stops, RequestSpare(s) PROVE SpareInv'
  <2>1. Goto(s, "done") /\ displaced' = displaced
    BY <1>19 DEF RequestSpare
  <2>2. \A d \in Joins : pc'[d] = pc[d]
    BY <2>1, GotoMoves
  <2>3. CASE RequestTakes(epoch[s])
    <3>1. word'.by = s
      BY <1>19, <2>3 DEF RequestSpare, Request, TypeOK, Word
    <3> QED
      BY <3>1 DEF SpareInv
  <2>4. CASE ~RequestTakes(epoch[s])
    BY <1>19, <2>1, <2>2, <2>4 DEF RequestSpare, Request, SpareKept, Joins
  <2> QED
    BY <2>3, <2>4
<1>20. CASE DropGroup
  BY <1>11, <1>20 DEF DropGroup
<1>21. CASE UNCHANGED vars
  BY <1>11, <1>21 DEF vars
<1> QED
  BY <1>1, <1>2, <1>3, <1>4, <1>5, <1>6, <1>7, <1>8, <1>9, <1>10, <1>12, <1>13, <1>15, <1>16, <1>17,
     <1>18, <1>19, <1>20, <1>21 DEF Next, JoinStep, StopStep

\* As long as PTY launches take their turns, a spare outlives those that fail: it
\* is in force whenever every call has returned and nobody joined since it took,
\* unless an adoption that was refused had re-armed the latch.
THEOREM SpareCorrect == Spec /\ []LaunchesInTurn => []SpareSurvivesRollback
<1>1. Init => SpareInv
  BY DEF Init, SpareInv, SpareHeld
<1>2. TypeOK /\ PlaceInv /\ SpareInv /\ LaunchesInTurn' /\ [Next]_vars => SpareInv'
  BY SpareStep
<1>3. IInv => TypeOK /\ PlaceInv
  BY DEF IInv
<1>4. SpareInv => SpareSurvivesRollback
  BY DEF SpareInv, SpareSurvivesRollback, Quiet, Over, Calls, Joins
<1> QED
  BY <1>1, <1>2, <1>3, <1>4, Inductive, PTL DEF Spec

=============================================================================
