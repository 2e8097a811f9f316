------------------------------- MODULE Batch -------------------------------
(* What a bounded fan-out promises (batch.rs, docs/batch.md): every command is *)
(* taken in input order, at most Limit of them at a time, each is answered     *)
(* once, and none is started after the batch was dropped.                      *)
EXTENDS Naturals, FiniteSets

VARIABLES limit,  \* the concurrency asked for
          stands, \* per command, numbered as they were given
          batch   \* has the batch ended, and how

batchVars == <<limit, stands, batch>>

Commands    == DOMAIN stands
Standing(s) == {i \in Commands : stands[i] = s}

BatchInit == /\ limit \in Nat
             /\ Commands \subseteq Nat
             /\ stands = [i \in Commands |-> "waiting"]
             /\ batch = "open"

\* Commands are started in their order, as many as there is room for: a limit of
\* zero counts as one.
Start(s) ==
  /\ batch = "open"
  /\ s # {} /\ s \subseteq Standing("waiting")
  /\ \A i \in s, j \in Standing("waiting") \ s : i < j
  /\ Cardinality(Standing("running") \cup s) <= (IF limit = 0 THEN 1 ELSE limit)
  /\ stands' = [i \in Commands |-> IF i \in s THEN "running" ELSE stands[i]]
  /\ UNCHANGED <<limit, batch>>

Answers(i) ==
  /\ batch = "open"
  /\ stands[i] = "running"
  /\ stands' = [stands EXCEPT ![i] = "answered"]
  /\ UNCHANGED <<limit, batch>>

Complete ==
  /\ batch = "open"
  /\ Standing("answered") = Commands
  /\ batch' = "complete"
  /\ UNCHANGED <<limit, stands>>

\* What was answered stays answered; nothing else ever is.
Discard ==
  /\ batch = "open"
  /\ batch' = "dropped"
  /\ stands' = [i \in Commands |-> IF stands[i] = "answered" THEN "answered" ELSE "discarded"]
  /\ UNCHANGED limit

BatchNext == \/ \E s \in SUBSET Commands : Start(s)
             \/ \E i \in Commands : Answers(i)
             \/ Complete \/ Discard

BatchSpec == BatchInit /\ [][BatchNext]_batchVars
=============================================================================
