------------------------------ MODULE Cassette ------------------------------
(* Recording runs to a cassette and replaying them (cassette.rs). Recorders    *)
(* record what their callers run and save it to one path, over a file system   *)
(* whose machine may lose power; a player serves what the path holds.          *)
(*                                                                             *)
(* A step of a save is one call on the file system. The save holds the mutex   *)
(* of its recorder from the first to the last, so a run that ends meanwhile is *)
(* recorded after it.                                                          *)
EXTENDS Naturals, Sequences, FiniteSets, Functions

\* The callers, the recorder each calls, and what it runs there: the program with
\* its arguments and stdin, and the directory it runs in.
CONSTANTS Recorders, Callers, Home, Command, Cwd

\* How many runs of a caller are recorded, and how many calls it replays.
CONSTANTS MaxRuns, MaxPlays

\* How many files may be renamed to the path before the directory is synced.
CONSTANT MaxBehind

CONSTANT None

ASSUME CallersAssumption ==
  /\ Home \in [Callers -> Recorders]
  /\ DOMAIN Command = Callers /\ DOMAIN Cwd = Callers
  /\ MaxRuns \in [Callers -> Nat] /\ MaxPlays \in Nat /\ MaxBehind \in Nat
  /\ None \notin Recorders \cup Callers
  /\ None # <<>> /\ \A p \in Callers : Cwd[p] # None  \* an inherited directory has a digest

VARIABLES
  policy,   \* does the working directory belong to the key, in recording and replay
  running,  \* the callers whose inner run is under way
  seen,     \* per caller: how many of its runs came to an answer that is recorded
  recorded, \* per recorder: the entries
  dirty,    \* per recorder: is there something unwritten
  step,     \* per recorder: where its save is
  dropping, \* the recorders that are being dropped
  temp,     \* per recorder: what its save has cloned, then written
  lock,     \* who holds the advisory lock beside the path
  versions, \* the files the path may hold after a loss of power; now, the last
  kept,     \* the file of the last save that returned Ok
  tape,     \* the player's entries, or None
  cursors,  \* per key: how often it was played
  replayed  \* per caller: what the player has served it

recorderVars == <<running, seen, recorded>>
saveVars     == <<dirty, step, dropping, temp, lock>>
fileVars     == <<versions, kept>>
playerVars   == <<tape, cursors, replayed>>
cassetteVars         == <<policy, recorderVars, saveVars, fileVars, playerVars>>

\* Mutant of KeyOf: the policy is ignored.
KeyByCommand(p, cwd) == <<Command[p], None>>

\* The match key: what is run, and a digest of the working directory if the
\* policy wants it.
KeyOf(p, cwd) == <<Command[p], IF cwd THEN Cwd[p] ELSE None>>

Keys == {KeyOf(p, cwd) : p \in Callers, cwd \in BOOLEAN}

Torn   == [by |-> None, entries |-> None]
NoFile == [by |-> None, entries |-> <<>>]

File(r) == [by |-> r, entries |-> temp[r].entries]

CassetteInit ==
  /\ policy \in [record : BOOLEAN, replay : BOOLEAN]
  /\ running = {} /\ seen = [p \in Callers |-> 0]
  /\ recorded = [r \in Recorders |-> <<>>]
  /\ dirty = [r \in Recorders |-> FALSE]
  /\ step = [r \in Recorders |-> "idle"]
  /\ dropping = {}
  /\ temp = [r \in Recorders |-> [entries |-> <<>>, synced |-> FALSE]]
  /\ lock = None
  /\ versions = <<[file |-> NoFile, synced |-> TRUE]>> /\ kept = NoFile
  /\ tape = None /\ cursors = [k \in Keys |-> 0]
  /\ replayed = [p \in Callers |-> <<>>]

-----------------------------------------------------------------------------
(* Recording.                                                                 *)

Alive(r) == step[r] # "gone" /\ r \notin dropping

\* Mutant of Unlocked: recording does not take the save's mutex.
UnlockedAlways(r) == step[r] # "gone"

\* Is the mutex around the entries free.
Unlocked(r) == step[r] = "idle"

\* The inner runner is asked, whichever verb records.
Runs(p) ==
  /\ Alive(Home[p])
  /\ p \notin running /\ seen[p] < MaxRuns[p]
  /\ running' = running \cup {p}
  /\ UNCHANGED <<policy, seen, recorded, saveVars, fileVars, playerVars>>

\* The answer, a result or an error, is recorded before the caller has it.
Records(p) ==
  /\ p \in running /\ Unlocked(Home[p])
  /\ running' = running \ {p}
  /\ seen' = [seen EXCEPT ![p] = @ + 1]
  /\ recorded' = [recorded EXCEPT ![Home[p]] =
                    Append(@, [key |-> KeyOf(p, policy.record), by |-> p, run |-> seen[p] + 1])]
  /\ dirty' = [dirty EXCEPT ![Home[p]] = TRUE]
  /\ UNCHANGED <<policy, step, dropping, temp, lock, fileVars, playerVars>>

\* A cancelled run is not recorded, nor is one whose future is dropped.
RunIsLost(p) ==
  /\ p \in running
  /\ running' = running \ {p}
  /\ UNCHANGED <<policy, seen, recorded, saveVars, fileVars, playerVars>>

-----------------------------------------------------------------------------
(* Saving.                                                                    *)

Clones(r) == /\ step' = [step EXCEPT ![r] = "lock"]
             /\ temp' = [temp EXCEPT ![r] = [entries |-> recorded[r], synced |-> FALSE]]

Save(r) ==
  /\ Alive(r) /\ step[r] = "idle"
  /\ Clones(r)
  /\ UNCHANGED <<policy, recorderVars, dirty, dropping, lock, fileVars, playerVars>>

\* No call is under way. What was not saved is flushed.
DropRecorder(r) ==
  /\ Alive(r) /\ step[r] = "idle"
  /\ \A p \in running : Home[p] # r
  /\ \/ dirty[r] /\ Clones(r) /\ dropping' = dropping \cup {r}
     \/ /\ ~dirty[r]
        /\ step' = [step EXCEPT ![r] = "gone"]
        /\ UNCHANGED <<dropping, temp>>
  /\ UNCHANGED <<policy, recorderVars, dirty, lock, fileVars, playerVars>>

\* The save is over, whatever came of it: its guards are released.
Leaves(r) ==
  /\ step' = [step EXCEPT ![r] = IF r \in dropping THEN "gone" ELSE "idle"]
  /\ lock' = IF lock = r THEN None ELSE lock

TakesLock(r) ==
  /\ step[r] = "lock" /\ lock = None
  /\ lock' = r
  /\ step' = [step EXCEPT ![r] = "write"]
  /\ UNCHANGED <<policy, recorderVars, dirty, dropping, temp, fileVars, playerVars>>

\* The temp has a name nobody else has.
WritesTemp(r) ==
  /\ step[r] = "write"
  /\ step' = [step EXCEPT ![r] = "sync"]
  /\ UNCHANGED <<policy, recorderVars, dirty, dropping, temp, lock, fileVars, playerVars>>

SyncsTemp(r) ==
  /\ step[r] = "sync"
  /\ temp' = [temp EXCEPT ![r].synced = TRUE]
  /\ step' = [step EXCEPT ![r] = "rename"]
  /\ UNCHANGED <<policy, recorderVars, dirty, dropping, lock, fileVars, playerVars>>

Renames(r) ==
  /\ step[r] = "rename" /\ Len(versions) <= MaxBehind
  /\ versions' = Append(versions, [file |-> File(r), synced |-> temp[r].synced])
  /\ step' = [step EXCEPT ![r] = "directory"]
  /\ UNCHANGED <<policy, recorderVars, dirty, dropping, temp, lock, kept, playerVars>>

\* Mutant of SyncsDirectory: a rename is believed to last.
SyncsNothing(r) ==
  /\ step[r] = "directory"
  /\ step' = [step EXCEPT ![r] = "clean"]
  /\ UNCHANGED <<policy, recorderVars, dirty, dropping, temp, lock, fileVars, playerVars>>

SyncsDirectory(r) ==
  /\ step[r] = "directory"
  /\ versions' = <<versions[Len(versions)]>>
  /\ step' = [step EXCEPT ![r] = "clean"]
  /\ UNCHANGED <<policy, recorderVars, dirty, dropping, temp, lock, kept, playerVars>>

Saved(r) ==
  /\ step[r] = "clean"
  /\ dirty' = [dirty EXCEPT ![r] = FALSE]
  /\ kept' = File(r)
  /\ Leaves(r)
  /\ UNCHANGED <<policy, recorderVars, dropping, temp, versions, playerVars>>

\* Another writer holds the lock, or a call fails: save returns Err, the flush of
\* a drop says nothing.
SaveFails(r) ==
  /\ step[r] \in {"lock", "write", "sync", "rename", "directory"}
  /\ Leaves(r)
  /\ UNCHANGED <<policy, recorderVars, dirty, dropping, temp, fileVars, playerVars>>

-----------------------------------------------------------------------------
(* Replaying.                                                                 *)

Path == versions[Len(versions)].file

\* A player is made of what the path holds; a missing file and one that does not
\* parse are errors. It may be made at any time, but what it finds while there are
\* recorders it also finds if they die at that moment, and only that is explored.
Load ==
  /\ \A r \in Recorders : step[r] = "gone"
  /\ tape = None /\ Path \notin {NoFile, Torn}
  /\ tape' = Path.entries
  /\ UNCHANGED <<policy, recorderVars, saveVars, fileVars, cursors, replayed>>

\* The positions of a slot's entries, and the n-th of them in capture order.
Slot(k) == {i \in DOMAIN tape : tape[i].key = k}
Nth(S, n) == CHOOSE i \in S : Cardinality({j \in S : j <= i}) = n

\* In capture order while they last, then the last one for ever.
Played(k) ==
  LET slot == Slot(k)
      len  == Cardinality(slot)
  IN  tape[Nth(slot, IF cursors[k] < len THEN cursors[k] + 1 ELSE len)]

Plays(p) ==
  LET k == KeyOf(p, policy.replay)
  IN  /\ tape # None /\ Len(replayed[p]) < MaxPlays
      /\ \/ /\ Slot(k) # {}
            /\ replayed' = [replayed EXCEPT ![p] = Append(@, Played(k))]
            /\ cursors' = [cursors EXCEPT ![k] = @ + 1]
         \/ /\ Slot(k) = {}
            /\ replayed' = [replayed EXCEPT ![p] = Append(@, None)]
            /\ UNCHANGED cursors
      /\ UNCHANGED <<policy, recorderVars, saveVars, fileVars, tape>>

-----------------------------------------------------------------------------
(* What may happen to them.                                                   *)

\* A process dies, or unwinds, which flushes nothing: its locks go with it.
Crash(r) ==
  /\ step[r] # "gone"
  /\ step' = [step EXCEPT ![r] = "gone"]
  /\ lock' = IF lock = r THEN None ELSE lock
  /\ running' = {p \in running : Home[p] # r}
  /\ UNCHANGED <<policy, seen, recorded, dirty, dropping, temp, fileVars, playerVars>>

\* Every process is gone. Of what was not synced the disk may have any part.
PowerLoss ==
  /\ \E v \in Range(versions) :
       versions' = <<[v EXCEPT !.file = IF v.synced THEN @ ELSE Torn]>>
  /\ step' = [r \in Recorders |-> "gone"]
  /\ lock' = None /\ running' = {}
  /\ tape' = None /\ cursors' = [k \in Keys |-> 0]
  /\ replayed' = [p \in Callers |-> <<>>]
  /\ UNCHANGED <<policy, seen, recorded, dirty, dropping, temp, kept>>

CassetteNext ==
  \/ \E p \in Callers : Runs(p) \/ Records(p) \/ RunIsLost(p) \/ Plays(p)
  \/ \E r \in Recorders : \/ Save(r) \/ DropRecorder(r) \/ TakesLock(r) \/ WritesTemp(r)
                          \/ SyncsTemp(r) \/ Renames(r) \/ SyncsDirectory(r) \/ Saved(r)
                          \/ SaveFails(r) \/ Crash(r)
  \/ Load \/ PowerLoss

CassetteSpec == CassetteInit /\ [][CassetteNext]_cassetteVars

-----------------------------------------------------------------------------
StoreView == INSTANCE Store WITH versions <- [i \in DOMAIN versions |-> versions[i].file]

\* Saving is atomic and durable, with other recorders, failing calls, crashes and
\* losses of power at any step: write_cassette's contract.
ImplementsStore == StoreView!StoreSpec

\* A recorder that is clean has all that was recorded in the file it last saved:
\* runs recorded beside a save, or before one that failed, are not lost for the
\* flush of the drop.
CleanIsSaved ==
  \A r \in Recorders : ~dirty[r] =>
    /\ step[r] = "idle" => recorded[r] = temp[r].entries
    /\ kept.by = r => recorded[r] = kept.entries
    /\ kept.by = None => recorded[r] = <<>>

\* Entries of the player that answer callers other than p under its key.
OthersOf(p) == {q \in Callers \ {p} : KeyOf(q, policy.record) = KeyOf(p, policy.replay)}

\* A replay serves a caller whose key is its own what its recorded runs had
\* answered, in their order, however the runs of others came between; with a
\* policy that differs it may miss, but it is never served an entry of another
\* command, nor of another directory where either policy tells them apart.
ReplayAgrees ==
  \A p \in Callers : \A n \in 1..Len(replayed[p]) :
    LET e    == replayed[p][n]
        mine == {f \in Range(tape) : f.by = p}
    IN  /\ e # None =>
             /\ Command[e.by] = Command[p]
             /\ policy.record \/ policy.replay => Cwd[e.by] = Cwd[p]
        /\ policy.record = policy.replay /\ OthersOf(p) = {} =>
             IF mine = {} THEN e = None
             ELSE e.by = p /\ e.run = (IF n < Cardinality(mine) THEN n ELSE Cardinality(mine))

-----------------------------------------------------------------------------
(* Why they hold: an inductive invariant.                                     *)

Entry == [key : Keys, by : Callers, run : Nat]
Files == [by : Recorders \cup {None}, entries : Seq(Entry)]
Steps == {"idle", "lock", "write", "sync", "rename", "directory", "clean", "gone"}

CassetteTypeOK ==
  /\ policy \in [record : BOOLEAN, replay : BOOLEAN]
  /\ running \in SUBSET Callers
  /\ seen \in [Callers -> Nat]
  /\ recorded \in [Recorders -> Seq(Entry)]
  /\ dirty \in [Recorders -> BOOLEAN]
  /\ step \in [Recorders -> Steps]
  /\ dropping \in SUBSET Recorders
  /\ temp \in [Recorders -> [entries : Seq(Entry), synced : BOOLEAN]]
  /\ lock \in Recorders \cup {None}
  /\ versions \in Seq([file : Files \cup {Torn}, synced : BOOLEAN]) /\ versions # <<>>
  /\ kept \in Files
  /\ tape \in Seq(Entry) \cup {None}
  /\ cursors \in [Keys -> Nat]
  /\ replayed \in [Callers -> Seq(Entry \cup {None})]

\* A save writes what was recorded when it began and is still all that is; a clean
\* recorder has saved it.
CloneInv ==
  /\ \A r \in Recorders : step[r] \notin {"idle", "gone"} => temp[r].entries = recorded[r]
  /\ CleanIsSaved

\* The lock has one holder, whose file is the last from its rename on, and the only
\* one once the directory was synced. What is renamed was synced, and is whole.
FileInv ==
  /\ \A r \in Recorders :
       /\ step[r] \in {"write", "sync", "rename", "directory", "clean"} => lock = r
       /\ step[r] \in {"rename", "directory", "clean"} => temp[r].synced
       /\ step[r] = "directory" => Path = File(r)
       /\ step[r] = "clean" => Len(versions) = 1 /\ Path = File(r)
  /\ \A i \in DOMAIN versions : versions[i].synced /\ versions[i].file # Torn

\* The entries of a caller are numbered in their order, and are under its key.
EarlierOf(es, p, i) == {j \in 1..i : es[j].by = p}
Orderly(es) ==
  \A i \in DOMAIN es : /\ es[i].key = KeyOf(es[i].by, policy.record)
                       /\ es[i].run = Cardinality(EarlierOf(es, es[i].by, i))

OrderInv ==
  /\ \A r \in Recorders : Orderly(recorded[r]) /\ Orderly(temp[r].entries)
  /\ \A p \in Callers :
       seen[p] = Cardinality(EarlierOf(recorded[Home[p]], p, Len(recorded[Home[p]])))
  /\ \A i \in DOMAIN versions : versions[i].file # Torn => Orderly(versions[i].file.entries)
  /\ tape # None => Orderly(tape)

\* A key that only one caller asks for was asked for as often as that caller was
\* served; nothing is served before a tape is in.
PlayInv ==
  /\ tape = None => /\ \A k \in Keys : cursors[k] = 0
                    /\ \A p \in Callers : replayed[p] = <<>>
  /\ \A p \in Callers :
       LET k == KeyOf(p, policy.replay)
       IN  tape # None /\ policy.record = policy.replay /\ OthersOf(p) = {} /\ Slot(k) # {} =>
             cursors[k] = Len(replayed[p])
  /\ ReplayAgrees

CassetteInv == CassetteTypeOK /\ CloneInv /\ FileInv /\ OrderInv /\ PlayInv
=============================================================================
