-------------------------------- MODULE MCJob --------------------------------
(* Instances of Job for TLC.                                                  *)
EXTENDS Job, TLC

CONSTANTS c1, c2, k1, a1, s1, w1

\* The first child is to be pinned, and starts another process.
TwoSpawns == {c1, c2}
OneAdoption == {a1}
OneStop == {s1}
OneWalk == {w1}
OneOffspring == {k1}
ParentOf == k1 :> c1
FirstSpawn == {c1}
==============================================================================
