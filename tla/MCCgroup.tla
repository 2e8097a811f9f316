------------------------------ MODULE MCCgroup ------------------------------
(* Instances of Cgroup for TLC.                                             *)
EXTENDS Cgroup

CONSTANTS l1, l2, q1, q2, k1, a1, a2

Scene(w, k, f, b, s) == [who |-> w, kill |-> k, freezer |-> f, faults |-> b, spare |-> s]

MCScenes == {
  Scene({l1, l2, q1}, TRUE, "ok", FALSE, FALSE),
  Scene({l1, q1, k1}, FALSE, "ok", FALSE, FALSE),
  Scene({l1, q1, k1}, FALSE, "flaky", TRUE, TRUE),
  Scene({q1, q2, a1, k1}, FALSE, "none", TRUE, FALSE),
  Scene({l1, q1, a1, k1}, FALSE, "none", TRUE, FALSE),
  Scene({q1, q2, a1, a2}, FALSE, "none", TRUE, FALSE),
  Scene({l1, q1, Dropper}, TRUE, "ok", TRUE, TRUE),
  Scene({l1, q1, Dropper}, FALSE, "ok", TRUE, FALSE)}
=============================================================================
