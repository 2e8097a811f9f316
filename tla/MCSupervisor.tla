----------------------------- MODULE MCSupervisor -----------------------------
(* Instances of Supervisor for TLC.                                        *)
EXTENDS Supervisor

CONSTANTS MaxRestarts   \* the largest max_restarts of a run

Bounded == [policy : {"always", "onCrash", "never"}, max : 0..MaxRestarts,
            kind : {"own", "shared", "capture"},
            health : BOOLEAN, storm : BOOLEAN, oneShot : BOOLEAN]

\* A plain supervisor over private groups.
PlainConfigs == {c \in Bounded : /\ c.policy = "onCrash" /\ c.max = MaxRestarts
                                /\ c.kind = "own" /\ ~c.oneShot /\ ~c.health}
=============================================================================
