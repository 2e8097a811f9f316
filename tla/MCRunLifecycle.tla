--------------------------- MODULE MCRunLifecycle ---------------------------
(* Instances of RunLifecycle for TLC.                                      *)
EXTENDS RunLifecycle

\* Configurations in which every grace set has a trigger to delay.
Sensible == {c \in ConfigSpace :
               /\ c.cancelGrace => c.cancel
               /\ c.timeoutGrace => c.timeout \/ c.inactivity
               /\ c.cancel \/ c.timeout \/ c.inactivity}

SharedConfigs == {c \in Sensible : ~c.own /\ ~c.inactivity}
OwnConfigs    == {c \in Sensible : c.own /\ ~(c.inactivity /\ c.timeout)}
TimedConfigs  == SharedConfigs \cup OwnConfigs
IdleConfigs   == {c \in Sensible : c.inactivity /\ ~c.cancel}

\* For liveness: one grace of each kind, under either ownership.
LiveConfigs == {c \in Sensible : ~c.inactivity /\ c.cancel /\ c.timeout /\ c.cancelGrace = c.timeoutGrace}

BorrowingVerbs == {"stream", "probe", "waitExit", "startKill"}
WaitingVerbs == {"stream", "wait", "waitExit"}
AllVerbs == BorrowingVerbs \cup {"wait"}
=============================================================================
