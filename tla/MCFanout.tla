------------------------------ MODULE MCFanout ------------------------------
(* Batches with and without neighbours, and verbs that retry side by side.     *)
EXTENDS Fanout

CONSTANTS c1, none, v1, v2

MCOps == {1, 2, 3, v1, v2}

Plan(s, n, f, t, l, own, piped, checks) ==
  [stdin |-> s, tries |-> n, accepts |-> f, token |-> t, limit |-> l,
   own |-> own, piped |-> piped, checks |-> checks]

Plain   == Plan(none, 1, {}, FALSE, FALSE, TRUE, TRUE, FALSE)
Fed1    == Plan(c1, 1, {}, FALSE, FALSE, TRUE, TRUE, FALSE)
Limited == Plan(none, 1, {}, TRUE, TRUE, FALSE, TRUE, FALSE)
Stubborn(s) == Plan(s, 2, Failures, FALSE, TRUE, TRUE, TRUE, TRUE)
Choosy(s)   == Plan(s, 2, {"launch", "io"}, TRUE, FALSE, TRUE, TRUE, TRUE)
Blind       == Plan(none, 2, Failures, FALSE, FALSE, FALSE, FALSE, TRUE)

With(a, b, c, v, w) == [o \in MCOps |-> CASE o = 1 -> a [] o = 2 -> b [] o = 3 -> c
                                          [] o = v1 -> v [] OTHER -> w]

Scene(n, size, who, p) == [limit |-> n, size |-> size, verbs |-> who, plan |-> p]

MCScenes == {
  Scene(2, 3, {v1}, With(Fed1, Limited, Plain, Stubborn(c1), Plain)),
  Scene(0, 2, {v1}, With(Fed1, Plain, Plain, Choosy(c1), Plain)),
  Scene(2, 2, {v1}, With(Fed1, Limited, Plain, Stubborn(c1), Plain)),
  Scene(1, 0, {v1, v2}, With(Plain, Plain, Plain, Stubborn(c1), Choosy(c1))),
  Scene(1, 0, {v1, v2}, With(Plain, Plain, Plain, Stubborn(none), Blind))}

MCPlans == {sc.plan : sc \in MCScenes}
=============================================================================
