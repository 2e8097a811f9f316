----------------------------- MODULE MCPipeline -----------------------------
(* Chains of three stages that only fail by themselves, and chains of two with *)
(* every further trouble: a child that refuses to die, a drain that fails, a   *)
(* token, a deadline, a caller who waits, kills or drops, an unchecked         *)
(* producer.                                                                   *)
EXTENDS Pipeline

Chain(verb, n, unchecked, deaf, loud, token_, limit, caller) ==
  [verb |-> verb, n |-> n, unchecked |-> unchecked, deaf |-> deaf, loud |-> loud,
   token |-> token_, limit |-> limit, caller |-> caller]

MCConfigs ==
  {Chain("capture", 3, {}, {}, {}, FALSE, FALSE, {}),
   Chain("session", 3, {}, {}, {}, FALSE, FALSE, {}),
   Chain("capture", 2, {1}, {}, {2}, FALSE, FALSE, {"drop"}),
   Chain("session", 2, {1}, {}, {2}, FALSE, FALSE, {"wait", "kill", "drop"}),
   Chain("session", 2, {}, {1}, {}, TRUE, FALSE, {"kill"}),
   Chain("capture", 2, {}, {}, {2}, TRUE, TRUE, {}),
   Chain("capture", 2, {}, {1}, {}, TRUE, TRUE, {}),
   Chain("session", 2, {}, {1}, {}, TRUE, TRUE, {})}
=============================================================================
