--------------------------- MODULE MCGroupTeardown ---------------------------
(* Instances of GroupTeardown for TLC: any two of a spawn, a PTY launch and *)
(* an adoption, with a stop.                                                *)
EXTENDS GroupTeardown

CONSTANTS s1, p1, a1, g1

Pairs == {{s1, p1}, {p1, a1}, {s1, a1}}
=============================================================================
