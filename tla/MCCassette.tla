------------------------------ MODULE MCCassette ------------------------------
(* Instances of Cassette for TLC.                                             *)
EXTENDS Cassette, TLC

CONSTANTS r1, r2, a, b, c

TwoOfOne == {r1, r2}
ThreeCallers == {a, b, c}

\* Two callers of one recorder run the same in different directories; a third runs
\* something else on the other recorder.
Homes    == a :> r1 @@ b :> r1 @@ c :> r2
Programs == a :> "make" @@ b :> "make" @@ c :> "test"
Runs2    == a :> 2 @@ b :> 1 @@ c :> 1
Places   == a :> "x" @@ b :> "y" @@ c :> "x"
==============================================================================
