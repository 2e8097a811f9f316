---------------------------- MODULE MCLineBuffer ----------------------------
(* Instances of LineBuffer for TLC.                                        *)
EXTENDS LineBuffer

Setup(lens, who, m, lines, bytes) ==
    [script |-> lens, waiters |-> who,
     policy |-> [mode |-> m, maxLines |-> lines, maxBytes |-> bytes]]

\* Captures: a line that fits after one that does not, empty lines, and a line
\* beyond the cap, under either ceiling.
Captures ==
    {Setup(<<1, 2, 1>>, {}, "DropNewest", {}, {2}),
     Setup(<<0, 2, 0>>, {}, "DropOldest", {}, {1}),
     Setup(<<2, 0, 1>>, {}, "DropOldest", {}, {2}),
     Setup(<<2, 0>>, {}, "Error", {1}, {}),
     Setup(<<0, 2>>, {}, "Error", {}, {3}),
     Setup(<<1>>, {}, "Error", {}, {})}

\* Streams, alone and watched by a probe; a probe before a capture.
Streams ==
    {Setup(<<1, 1>>, {"reader"}, "DropOldest", {1}, {}),
     Setup(<<2>>, {"reader"}, "DropNewest", {}, {1}),
     Setup(<<1>>, {"reader", "probe"}, "DropOldest", {}, {}),
     Setup(<<1, 1>>, {"probe"}, "DropOldest", {}, {})}

AllSetups == Captures \cup Streams
=============================================================================
