---------------------------- MODULE MCReceivers ----------------------------
(***************************************************************************)
(* Every way to receive, and benchmarks of one and of two sizes.           *)
(***************************************************************************)
EXTENDS Benchmark, TLC

Call(m, n, limited, wait) == [method |-> m, count |-> n, limited |-> limited, wait |-> wait]

MCCalls ==
  {Call("by_time", 0, l, w) : l, w \in BOOLEAN}
  \cup {Call("by_count", n, l, w) : n \in {0, 2}, l, w \in BOOLEAN}
  \cup {Call("stats", n, l, TRUE) : n \in {0, 2}, l \in BOOLEAN}
  \cup {Call("stream", 0, FALSE, FALSE), Call("benchmark", 0, TRUE, FALSE)}

Test(sizes, n, loopback, callback) ==
  [sizes |-> sizes, count |-> n, loopback |-> loopback, callback |-> callback]

MCTests ==
  {Test(<<2>>, 2, l, c) : l, c \in BOOLEAN}
  \cup {Test(<<1, 2>>, 2, TRUE, TRUE), Test(<<2>>, 0, TRUE, FALSE)}
=============================================================================
