---------------------------- MODULE MCBenchmark ----------------------------
(***************************************************************************)
(* Values of the constants for the model-checking runs of Benchmark.       *)
(***************************************************************************)
EXTENDS Benchmark

CONSTANTS s1, p1, p2    \* threads, as model values

NoThread == {}
OneSub == {s1}
OnePub == {p1}
TwoPubs == {p1, p2}

NoFault == {}
AllFaults == FaultKinds
=============================================================================
