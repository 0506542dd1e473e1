-------------------------- MODULE MCWorkerManager --------------------------
(* Small instances of WorkerManager for TLC.                               *)
EXTENDS WorkerManager, TLC

CONSTANTS a, b

TwoInstances == {a, b}
OnlyA == {a}
OnlyB == {b}
Nobody == {}
OnePort == {1}

\* Two plain instances are interchangeable.
Interchange == Permutations({a, b})
=============================================================================
