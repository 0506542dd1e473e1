----------------------------- MODULE MCScaling ------------------------------
(* A small instance of Scaling for TLC.                                    *)
EXTENDS Scaling, TLC

CONSTANTS c1, c2

TwoCalls == {c1, c2}

\* The calls are interchangeable.
Interchange == Permutations(TwoCalls)

\* Four hosts; the second has two GPUs, one of them, like that of the first,
\* too large to be a best fit; the first and the third have no address.
FourHosts == {1, 2, 3, 4}
FiveGpus == {<<1, 0>>, <<2, 0>>, <<2, 1>>, <<3, 0>>, <<4, 0>>}
WithAddress == {2, 4}
Memory == [s \in FiveGpus |-> IF s \in {<<1, 0>>, <<2, 1>>} THEN 4 ELSE IF s = <<3, 0>> THEN 3 ELSE 2]
Ports == {11, 12, 13}
RvPorts == {21, 22}

AllOrOne == {FourHosts, {1}}
Second == {2}

\* Slow, fast, and nothing but observations beyond the last bucket.
SomeHistograms ==
    {[low |-> 0, mid |-> 0, high |-> 1, over |-> 0],
     [low |-> 1, mid |-> 0, high |-> 0, over |-> 0],
     [low |-> 0, mid |-> 0, high |-> 0, over |-> 1]}
=============================================================================
