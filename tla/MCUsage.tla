------------------------------ MODULE MCUsage ------------------------------
(* Small instances of Usage for TLC.                                       *)
EXTENDS Usage, TLC

CONSTANTS u1, u2, m1, r1, r2, r3

TwoUsers == {u1, u2}
OneUser == {u1}
OneModel == {m1}
TwoRequests == {r1, r2}
ThreeRequests == {r1, r2, r3}
=============================================================================
