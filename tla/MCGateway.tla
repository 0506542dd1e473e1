----------------------------- MODULE MCGateway -----------------------------
(* A small instance of Gateway for TLC.                                    *)
EXTENDS Gateway

CONSTANTS a, b, r1, r2, p1

TwoReplicas == {a, b}
TwoRequests == {r1, r2}
OnePrompt == {p1}
=============================================================================
