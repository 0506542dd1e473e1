------------------------- MODULE MCReconcileLoop --------------------------
(* Small instances of ReconcileLoop for TLC.                               *)
EXTENDS ReconcileLoop, TLC

CONSTANTS a, b, c1, c2

OneInstance == {a}
TwoInstances == {a, b}
Nobody == {}
OnePort == {1}
OneClient == {c1}
TwoClients == {c1, c2}

\* Two instances that compete for one port: stop and restart are for one of them, the other
\* is deployed only, and nothing is deleted, which the runs with one instance have.
Competing ==
    /\ worker # "absent" => worker' # "absent"
    /\ \A i \in Instances : row'[i].life # "gone"
    /\ \A c \in Clients : api'[c].id # {b}
CompetingSpec == Init /\ [][Next /\ Competing]_vars /\ Fairness
=============================================================================
