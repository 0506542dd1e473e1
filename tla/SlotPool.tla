------------------------------ MODULE SlotPool ------------------------------
(***************************************************************************)
(* What the gateway promises about its replicas' slots: a request takes    *)
(* at most one slot, counts as load from that moment on, and gives exactly *)
(* that slot back, once.  The least-loaded choice of a replica and the     *)
(* load that metrics and the autoscaler read rest on this and on nothing   *)
(* else of the gateway.                                                    *)
(***************************************************************************)
EXTENDS Integers

CONSTANTS
    Replicas,   \* the replicas
    Requests,   \* the requests
    Before,     \* a request that has taken no slot: no replica
    After       \* a request that has none any more: no replica either

VARIABLES
    load,       \* the slots of a replica that are taken
    lease       \* the slot of a request

spVars == <<load, lease>>

SPInit ==
    /\ load = [i \in Replicas |-> 0]
    /\ lease = [c \in Requests |-> Before]

Take(c, i) ==
    /\ lease[c] = Before
    /\ lease' = [lease EXCEPT ![c] = i]
    /\ load' = [load EXCEPT ![i] = @ + 1]

\* Refused before a slot was taken.
Refuse(c) ==
    /\ lease[c] = Before
    /\ lease' = [lease EXCEPT ![c] = After]
    /\ UNCHANGED load

GiveBack(c) ==
    /\ lease[c] \in Replicas
    /\ load' = [load EXCEPT ![lease[c]] = @ - 1]
    /\ lease' = [lease EXCEPT ![c] = After]

SPNext == \E c \in Requests : Refuse(c) \/ GiveBack(c) \/ \E i \in Replicas : Take(c, i)

SPSafe == SPInit /\ [][SPNext]_spVars
SPSpec == SPSafe /\ \A c \in Requests : WF_spVars(GiveBack(c))
=============================================================================
