------------------------------- MODULE Fleet --------------------------------
(***************************************************************************)
(* What the server and a worker share: the instance ids, the ports and the *)
(* messages of proto/cluster.proto, reduced to the fields that decide      *)
(* control: instance id, state, action, generation and port.               *)
(***************************************************************************)
EXTENDS Integers, FiniteSets

CONSTANTS
    Instances,   \* instance ids (UUIDs, never reused)
    Ports,       \* the instance port range, all positive
    Followers,   \* instances that are rank > 0 of a multi-node group
    MaxGen       \* bound on the generation counter

ASSUME FleetAssumption ==
    /\ IsFiniteSet(Instances)
    /\ Followers \subseteq Instances
    /\ Ports \subseteq Nat \ {0}
    /\ MaxGen \in Nat \ {0}

Gens == 0 .. MaxGen                   \* 0: protobuf's default, below every real one
PortValues == Ports \cup {0}          \* 0: no port
RankOf(i) == IF i \in Followers THEN 1 ELSE 0

(***************************************************************************)
(* InstanceCommand: act "none" is a command that was not sent.             *)
(***************************************************************************)
NoCmd == [act |-> "none", gen |-> 0, port |-> 0]
StartCmd(g, p) == [act |-> "start", gen |-> g, port |-> p]
StopCmd == [act |-> "stop", gen |-> 0, port |-> 0]
DeleteCmd == [act |-> "delete", gen |-> 0, port |-> 0]
CmdType == [act : {"none", "start", "stop", "delete"}, gen : Gens, port : PortValues]

\* A start carries its generation and a port, unless the instance is a follower.
CmdsFor(i) ==
    {NoCmd, StopCmd, DeleteCmd}
      \cup {StartCmd(g, p) : g \in Gens \ {0}, p \in IF i \in Followers THEN {0} ELSE Ports}

\* The commands of one Sync response: at most one per instance.
CmdMaps == {f \in [Instances -> CmdType] : \A i \in Instances : f[i] \in CmdsFor(i)}
NoCmds == [i \in Instances |-> NoCmd]

(***************************************************************************)
(* InstanceStatus: state "none" is an instance the worker does not report. *)
(***************************************************************************)
WorkerStates == {"starting", "running", "stopped", "error"}
NotReported == [state |-> "none", gen |-> 0, port |-> 0]
StatusType == [state : WorkerStates \cup {"none"}, gen : Gens, port : PortValues]
Reports == [Instances -> {NotReported} \cup
                         [state : WorkerStates, gen : Gens \ {0}, port : PortValues]]
=============================================================================
