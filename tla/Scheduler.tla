----------------------------- MODULE Scheduler ------------------------------
(***************************************************************************)
(* Placement: which GPU and which ports a new replica gets                 *)
(* (server/inferna_server/services/scheduler.py).                          *)
(*                                                                         *)
(* The operators work on a snapshot c of the cluster, read while the rows  *)
(* of its connected workers are locked:                                    *)
(*   c.up     the connected hosts                                          *)
(*   c.free   free memory of each GPU, after what live instances use       *)
(*   c.ports  per host, the ports of wanted or live instances              *)
(*   c.rv     per host, the rendezvous ports of those instances            *)
(* A GPU is a pair <<host, index>>; hosts are numbered by name.            *)
(***************************************************************************)
EXTENDS Integers, FiniteSets, Sequences

CONSTANTS
    Hosts,            \* worker hosts of the cluster, in the order of their names
    Slots,            \* their GPUs
    Supported,        \* the GPUs of a vendor the engine supports
    Addressed,        \* hosts that reported a routable address
    Need,             \* vram_required_mb of the model
    InstancePorts,    \* instance_port_range
    RendezvousPorts   \* rendezvous_port_range

ASSUME SchedulerAssumption ==
    /\ Hosts \subseteq Nat /\ IsFiniteSet(Hosts)
    /\ Slots \subseteq Hosts \X Nat /\ IsFiniteSet(Slots)
    /\ Supported \subseteq Slots
    /\ Addressed \subseteq Hosts
    /\ Need \in Nat \ {0}
    /\ InstancePorts \subseteq Nat \ {0} /\ IsFiniteSet(InstancePorts)
    /\ RendezvousPorts \subseteq Nat \ {0} /\ IsFiniteSet(RendezvousPorts)

Least(S) == CHOOSE p \in S : \A q \in S : p <= q

\* The order in which the loops visit the GPUs: by host name, then by index.
Visited(s, t) == s[1] < t[1] \/ (s[1] = t[1] /\ s[2] < t[2])

\* _alloc_port: the lowest port of the range that is not used on the host.
FreePorts(c, h, extra) == InstancePorts \ (c.ports[h] \cup extra)

\* _alloc_rendezvous_port: clear of the host's instance ports and rendezvous ports.
FreeRendezvous(c, h) == RendezvousPorts \ (c.ports[h] \cup c.rv[h])

\* What one new instance row is given; a follower rank gets no port.
Placement(s, p, r, v) == [slots |-> s, port |-> p, rank |-> r, rv |-> v]
PlacementType ==
    [slots : SUBSET Slots, port : InstancePorts \cup {0}, rank : Nat, rv : RendezvousPorts \cup {0}]
Refused == [ok |-> FALSE, placed |-> << >>]
Granted(placed) == [ok |-> TRUE, placed |-> placed]

(***************************************************************************)
(* allocate_replicas: single-node replicas, one after the other.           *)
(***************************************************************************)
Usable(c) == {s \in Supported : s[1] \in c.up}

Fitting(c, free) == {s \in Usable(c) : free[s] >= Need}

\* The smallest free memory that fits; the first visited wins a tie.
BestFit(S, free) ==
    CHOOSE s \in S : \A t \in S \ {s} :
        free[s] < free[t] \/ (free[s] = free[t] /\ Visited(s, t))

\* Pass 1a: a host this group does not use yet; 1b: a GPU it does not use yet;
\* 2: any GPU that fits.
Pool(fit, used) ==
    LET freshHost == {s \in fit : \A u \in used : u[1] # s[1]}
    IN  CASE freshHost # {} -> freshHost
          [] freshHost = {} /\ fit \ used # {} -> fit \ used
          [] OTHER -> fit

\* Mutant: memory handed out by this call is not subtracted.
PlaceUncounted(c, st) ==
    LET pool == Pool(Fitting(c, st.free), st.used)
        s == BestFit(pool, st.free)
        ports == FreePorts(c, s[1], st.ports)
    IN  IF ~st.ok \/ pool = {} \/ ports = {} THEN [st EXCEPT !.ok = FALSE]
        ELSE [st EXCEPT !.used = @ \cup {s}, !.ports = @ \cup {Least(ports)},
                        !.placed = Append(@, Placement({s}, Least(ports), 0, 0))]

\* One round of the loop: st holds what this call has handed out so far.
PlaceReplica(c, st) ==
    LET pool == Pool(Fitting(c, st.free), st.used)
        s == BestFit(pool, st.free)
        ports == FreePorts(c, s[1], st.ports)
    IN  IF ~st.ok \/ pool = {} \/ ports = {} THEN [st EXCEPT !.ok = FALSE]
        ELSE [st EXCEPT !.free[s] = @ - Need,
                        !.used = @ \cup {s},
                        !.ports = @ \cup {Least(ports)},
                        !.placed = Append(@, Placement({s}, Least(ports), 0, 0))]

\* All or nothing: the first replica that cannot be placed raises.
allocate_replicas(c, count, used) ==
    LET start == [ok |-> TRUE, free |-> c.free, used |-> used, ports |-> {}, placed |-> << >>]
        place[n \in 0 .. count] == IF n = 0 THEN start ELSE PlaceReplica(c, place[n - 1])
    IN  IF place[count].ok THEN Granted(place[count].placed) ELSE Refused

(***************************************************************************)
(* allocate_manual: the operator names the host h and the GPU indexes.     *)
(***************************************************************************)
allocate_manual(c, h, indexes) ==
    LET wanted == {<<h, x>> : x \in indexes}
        ports == FreePorts(c, h, {})
    IN  IF h \in c.up /\ wanted \subseteq Fitting(c, c.free) /\ ports # {}
        THEN Granted(<< Placement(wanted, Least(ports), 0, 0) >>)
        ELSE Refused

(***************************************************************************)
(* allocate_parallel_replicas: one group of n ranks, one host each.        *)
(***************************************************************************)

\* _best_fitting_gpu: the largest free memory of a host; the first index wins a tie.
OnHost(c, h) == {s \in Fitting(c, c.free) : s[1] = h}
RoomiestGpu(c, h) ==
    CHOOSE s \in OnHost(c, h) : \A t \in OnHost(c, h) \ {s} :
        c.free[s] > c.free[t] \/ (c.free[s] = c.free[t] /\ Visited(s, t))
Ahead(c, g, h) ==
    LET room(x) == c.free[RoomiestGpu(c, x)]
    IN  room(g) > room(h) \/ (room(g) = room(h) /\ g < h)

\* The head is the roomiest host with an address, the other ranks follow by room.
GroupHead(c, fitting) ==
    LET heads == fitting \cap Addressed
    IN  CHOOSE h \in heads : \A g \in heads \ {h} : Ahead(c, h, g)
GroupRank(c, fitting, head, h) ==
    IF h = head THEN 0
    ELSE 1 + Cardinality({g \in fitting \ {head, h} : Ahead(c, g, h)})

allocate_parallel_replicas(c, n, exclude) ==
    LET fitting == {h \in c.up \ exclude : OnHost(c, h) # {}}
        head == GroupHead(c, fitting)
        hostOf(r) == CHOOSE h \in fitting : GroupRank(c, fitting, head, h) = r
    IN  IF \/ fitting \cap Addressed = {}
           \/ Cardinality(fitting) < n
           \/ FreePorts(c, head, {}) = {}
           \/ FreeRendezvous(c, head) = {}
        THEN Refused
        ELSE Granted([k \in 1 .. n |->
               Placement({RoomiestGpu(c, hostOf(k - 1))},
                         IF k = 1 THEN Least(FreePorts(c, head, {})) ELSE 0,
                         k - 1,
                         Least(FreeRendezvous(c, head)))])
=============================================================================
