------------------------------ MODULE Scaling -------------------------------
(***************************************************************************)
(* One deployment and its replicas: deploy, manual scaling, the            *)
(* autoscaling window, the autoscaler's tick and deletion                  *)
(* (services/scaling.py, services/autoscaling.py, api/deployments.py,      *)
(* api/instances.py).                                                      *)
(*                                                                         *)
(* A call loads the deployment with a plain SELECT, then apply_scale locks *)
(* its row, reads the instances again (but not the window), decides, and   *)
(* commits.  Other calls and the workers' reports come in between.  The    *)
(* ORM sends a column only if it differs from the value that was loaded.   *)
(*                                                                         *)
(* Generations are left to module ControlPlane.  "pending" stands for the  *)
(* states scheduled and starting, which scaling never tells apart.         *)
(***************************************************************************)
EXTENDS Scheduler, Autoscaler

CONSTANTS
    MaxInst,       \* bound on the instance rows ever inserted
    MaxUnits,      \* bound on the replica units ever created
    MaxReplicas,   \* bound on the replica counts asked for (8 in the schemas)
    GroupSizes,    \* the values of nodes_per_replica of a parallel group
    Calls,         \* concurrent API calls and autoscaler ticks
    MaxCalls,      \* bound on the calls made
    MaxBroken,     \* bound on the instances in error at one time
    Capacity,      \* memory of each GPU
    Histograms,    \* first-token histograms an autoscaler tick may find
    UpSets,        \* the sets of hosts a call may find connected
    ManualHosts    \* the hosts an operator picks GPUs of by hand

ASSUME ScalingAssumption ==
    /\ MaxInst \in Nat /\ MaxUnits \in Nat /\ MaxReplicas \in Nat \ {0} /\ MaxCalls \in Nat
    /\ MaxBroken \in Nat
    /\ GroupSizes \subseteq Nat \ {0, 1}
    /\ Capacity \in [Slots -> Nat]
    /\ Histograms \subseteq [Bands -> Nat]
    /\ UpSets \subseteq SUBSET Hosts /\ ManualHosts \subseteq Hosts

VARIABLES
    dep,      \* the deployments row
    inst,     \* the model_instances rows, by order of creation
    call,     \* the calls between their SELECT and their end
    txn,      \* the call that holds the row lock, what it saw, what it will write
    cooling,  \* the autoscaler acted less than cooldown_seconds ago
    made      \* calls made so far

scVars == <<dep, inst, call, txn, cooling, made>>

Ids == 1 .. MaxInst
Counts == 1 .. MaxReplicas
LIVE == {"pending", "running"}                       \* LIVE_STATES
NoDep == [there |-> FALSE, nodes |-> 1, min |-> 1, max |-> 1]
NoInst(life) == [life |-> life, desired |-> "stopped", state |-> "stopped", slots |-> {},
                 port |-> 0, unit |-> 0, rank |-> 0, rv |-> 0]
NoCall == [op |-> "none", min |-> 1, max |-> 1, arg |-> 0, lo |-> 1, hi |-> 1, from |-> 0]
NoPlan == [ok |-> TRUE, count |-> 0, short |-> 0, placed |-> << >>, stops |-> {}]
NoTxn == [by |-> {}, seen |-> [i \in Ids |-> NoInst("unborn")], up |-> {}, plan |-> NoPlan]

InstType ==
    [life : {"unborn", "live", "gone"}, desired : {"running", "stopped"},
     state : LIVE \cup {"stopped", "error"}, slots : SUBSET Slots,
     port : InstancePorts \cup {0}, unit : Ids \cup {0}, rank : Nat,
     rv : RendezvousPorts \cup {0}]

PlanType ==
    [ok : BOOLEAN, count : Nat, short : Int, placed : Seq(PlacementType), stops : SUBSET Ids]

ScalingTypeOK ==
    /\ dep \in [there : BOOLEAN, nodes : Nat \ {0}, min : Counts, max : Counts]
    /\ dep.min <= dep.max
    /\ inst \in [Ids -> InstType]
    /\ call \in [Calls -> [op : {"none", "scale", "range", "tick", "remove"},
                           min : Counts, max : Counts, arg : Nat, lo : Counts, hi : Counts,
                           from : Nat]]
    /\ txn \in [by : SUBSET Calls, seen : [Ids -> InstType], up : SUBSET Hosts, plan : PlanType]
    /\ cooling \in BOOLEAN
    /\ made \in 0 .. MaxCalls

ScalingInit ==
    /\ dep = NoDep
    /\ inst = [i \in Ids |-> NoInst("unborn")]
    /\ call = [c \in Calls |-> NoCall]
    /\ txn = NoTxn
    /\ cooling = FALSE
    /\ made = 0

(***************************************************************************)
(* Replica units: an instance, or all ranks of a parallel group.           *)
(***************************************************************************)
Rows(m) == {i \in Ids : m[i].life = "live"}
Units(m) == {m[i].unit : i \in Rows(m)}
Members(m, u) == {i \in Rows(m) : m[i].unit = u}

Wanted(m) == {u \in Units(m) : \E i \in Members(m, u) : m[i].desired = "running"}
Serving(m) == {u \in Wanted(m) : \A i \in Members(m, u) : m[i].state = "running"}
Pending(m) == {u \in Wanted(m) \ Serving(m) : \A i \in Members(m, u) : m[i].state \in LIVE}
Broken(m) == {u \in Wanted(m) : \E i \in Members(m, u) : m[i].state = "error"}

\* Wanted, not broken, and not on its way either: restarted, or half stopped.
Limbo(m) == Wanted(m) \ (Serving(m) \cup Pending(m) \cup Broken(m))

(***************************************************************************)
(* What the scheduler sees: live rows use memory; wanted or live rows      *)
(* reserve their ports.                                                    *)
(***************************************************************************)
Reserves(r) == r.life = "live" /\ (r.desired = "running" \/ r.state \in LIVE)
HostOf(r) == {s[1] : s \in r.slots}
ReservedOn(m, h) == {i \in Ids : Reserves(m[i]) /\ h \in HostOf(m[i])}
Snapshot(m, up) ==
    [up |-> up,
     free |-> [s \in Slots |-> Capacity[s] -
                 Need * Cardinality({i \in Rows(m) : m[i].state \in LIVE /\ s \in m[i].slots})],
     ports |-> [h \in Hosts |-> {m[i].port : i \in ReservedOn(m, h)} \ {0}],
     rv |-> [h \in Hosts |-> {m[i].rv : i \in ReservedOn(m, h)} \ {0}]]

\* The unique index over (worker, port) of active rows.
Clash(m) == \E i, j \in Ids :
    /\ i # j /\ Reserves(m[i]) /\ Reserves(m[j])
    /\ m[i].port # 0 /\ m[i].port = m[j].port /\ HostOf(m[i]) = HostOf(m[j])

\* New rows, in the order of their placements; a group is named after its head.
Unborn(m) == {i \in Ids : m[i].life = "unborn"}
First(m) == MaxInst - Cardinality(Unborn(m)) + 1
Inserted(m, placed) == [i \in Ids |->
    IF i \in First(m) .. First(m) + Len(placed) - 1
    THEN LET p == placed[i - First(m) + 1]
         IN  [life |-> "live", desired |-> "running", state |-> "pending", slots |-> p.slots,
              port |-> p.port, unit |-> i - p.rank, rank |-> p.rank, rv |-> p.rv]
    ELSE m[i]]
Room(m, placed) ==
    placed = << >> \/
      /\ Len(placed) <= Cardinality(Unborn(m))
      /\ Cardinality({i \in Ids \ Unborn(m) : m[i].rank = 0})
           + Cardinality({k \in DOMAIN placed : placed[k].rank = 0}) <= MaxUnits
WithRows(m, placed) == IF placed = << >> THEN m ELSE Inserted(m, placed)

(***************************************************************************)
(* POST /model-instances: a deployment of n replicas, of one group of n    *)
(* ranks, or of one replica on GPUs the operator names.                    *)
(***************************************************************************)
Create(alloc, nodes, n) ==
    /\ ~dep.there /\ Unborn(inst) = Ids
    /\ alloc.ok /\ Room(inst, alloc.placed)
    /\ dep' = [there |-> TRUE, nodes |-> nodes, min |-> n, max |-> n]
    /\ inst' = Inserted(inst, alloc.placed)
    /\ UNCHANGED <<call, txn, cooling, made>>

DeployReplicas(n, up) == Create(allocate_replicas(Snapshot(inst, up), n, {}), 1, n)
DeployGroup(n, up) == Create(allocate_parallel_replicas(Snapshot(inst, up), n, {}), n, 1)
DeployManual(h, xs, up) == xs # {} /\ Create(allocate_manual(Snapshot(inst, up), h, xs), 1, 1)

(***************************************************************************)
(* A call begins: the deployment is loaded, no lock is held.               *)
(***************************************************************************)
Begin(c, op, arg, lo, hi, from) ==
    /\ dep.there /\ call[c] = NoCall /\ made < MaxCalls
    /\ made' = made + 1
    /\ call' = [call EXCEPT ![c] = [op |-> op, min |-> dep.min, max |-> dep.max, arg |-> arg,
                                    lo |-> lo, hi |-> hi, from |-> from]]
    /\ UNCHANGED <<dep, inst, txn, cooling>>

\* POST /deployments/{id}/scale.
BeginScale(c, n) == Begin(c, "scale", n, n, n, 0)

\* Mutant: a count below the window stays there.
ClampHigh(lo, hi, n) == IF n > hi THEN hi ELSE n
Clamp(lo, hi, n) == IF n > hi THEN hi ELSE IF n < lo THEN lo ELSE n

\* PUT /deployments/{id}/range: the current count is that of all units on record.
BeginRange(c, lo, hi) ==
    Begin(c, "range", Clamp(lo, hi, Cardinality(Units(inst))), lo, hi, 0)

\* autoscale_tick, up to the call of apply_scale: deployments with a window only,
\* and nothing to do when the count is right or an action is too recent.
BeginTick(c, obs, queue) ==
    LET units == Cardinality(Wanted(inst))
        serving == Cardinality({i \in Rows(inst) : inst[i].state = "running"})
        target == desired_replicas(units, dep.min, dep.max, read_signal(obs, queue, serving))
    IN  /\ dep.max > dep.min
        /\ target # units /\ ~cooling
        /\ \A d \in Calls : call[d].op # "tick"          \* one loop, one tick at a time
        /\ Begin(c, "tick", target, dep.min, dep.max, units)

\* DELETE /model-instances/{id}: the number of rows decides what is deleted.
BeginRemove(c, i) ==
    i \in Rows(inst) /\ Begin(c, "remove", i, 1, 1, IF Cardinality(Rows(inst)) <= 1 THEN 1 ELSE 2)

(***************************************************************************)
(* apply_scale, from the row lock to the decision.                         *)
(***************************************************************************)

\* The deployment row as this call's UPDATE leaves it.
Sent(old, loaded, new) == IF new = loaded THEN old ELSE new
WindowAfter(q) ==
    IF q.op = "tick" THEN dep
    ELSE [dep EXCEPT !.min = Sent(@, q.min, q.lo), !.max = Sent(@, q.max, q.hi)]

\* A manual count stands; any other is clamped into the window that was loaded,
\* or was just set.
TargetOf(q) == IF q.op = "scale" THEN q.arg ELSE Clamp(q.lo, q.hi, q.arg)

\* Mutant: the oldest are stopped first, serving or not.
StopsFirstOldest(m, u, v) == u < v

\* Scale-in order: units that do not serve yet, then the oldest.
StopsFirst(m, u, v) ==
    \/ u \notin Serving(m) /\ v \in Serving(m)
    \/ (u \in Serving(m) <=> v \in Serving(m)) /\ u < v
Surplus(m, n) ==
    LET units == Serving(m) \cup Pending(m)
    IN  {u \in units : Cardinality({v \in units : StopsFirst(m, v, u)}) < Cardinality(units) - n}

\* The rows as the scheduler's queries see them: the stop of the broken units is
\* flushed before, so they use no memory and give up their ports.
\* (Mutant: a group is its head.)
HeadsOf(m, units) == {i \in UNION {Members(m, u) : u \in units} : m[i].rank = 0}
MembersOf(m, units) == UNION {Members(m, u) : u \in units}
Flushed(m) == [i \in Ids |->
    IF i \in MembersOf(m, Broken(m)) THEN [m[i] EXCEPT !.desired = "stopped"] ELSE m[i]]

\* Placements for new units.  Single-node replicas avoid the GPUs of the units that
\* count; groups are placed one after the other and avoid every host that a unit on
\* record was ever given.
Counting(m) == Serving(m) \cup Pending(m)
UsedSlots(m) == UNION {m[i].slots : i \in MembersOf(m, Counting(m))}
HostsOf(m) == UNION {HostOf(m[i]) : i \in Rows(m)}
NewReplicas(m, up, n) == allocate_replicas(Snapshot(m, up), n, UsedSlots(m))
AddGroup(up, nodes, st) ==
    LET g == allocate_parallel_replicas(Snapshot(st.rows, up), nodes, st.occupied)
    IN  IF ~st.ok \/ ~g.ok THEN [st EXCEPT !.ok = FALSE]
        ELSE [st EXCEPT !.rows = WithRows(@, g.placed),
                        !.occupied = @ \cup UNION {HostOf(g.placed[k]) : k \in DOMAIN g.placed},
                        !.placed = @ \o g.placed]
NewGroups(m, up, n, nodes) ==
    LET start == [ok |-> TRUE, rows |-> m, occupied |-> HostsOf(m), placed |-> << >>]
        group[k \in 0 .. n] == IF k = 0 THEN start ELSE AddGroup(up, nodes, group[k - 1])
    IN  group[n]

\* Mutant: broken units count as capacity.
DecideBroken(m, up, n, nodes) ==
    LET have == Counting(m) \cup Broken(m)
        short == n - Cardinality(have)
        new == IF short <= 0 THEN Granted(<< >>)
               ELSE IF nodes > 1 THEN NewGroups(Flushed(m), up, short, nodes)
               ELSE NewReplicas(Flushed(m), up, short)
    IN  [ok |-> new.ok, count |-> n, short |-> short, placed |-> new.placed,
         stops |-> MembersOf(m, Broken(m) \cup Surplus(m, n))]

\* The decision: broken units are stopped; units that serve or are on their way count,
\* the missing ones are placed, surplus ones are stopped.
Decide(m, up, n, nodes) ==
    LET short == n - Cardinality(Counting(m))
        new == IF short <= 0 THEN Granted(<< >>)
               ELSE IF nodes > 1 THEN NewGroups(Flushed(m), up, short, nodes)
               ELSE NewReplicas(Flushed(m), up, short)
    IN  [ok |-> new.ok, count |-> n, short |-> short, placed |-> new.placed,
         stops |-> MembersOf(m, Broken(m) \cup Surplus(m, n))]

\* The row lock is taken, the instances are read again, the decision is made.
LockAndDecide(c, up) ==
    /\ call[c].op \in {"scale", "range", "tick"} /\ txn = NoTxn /\ dep.there
    /\ txn' = [by |-> {c}, seen |-> inst, up |-> up,
               plan |-> Decide(inst, up, TargetOf(call[c]), dep.nodes)]
    /\ Room(inst, txn'.plan.placed)
    /\ UNCHANGED <<dep, inst, call, cooling, made>>

\* The deployment was deleted since it was loaded: the call ends with an error.
LostDeployment(c) ==
    /\ call[c].op \in {"scale", "range", "tick"} /\ txn = NoTxn /\ ~dep.there
    /\ call' = [call EXCEPT ![c] = NoCall]
    /\ UNCHANGED <<dep, inst, txn, cooling, made>>

(***************************************************************************)
(* apply_scale, the commit.                                                *)
(***************************************************************************)

\* The rows after the UPDATEs and INSERTs: a row that was read as desired stopped
\* already is not written.
Stopped(m, seen, ids) == [i \in Ids |->
    IF i \in ids /\ seen[i].desired = "running" THEN [m[i] EXCEPT !.desired = "stopped"] ELSE m[i]]
RowsAfter(m, seen, plan) == WithRows(Stopped(m, seen, plan.stops), plan.placed)

\* Mutant: the check constraint over the window is missing.
StorableUnchecked(c) ==
    /\ \A i \in txn.plan.stops : inst[i].life = "live"
    /\ ~Clash(RowsAfter(inst, txn.seen, txn.plan))

\* The commit fails if a row to stop is gone, a port was taken by a restart in the
\* meantime, or the mixed window breaks ck_deployments_min_max.
Storable(c) ==
    /\ \A i \in txn.plan.stops : inst[i].life = "live"
    /\ ~Clash(RowsAfter(inst, txn.seen, txn.plan))
    /\ WindowAfter(call[c]).min <= WindowAfter(call[c]).max

CommitScale(c) ==
    /\ txn.by = {c} /\ txn.plan.ok /\ Storable(c)
    /\ inst' = RowsAfter(inst, txn.seen, txn.plan)
    /\ dep' = WindowAfter(call[c])
    /\ cooling' = (cooling \/ call[c].op = "tick")
    /\ call' = [call EXCEPT ![c] = NoCall]
    /\ txn' = NoTxn
    /\ UNCHANGED made

\* No capacity (400) or a conflict (409): everything is rolled back.
FailScale(c) ==
    /\ txn.by = {c} /\ ~(txn.plan.ok /\ Storable(c))
    /\ call' = [call EXCEPT ![c] = NoCall]
    /\ txn' = NoTxn
    /\ UNCHANGED <<dep, inst, cooling, made>>

\* A tick swallows the scheduler's refusal without a rollback: when a later deployment
\* of the same pass commits, the stops of the broken units, and the groups placed
\* before the refusal, are committed with it.
LeakTick(c) ==
    /\ txn.by = {c} /\ call[c].op = "tick" /\ ~txn.plan.ok
    /\ Storable(c)
    /\ inst' = RowsAfter(inst, txn.seen, txn.plan)
    /\ call' = [call EXCEPT ![c] = NoCall]
    /\ txn' = NoTxn
    /\ UNCHANGED <<dep, cooling, made>>

(***************************************************************************)
(* Deletion, and what else changes the rows: stop and restart of single    *)
(* instances, the reports of the workers, time.                            *)
(***************************************************************************)
Gone(i) == [inst EXCEPT ![i] = NoInst("gone")]
AllGone == [i \in Ids |-> IF inst[i].life = "live" THEN NoInst("gone") ELSE inst[i]]

\* DELETE /deployments/{id}: the instances go with it.
DeleteDeployment ==
    /\ dep.there /\ txn = NoTxn /\ made < MaxCalls
    /\ made' = made + 1
    /\ dep' = NoDep /\ inst' = AllGone
    /\ UNCHANGED <<call, txn, cooling>>

\* The end of DELETE /model-instances/{id}: the deployment goes with the instance that
\* was its last when the rows were counted.
CommitRemove(c) ==
    /\ call[c].op = "remove"
    /\ \/ /\ call[c].from = 1 /\ txn = NoTxn
          /\ dep' = NoDep /\ inst' = AllGone
       \/ /\ call[c].from > 1
          /\ dep' = dep
          /\ inst' = IF inst[call[c].arg].life = "live" THEN Gone(call[c].arg) ELSE inst
    /\ call' = [call EXCEPT ![c] = NoCall]
    /\ UNCHANGED <<txn, cooling, made>>

\* POST /model-instances/{id}/stop and /restart; the port index can refuse a restart.
StopInstance(i) ==
    /\ i \in Rows(inst) /\ inst[i].desired = "running" /\ made < MaxCalls
    /\ made' = made + 1
    /\ inst' = [inst EXCEPT ![i].desired = "stopped"]
    /\ UNCHANGED <<dep, call, txn, cooling>>
RestartInstance(i) ==
    /\ i \in Rows(inst) /\ made < MaxCalls
    /\ made' = made + 1
    /\ inst' = [inst EXCEPT ![i].desired = "running"]
    /\ inst' # inst /\ ~Clash(inst')
    /\ UNCHANGED <<dep, call, txn, cooling>>

\* What a Sync or the watchdog may record, given what is wanted.
NextStates(r) ==
    IF r.desired = "running"
    THEN CASE r.state = "pending" -> {"running", "error"}
           [] r.state = "running" -> {"error"}
           [] r.state = "stopped" -> {"pending"}
           [] OTHER -> {"pending", "running"}
    ELSE IF r.state \in LIVE THEN {"stopped", "error"} ELSE {}

\* Bounds: reports after the last call are left out, nothing reads them any more; between
\* a lock and its commit there is one at most.
Ongoing ==
    /\ made < MaxCalls \/ \E c \in Calls : call[c] # NoCall
    /\ txn = NoTxn \/ inst = txn.seen
Report(i) ==
    /\ i \in Rows(inst) /\ Ongoing
    /\ \E s \in NextStates(inst[i]) : inst' = [inst EXCEPT ![i].state = s]
    /\ Cardinality({j \in Ids : inst'[j].state = "error"}) <= MaxBroken
    /\ ~Clash(inst')
    /\ UNCHANGED <<dep, call, txn, cooling, made>>

CooldownEnds ==
    /\ cooling
    /\ cooling' = FALSE
    /\ UNCHANGED <<dep, inst, call, txn, made>>

(***************************************************************************)
(* The specification.                                                      *)
(***************************************************************************)
Deploy(up) ==
    \/ \E n \in Counts : DeployReplicas(n, up)
    \/ \E n \in GroupSizes : DeployGroup(n, up)
    \/ \E h \in ManualHosts, xs \in SUBSET {s[2] : s \in Slots} : DeployManual(h, xs, up)
BeginCall(c) ==
    \/ \E n \in Counts : BeginScale(c, n)
    \/ \E lo, hi \in Counts : lo <= hi /\ BeginRange(c, lo, hi)
    \/ \E obs \in Histograms, q \in Levels : BeginTick(c, obs, q)
    \/ \E i \in Ids : BeginRemove(c, i)
EndCall(c) ==
    CommitScale(c) \/ FailScale(c) \/ LeakTick(c) \/ LostDeployment(c) \/ CommitRemove(c)
Lock(c) == \E up \in UpSets : LockAndDecide(c, up)

ScalingNext ==
    \/ \E up \in UpSets : Deploy(up)
    \/ \E c \in Calls : BeginCall(c) \/ Lock(c) \/ EndCall(c)
    \/ DeleteDeployment
    \/ \E i \in Ids : StopInstance(i) \/ RestartInstance(i) \/ Report(i)
    \/ CooldownEnds

ScalingSpec == ScalingInit /\ [][ScalingNext]_scVars

(***************************************************************************)
(* Properties of placement: about the plan of the call that holds the lock.*)
(***************************************************************************)
Seen == Snapshot(Flushed(txn.seen), txn.up)
Placed == {txn.plan.placed[k] : k \in DOMAIN txn.plan.placed}
Placing == txn # NoTxn /\ txn.plan.placed # << >>
Smaller(x, y) == IF x < y THEN x ELSE y

\* A scale-out never over-commits a GPU: the memory of all replicas it puts there,
\* together, was free when the rows were read, the GPU is one the engine supports, on
\* a connected host; and no port is handed out twice or while a row reserves it.
PlacementFits ==
    Placing =>
        LET c == Seen
            new == txn.plan.placed
        IN  /\ \A s \in UNION {p.slots : p \in Placed} :
                 /\ s \in Usable(c)
                 /\ Need * Cardinality({k \in DOMAIN new : s \in new[k].slots}) <= c.free[s]
            /\ \A j, k \in DOMAIN new :
                 new[j].port # 0 =>
                   /\ \A h \in HostOf(new[j]) : new[j].port \notin c.ports[h]
                   /\ (j # k /\ HostOf(new[j]) = HostOf(new[k])) => new[j].port # new[k].port

\* Replicas spread as far as they can: over as many hosts the group does not use yet
\* as there are with room, and over as many GPUs it does not use yet.
PlacementSpreads ==
    (Placing /\ dep.nodes = 1 /\ txn.plan.ok) =>
        LET c == Seen
            fit == {s \in Usable(c) : c.free[s] >= Need}
            used == UsedSlots(txn.seen)
            fresh == {s[1] : s \in fit} \ {s[1] : s \in used}
            new == UNION {p.slots : p \in Placed}
        IN  /\ Cardinality({s[1] : s \in new} \cap fresh) = Smaller(txn.plan.short, Cardinality(fresh))
            /\ Cardinality(new \ used) = Smaller(txn.plan.short, Cardinality(fit \ used))

\* A group has one rank per host and shares no host with any other group on record;
\* its head, and only its head, has a port and a routable address.
OneRankPerHost ==
    (Placing /\ dep.nodes > 1) =>
        LET new == txn.plan.placed
        IN  \A k \in DOMAIN new :
              /\ \A j \in DOMAIN new \ {k} : HostOf(new[j]) \cap HostOf(new[k]) = {}
              /\ HostOf(new[k]) \cap HostsOf(txn.seen) = {}
              /\ (new[k].rank = 0) <=> (new[k].port # 0)
              /\ new[k].rank = 0 => HostOf(new[k]) \subseteq Addressed

\* A refusal is justified: every way to put the missing replicas on GPUs over-commits one,
\* or a host has too few free ports; for one group, too few hosts, or none for the head.
RefusalJustified ==
    (txn # NoTxn /\ ~txn.plan.ok) =>
        LET c == Seen
            fit == {s \in Usable(c) : c.free[s] >= Need}
            overfull(f) == \E s \in fit :
                Need * Cardinality({k \in DOMAIN f : f[k] = s}) > c.free[s]
            hosts == {s[1] : s \in fit} \ HostsOf(txn.seen)
            tight(n) == \E h \in txn.up : Cardinality(FreePorts(c, h, {})) < n
        IN  IF dep.nodes = 1
            THEN \/ \A f \in [1 .. txn.plan.short -> fit] : overfull(f)
                 \/ tight(txn.plan.short)
            ELSE txn.plan.short = 1 =>
                   \/ Cardinality(hosts) < dep.nodes \/ hosts \cap Addressed = {}
                   \/ tight(1) \/ \E h \in txn.up : FreeRendezvous(c, h) = {}

\* The scheduler is right both ways: what it gives out fits, is spread and keeps the ranks
\* of a group apart, and what it refuses could not have been placed.
PlacementSound == PlacementFits /\ PlacementSpreads /\ OneRankPerHost /\ RefusalJustified

(***************************************************************************)
(* Properties of scaling: what a commit does, when no other request or     *)
(* report touched the rows between the reading under the lock and it.      *)
(***************************************************************************)
Undisturbed(c) == txn.by = {c} /\ txn' = NoTxn /\ inst = txn.seen /\ CommitScale(c)

\* The decision for n units over rows m has nothing to place, to stop or to refuse.
Settled(m, up, n, nodes) ==
    LET plan == Decide(m, up, n, nodes)
    IN  plan.ok /\ plan.placed = << >> /\ plan.stops = {}

\* "Scale `deployment` to `replicas` live replicas": after the commit exactly that many
\* units are wanted, however many were broken, pending, serving or stopped before,
\* unless a unit was restarted and has not been reported since (Limbo: it is neither
\* counted nor stopped, and comes on top).  And the request can be repeated, by a client
\* whose answer was lost or by a second one: the same count, decided again on the rows
\* as committed, changes nothing, whichever hosts are connected then.
ScaleReaches ==
    [][\A c \in Calls : Undisturbed(c) =>
         /\ Cardinality(Wanted(inst')) = txn.plan.count + Cardinality(Limbo(inst))
         /\ \A up \in SUBSET Hosts : Settled(inst', up, txn.plan.count, dep.nodes)]_scVars

\* A scale-in takes what does not serve first: no serving unit is stopped while one that
\* is still on its way stays, and among serving units the oldest go.
ServingStopsLast ==
    [][\A c \in Calls : Undisturbed(c) =>
         \A u \in Serving(inst) \ Wanted(inst') :
             /\ Pending(inst) \cap Wanted(inst') = {}
             /\ \A v \in Serving(inst) \cap Wanted(inst') : u < v]_scVars

\* Scaling never splits a group: ranks that agreed on what is wanted still agree, and a
\* new group is complete ("a tick can never leave half a group"), even when a tick fails.
GroupsStayWhole ==
    [][\A c \in Calls : (Undisturbed(c) \/ (txn.by = {c} /\ inst = txn.seen /\ LeakTick(c))) =>
         \A u \in Units(inst') :
             LET whole(m) == \A i, j \in Members(m, u) : m[i].desired = m[j].desired
             IN  IF u \in Units(inst) THEN whole(inst) => whole(inst')
                 ELSE Cardinality(Members(inst', u)) = dep.nodes /\ whole(inst')]_scVars

\* A tick or a range request leaves a count inside the window, provided that the window
\* was not changed since the call loaded it; and a tick moves one replica at most, when the
\* count did not move between its reading and the lock, and the stops and restarts of single
\* instances have not taken it out of the window.
CountInWindow ==
    [][\A c \in Calls :
         (Undisturbed(c) /\ call[c].op # "scale" /\ Limbo(inst) = {}) =>
           LET before == Cardinality(Wanted(inst))
               after == Cardinality(Wanted(inst'))
           IN  /\ (call[c].min = dep.min /\ call[c].max = dep.max) =>
                     after \in dep'.min .. dep'.max
               /\ (/\ call[c].op = "tick" /\ before = call[c].from
                   /\ before \in call[c].min .. call[c].max) =>
                     after - before \in {-1, 0, 1}]_scVars

(***************************************************************************)
(* The inductive invariant behind the properties.                          *)
(***************************************************************************)

\* Rows are inserted in order, and a unit has the number of its first row.
RowsInOrder(m) ==
    /\ Unborn(m) = First(m) .. MaxInst
    /\ \A i \in Rows(m) : m[i].unit \in 1 .. i

\* A tick asks for one replica more or less than it counted, in the window it loaded.
CallsFit == \A c \in Calls :
    /\ call[c].lo <= call[c].hi
    /\ call[c].op = "tick" =>
         /\ call[c].lo = call[c].min /\ call[c].hi = call[c].max
         /\ call[c].arg - call[c].from \in {-1, 1}
    /\ call[c].op = "remove" => call[c].arg \in Ids

\* Under the lock the decision stands: it is the one that the rows as read call for, and
\* no row was inserted since.
LockHeld ==
    txn = NoTxn \/ \E c \in Calls :
        /\ txn.by = {c} /\ call[c].op \in {"scale", "range", "tick"} /\ dep.there
        /\ txn.plan = Decide(txn.seen, txn.up, TargetOf(call[c]), dep.nodes)
        /\ Room(txn.seen, txn.plan.placed)
        /\ Unborn(inst) = Unborn(txn.seen)

ScInv == ScalingTypeOK /\ RowsInOrder(inst) /\ CallsFit /\ LockHeld
=============================================================================
