------------------------ MODULE ReconcileLoop_proofs -----------------------
(***************************************************************************)
(* Proofs about ReconcileLoop: the loop is a control plane and a worker    *)
(* manager, each as its own module describes it, and the worker is never   *)
(* ahead of the database.                                                  *)
(***************************************************************************)
EXTENDS ReconcileLoop, ControlPlane_proofs, WorkerManager_proofs

(***************************************************************************)
(* What moves in one step of the manager.  Generations and ports are       *)
(* copied, never made up: from container to record, from command to both,  *)
(* from one queue to the next.                                             *)
(***************************************************************************)

\* y carries the generation and the port of x.
Same(y, x) == y.gen = x.gen /\ y.port = x.port

\* The record of instance i after a step.
RecordMoves(i) ==
    \/ instances'[i] \in {instances[i], Untracked}
    \/ /\ instances'[i].state # "none"
       /\ \/ instances[i].state # "none" /\ Same(instances'[i], instances[i])
          \/ container[i].status # "none" /\ Same(instances'[i], container[i])
          \/ cur.id = {i} /\ Same(instances'[i], cur.cmd)

\* Its container.
ContainerMoves(i) ==
    \/ container'[i] \in {container[i], NoContainer}
    \/ /\ container'[i].status # "none"
       /\ \/ container[i].status # "none" /\ Same(container'[i], container[i])
          \/ cur.id = {i} /\ Same(container'[i], cur.cmd)

\* The command in hand, and the queues behind it.
CommandMoves(i) ==
    cur'.id = {i} =>
        \/ cur.id = {i} /\ cur'.cmd = cur.cmd
        \/ cur'.cmd = batch[i] /\ batch[i].act = "start" /\ batch'[i] = NoCmd
QueueMoves(i) ==
    \/ batch'[i] \in {batch[i], NoCmd} /\ pending'[i] \in {pending[i], NoCmd}
    \/ batch[i] = NoCmd /\ batch'[i] = pending[i] /\ pending'[i] = NoCmd

Moves(i) == RecordMoves(i) /\ ContainerMoves(i) /\ CommandMoves(i) /\ QueueMoves(i)

\* Reads off the records the actions build.
LEMMA Builds ==
    /\ \A s, g, p, r : /\ Tracked(s, g, p, r).state = s
                       /\ Tracked(s, g, p, r).gen = g /\ Tracked(s, g, p, r).port = p
    /\ \A s, g, p : /\ Container(s, g, p).status = s
                    /\ Container(s, g, p).gen = g /\ Container(s, g, p).port = p
    /\ Untracked.state = "none" /\ Untracked.gen = 0
    /\ NoContainer.status = "none" /\ NoContainer.gen = 0
    /\ NoCmd.act = "none" /\ NoCmd.gen = 0
  BY DEF Tracked, Container, Untracked, NoContainer, NoCmd

\* Recording a state moves no generation.
LEMMA RecordedMoves ==
    ASSUME WMTypeOK, NEW j \in Instances, NEW s \in {"running", "stopped", "error"},
           instances' = Recorded(j, s), NEW i \in Instances
    PROVE  RecordMoves(i)
<1>1. CASE i = j /\ instances[j].state # "none"
  <2>1. instances'[i] = WithState(instances[i], s)
    BY <1>1 DEF Recorded, WMTypeOK
  <2> QED BY <1>1, <2>1, Builds DEF RecordMoves, Same, WithState
<1>2. CASE ~(i = j /\ instances[j].state # "none")
  <2>1. instances'[i] = instances[i]
    BY <1>2 DEF Recorded, WMTypeOK
  <2> QED BY <2>1 DEF RecordMoves
<1> QED BY <1>1, <1>2

\* Every step of the manager and of Docker moves generations as described.
LEMMA WorkerMoves ==
    ASSUME WMTypeOK, WMInternal \/ Crash, NEW i \in Instances
    PROVE  Moves(i)
<1> USE Builds, CurFields DEF Moves
<1>0. batch \in [Instances -> CmdType] /\ pending \in [Instances -> CmdType]
  BY DEF WMTypeOK, CmdMaps
<1>1. CASE AdoptExisting
  <2>1. UNCHANGED <<batch, cur, pending, container>>
    BY <1>1 DEF AdoptExisting
  <2>2. instances'[i] = instances[i] \/ instances'[i] = Adopted(i)
    BY <1>1 DEF AdoptExisting
  <2>3. RecordMoves(i)
    BY <2>2 DEF RecordMoves, Adopted, Same
  <2> QED BY <2>1, <2>3 DEF ContainerMoves, CommandMoves, QueueMoves
<1>2. CASE Crash
  BY <1>2 DEF Crash, NoCmds, RecordMoves, ContainerMoves, CommandMoves, QueueMoves
<1>3. ASSUME NEW j \in Instances, ContainerDies(j) PROVE Moves(i)
  <2>1. UNCHANGED <<instances, batch, cur, pending>>
    BY <1>3 DEF ContainerDies
  <2>2. container'[i] = container[i]
        \/ (container[i].status = "running" /\ container'[i] = WithStatus(container[i], "exited"))
    BY <1>3 DEF ContainerDies, WMTypeOK
  <2>3. ContainerMoves(i)
    BY <2>2 DEF ContainerMoves, WithStatus, Same
  <2> QED BY <2>1, <2>3 DEF RecordMoves, CommandMoves, QueueMoves
<1>4. ASSUME NEW j \in Instances, TakeStart(j) PROVE Moves(i)
  <2>1. UNCHANGED <<instances, pending>>
    BY <1>4 DEF TakeStart
  <2>2. batch'[i] \in {batch[i], NoCmd} /\ (i = j => batch'[i] = NoCmd)
    BY <1>0, <1>4 DEF TakeStart
  <2>3. container'[i] \in {container[i], NoContainer}
    BY <1>4 DEF TakeStart, WMTypeOK
  <2>4. CommandMoves(i)
    <3>1. cur'.id = {i} => i = j /\ cur'.cmd = batch[i] /\ batch[i].act = "start"
      BY <1>4 DEF TakeStart
    <3> QED BY <2>2, <3>1 DEF CommandMoves
  <2> QED BY <2>1, <2>2, <2>3, <2>4 DEF RecordMoves, ContainerMoves, QueueMoves
<1>5. ASSUME NEW j \in Instances, CreateContainer(j) PROVE Moves(i)
  <2>1. UNCHANGED <<batch, pending>> /\ cur.id = {j}
    BY <1>5 DEF CreateContainer
  <2>2. /\ \/ instances' = instances
           \/ instances' = [instances EXCEPT ![j] = Tracked("error", cur.cmd.gen, cur.cmd.port, 0)]
        /\ \/ container' = container
           \/ container' = [container EXCEPT ![j] = Container("created", cur.cmd.gen, cur.cmd.port)]
        /\ cur' = NoCur \/ cur' = Working("run", j, cur.cmd)
    BY <1>5 DEF CreateContainer, StartError
  <2>3. RecordMoves(i)
    <3>1. instances'[i] = instances[i]
          \/ (i = j /\ instances'[i] = Tracked("error", cur.cmd.gen, cur.cmd.port, 0))
      BY <2>2 DEF WMTypeOK
    <3> QED BY <2>1, <3>1 DEF RecordMoves, Same
  <2>4. ContainerMoves(i)
    <3>1. container'[i] = container[i]
          \/ (i = j /\ container'[i] = Container("created", cur.cmd.gen, cur.cmd.port))
      BY <2>2 DEF WMTypeOK
    <3> QED BY <2>1, <3>1 DEF ContainerMoves, Same
  <2>5. CommandMoves(i)
    BY <2>1, <2>2 DEF CommandMoves
  <2> QED BY <2>1, <2>3, <2>4, <2>5 DEF QueueMoves
<1>6. ASSUME NEW j \in Instances, StartContainer(j) PROVE Moves(i)
  <2>1. UNCHANGED <<batch, pending>> /\ cur.id = {j} /\ cur' = NoCur
    BY <1>6 DEF StartContainer, StartError
  <2>2. /\ \/ instances' = [instances EXCEPT ![j] = Tracked("error", cur.cmd.gen, cur.cmd.port, 0)]
           \/ instances' = [instances EXCEPT ![j] =
                              Tracked("starting", cur.cmd.gen, cur.cmd.port, RankOf(j))]
        /\ \/ container' = container
           \/ /\ container[j].status = "created"
              /\ container' = [container EXCEPT ![j] = WithStatus(container[j], "running")]
    BY <1>6 DEF StartContainer, StartError
  <2>3. RecordMoves(i)
    <3>1. \/ instances'[i] = instances[i]
          \/ i = j /\ instances'[i] = Tracked("error", cur.cmd.gen, cur.cmd.port, 0)
          \/ i = j /\ instances'[i] = Tracked("starting", cur.cmd.gen, cur.cmd.port, RankOf(j))
      BY <2>2 DEF WMTypeOK
    <3> QED BY <2>1, <3>1 DEF RecordMoves, Same
  <2>4. ContainerMoves(i)
    <3>1. container'[i] = container[i]
          \/ (container[i].status = "created" /\ container'[i] = WithStatus(container[i], "running"))
      BY <2>2 DEF WMTypeOK
    <3> QED BY <3>1 DEF ContainerMoves, Same, WithStatus
  <2> QED BY <2>1, <2>3, <2>4 DEF QueueMoves, CommandMoves
<1>7. ASSUME NEW j \in Instances, StopInstance(j) PROVE Moves(i)
  <2>1. UNCHANGED <<cur, pending>> /\ cur.id = {} /\ batch'[i] \in {batch[i], NoCmd}
    BY <1>0, <1>7 DEF StopInstance
  <2>2. RecordMoves(i)
    BY <1>7, RecordedMoves DEF StopInstance
  <2>3. container'[i] = container[i]
        \/ (container[i].status = "running" /\ container'[i] = WithStatus(container[i], "exited"))
    BY <1>7 DEF StopInstance, WMTypeOK
  <2>4. ContainerMoves(i)
    BY <2>3 DEF ContainerMoves, WithStatus, Same
  <2> QED BY <2>1, <2>2, <2>4 DEF CommandMoves, QueueMoves
<1>8. ASSUME NEW j \in Instances, DeleteInstance(j) PROVE Moves(i)
  <2>1. UNCHANGED <<cur, pending>> /\ cur.id = {} /\ batch'[i] \in {batch[i], NoCmd}
    BY <1>0, <1>8 DEF DeleteInstance
  <2>2. /\ instances'[i] \in {instances[i], Untracked}
        /\ container'[i] \in {container[i], NoContainer}
    BY <1>8 DEF DeleteInstance, WMTypeOK
  <2> QED BY <2>1, <2>2 DEF RecordMoves, ContainerMoves, CommandMoves, QueueMoves
<1>9. CASE FinishBatch
  <2>1. UNCHANGED <<instances, cur>> /\ batch[i] = NoCmd /\ batch'[i] = pending[i]
        /\ pending'[i] = NoCmd /\ cur.id = {}
    BY <1>9 DEF FinishBatch, NoCmds
  <2>2. container'[i] \in {container[i], NoContainer}
    BY <1>9 DEF FinishBatch
  <2> QED BY <2>1, <2>2 DEF RecordMoves, ContainerMoves, CommandMoves, QueueMoves
<1>10. ASSUME NEW j \in Instances, ProbeStep(j) PROVE Moves(i)
  <2>1. PICK s \in {"running", "error"} : ProbeVerdict(j, s)
    BY <1>10 DEF ProbeStep, ProbeReady, ProbeExited, ProbeTimeout
  <2>2. UNCHANGED <<batch, cur, pending, container>>
    BY <2>1 DEF ProbeVerdict
  <2>3. RecordMoves(i)
    BY <2>1, RecordedMoves DEF ProbeVerdict
  <2> QED BY <2>2, <2>3 DEF ContainerMoves, CommandMoves, QueueMoves
<1> QED
  BY <1>1, <1>2, <1>3, <1>4, <1>5, <1>6, <1>7, <1>8, <1>9, <1>10
     DEF WMInternal, BatchStep, ApplyCommand

(***************************************************************************)
(* The worker's side of the invariant.                                     *)
(***************************************************************************)

\* Only a start carries a generation, and it is a good one.
LEMMA StartIsGood ==
    ASSUME NEW f \in CmdMaps, NEW i \in Instances
    PROVE  /\ f[i].gen \in Gens
           /\ f[i].act = "start" => Good(i, f[i])
           /\ f[i].act # "start" => f[i].gen = 0
<1>1. f[i] \in CmdsFor(i) /\ f[i].gen \in Gens
  BY Fields DEF CmdMaps
<1>2. CASE f[i] \in {NoCmd, StopCmd, DeleteCmd}
  BY <1>1, <1>2 DEF NoCmd, StopCmd, DeleteCmd
<1>3. CASE f[i] \notin {NoCmd, StopCmd, DeleteCmd}
  <2>1. PICK g \in Gens \ {0}, p \in IF i \in Followers THEN {0} ELSE Ports : f[i] = StartCmd(g, p)
    BY <1>1, <1>3 DEF CmdsFor
  <2> QED BY <1>1, <2>1, FleetAssumption DEF StartCmd, Good, Gens
<1> QED BY <1>2, <1>3

\* Generations of typed state are naturals.
LEMMA GensTyped ==
    ASSUME WMTypeOK, NEW i \in Instances
    PROVE  /\ instances[i].gen \in Nat /\ container[i].gen \in Nat /\ cur.cmd.gen \in Nat
           /\ batch[i].gen \in Nat /\ pending[i].gen \in Nat
<1>1. /\ instances[i].gen \in Gens /\ container[i].gen \in Gens /\ cur.cmd.gen \in Gens
      /\ batch[i].gen \in Gens /\ pending[i].gen \in Gens
  BY Fields, StartIsGood DEF WMTypeOK
<1> QED BY <1>1, FleetAssumption DEF Gens

\* Moves keep what the worker knows sound.
LEMMA MovesKeepSound ==
    ASSUME WMTypeOK, NEW i \in Instances, Moves(i), WorkerSound(i)
    PROVE  WorkerSound(i)'
<1>1. instances'[i] = Untracked \/ (instances'[i].state # "none" /\ Good(i, instances'[i]))
  BY Builds DEF Moves, RecordMoves, WorkerSound, Good, Same
<1>2. container'[i] = NoContainer \/ (container'[i].status # "none" /\ Good(i, container'[i]))
  BY Builds DEF Moves, ContainerMoves, WorkerSound, Good, Same
<1>3. batch[i].act = "start" => Good(i, batch[i])
  BY StartIsGood DEF WMTypeOK
<1>4. cur'.id = {i} => cur'.cmd.act = "start" /\ Good(i, cur'.cmd)
  BY <1>3 DEF Moves, CommandMoves, WorkerSound
<1> QED BY <1>1, <1>2, <1>4 DEF WorkerSound, Good

\* Moves bring in no generation above g.
LEMMA MovesKeepBelow ==
    ASSUME WMTypeOK, NEW i \in Instances, Moves(i), NEW g \in Nat, WorkerBelow(i, g)
    PROVE  WorkerBelow(i, g)'
<1> USE GensTyped
<1>1. instances'[i].gen <= g /\ container'[i].gen <= g
  BY Builds DEF Moves, RecordMoves, ContainerMoves, WorkerBelow, Same
<1>2. batch'[i].gen <= g /\ pending'[i].gen <= g
  BY Builds DEF Moves, QueueMoves, WorkerBelow
<1>3. cur'.id = {i} => cur'.cmd.gen <= g
  BY DEF Moves, CommandMoves, WorkerBelow
<1> QED BY <1>1, <1>2, <1>3 DEF WorkerBelow

\* Moves keep the order of the commands.
LEMMA MovesKeepOrder ==
    ASSUME WMTypeOK, NEW i \in Instances, Moves(i), NEW g \in Nat, g > 0, InOrder(i, g),
           wire'.cmds[i] \in {wire.cmds[i], NoCmd}
    PROVE  InOrder(i, g)'
<1> USE Builds DEF Keeps
<1>1. Reached(i, g)' => Reached(i, g) \/ (batch[i].gen = g /\ batch'[i] = NoCmd)
  BY DEF Moves, RecordMoves, ContainerMoves, CommandMoves, Reached, Same
<1>2. Keeps(wire.cmds[i]) => Keeps(wire'.cmds[i])
  OBVIOUS
<1>3. Reached(i, g)' => Keeps(batch'[i]) /\ Keeps(pending'[i]) /\ Keeps(wire'.cmds[i])
  BY <1>1, <1>2 DEF InOrder, Moves, QueueMoves
<1>4. batch'[i].gen = g => Keeps(pending'[i]) /\ Keeps(wire'.cmds[i])
  BY <1>2 DEF InOrder, Moves, QueueMoves
<1>5. pending'[i].gen = g => Keeps(wire'.cmds[i])
  BY <1>2 DEF InOrder, Moves, QueueMoves
<1> QED BY <1>3, <1>4, <1>5 DEF InOrder

\* A response hands its commands to a queue behind those that wait.
LEMMA ReceiveQueues ==
    ASSUME WMInv, wire.cmds \in CmdMaps, Reconcile(wire.cmds), NEW i \in Instances
    PROVE  /\ UNCHANGED <<instances, container, cur>>
           /\ \/ /\ batch'[i] = batch[i]
                 /\ pending'[i] = pending[i] \/ pending'[i] = wire.cmds[i]
              \/ /\ batch[i] = NoCmd /\ pending[i] = NoCmd /\ pending' = pending
                 /\ batch'[i] = wire.cmds[i]
<1>1. CASE busy
  BY <1>1 DEF Reconcile
<1>2. CASE ~busy
  <2>1. pending = NoCmds /\ batch = NoCmds
    BY <1>2 DEF WMInv, CommandsHaveRunner
  <2> QED BY <1>2, <2>1 DEF Reconcile, NoCmds
<1> QED BY <1>1, <1>2

(***************************************************************************)
(* The server's side.                                                      *)
(***************************************************************************)

\* What a handler does to the row of instance i: it keeps its life, wish and generation
\* (and may detach it), inserts it, deletes it, or commits a request.
RowKept(i) ==
    /\ row'[i].life = row[i].life /\ row'[i].gen = row[i].gen
    /\ row'[i].desired = row[i].desired
    /\ row'[i].mine => row[i].mine
Inserted(i) ==
    row[i].life = "unborn" /\ row'[i].life = "live" /\ row'[i].gen = 1
Committed(i) ==
    \E c \in Clients :
        /\ api[c].op # "none" /\ api[c].id = {i}
        /\ row[i].life = "live" /\ row'[i].life = "live" /\ row'[i].gen = api[c].gen + 1
RowMoves(i) == RowKept(i) \/ Inserted(i) \/ row'[i].life = "gone" \/ Committed(i)

\* The fields of a row after a report.
LEMMA ReportedFields ==
    ASSUME CPTypeOK, NEW rep \in Reports, NEW i \in Instances
    PROVE  LET r == Reported(rep)[i]
           IN  /\ r.life = row[i].life /\ r.gen = row[i].gen /\ r.desired = row[i].desired
               /\ r.mine = row[i].mine
               /\ r.port = row[i].port \/ (rep[i].state # "none" /\ rep[i].port # 0 /\ r.port = rep[i].port)
<1>1. row[i] \in RowType
  BY DEF CPTypeOK
<1> QED BY <1>1 DEF Reported, RowType

\* The fields of a row a request writes.
LEMMA WrittenFields ==
    ASSUME CPTypeOK, NEW c \in Clients, NEW i \in Instances
    PROVE  LET r == Written(api[c], i)
           IN  /\ r.life = row[i].life /\ r.mine = row[i].mine /\ r.port = row[i].port
               /\ r.gen = api[c].gen + 1
<1>1. row[i] \in RowType
  BY DEF CPTypeOK
<1> QED BY <1>1 DEF Written, RowType

\* The row a deploy leaves behind is a good one, if it is not refused.
LEMMA DeployedFields ==
    ASSUME CPTypeOK, PlacementFits, NEW j \in Instances, CommitDeploy(j)
    PROVE  /\ \/ row'[j] = row[j]
              \/ row'[j].life = "live" /\ Good(j, row'[j]) /\ row'[j].gen = 1
           /\ \A i \in Instances \ {j} : row'[i] = row[i]
           /\ row[j].life = "unborn"
<1> DEFINE new == [life |-> "live", mine |-> TRUE, desired |-> "running",
                   state |-> "scheduled", gen |-> 1, port |-> placing.port]
<1>1. row' = row \/ row' = [row EXCEPT ![j] = new]
  BY DEF CommitDeploy
<1>2. row[j].life = "unborn" /\ placing.port \in IF j \in Followers THEN {0} ELSE Ports
  BY DEF CommitDeploy, PlacementFits
<1>3. new.life = "live" /\ Good(j, new) /\ new.gen = 1
  BY <1>2 DEF Good
<1>4. row'[j] = row[j] \/ row'[j] = new
  BY <1>1 DEF CPTypeOK
<1>5. \A i \in Instances \ {j} : row'[i] = row[i]
  BY <1>1 DEF CPTypeOK
<1> HIDE DEF new
<1> QED BY <1>2, <1>3, <1>4, <1>5

\* The row a commit leaves behind.
LEMMA CommitFields ==
    ASSUME CPTypeOK, NEW c \in Clients, NEW j \in Instances, CommitRequest(c, j)
    PROVE  /\ \/ row' = row
              \/ row[j].life = "live" /\ row'[j] = Written(api[c], j)
           /\ \A i \in Instances \ {j} : row'[i] = row[i]
<1>1. row' = row \/ (row[j].life = "live" /\ row' = [row EXCEPT ![j] = Written(api[c], j)])
  BY DEF CommitRequest
<1> QED BY <1>1 DEF CPTypeOK

\* Every handler moves a row in one of the four ways, and keeps it sound.
LEMMA ServerMoves ==
    ASSUME CPTypeOK, PlacementFits, NEW rep \in Reports,
           \A i \in Instances : RowSound(i)
             /\ (rep[i] = NotReported \/ (rep[i].state \in WorkerStates /\ Good(i, rep[i]))),
           \/ Operator \/ DeleteWorker \/ Register \/ HeartbeatAges
           \/ FindStaleWorker \/ MarkDisconnected \/ Sync(rep) \/ SyncFails(rep)
           \/ UNCHANGED cpVars,
           NEW i \in Instances
    PROVE  RowMoves(i) /\ RowSound(i)'
<1>0. row[i] \in RowType /\ RowSound(i)
  BY DEF CPTypeOK
<1>a. row'[i] = row[i] => RowMoves(i) /\ RowSound(i)'
  BY <1>0 DEF RowMoves, RowKept, RowSound, Good
<1>b. ASSUME NEW j \in Instances, BeginDeploy(j) PROVE RowMoves(i) /\ RowSound(i)'
  BY <1>b, <1>a DEF BeginDeploy
<1>1. ASSUME NEW j \in Instances, CommitDeploy(j) PROVE RowMoves(i) /\ RowSound(i)'
  <2>1. CASE i = j /\ row'[i] # row[i]
    BY <1>1, <2>1, DeployedFields DEF RowMoves, Inserted, RowSound, Good
  <2> QED BY <1>1, <1>a, <2>1, DeployedFields
<1>2. ASSUME NEW j \in Instances, DeleteRow(j) PROVE RowMoves(i) /\ RowSound(i)'
  <2>1. row'[i] = row[i] \/ row'[i] = NoRow("gone")
    BY <1>2 DEF DeleteRow, CPTypeOK
  <2> QED BY <1>a, <2>1 DEF NoRow, RowMoves, RowSound
<1>3. ASSUME NEW j \in Instances, NEW c \in Clients,
             BeginRequest(c, "stop", j) \/ BeginRequest(c, "restart", j)
      PROVE  RowMoves(i) /\ RowSound(i)'
  BY <1>3, <1>a DEF BeginRequest
<1>4. ASSUME NEW j \in Instances, NEW c \in Clients, CommitRequest(c, j)
      PROVE  RowMoves(i) /\ RowSound(i)'
  <2>1. CASE i = j /\ row[j].life = "live" /\ row'[j] = Written(api[c], j)
    <3>1. api[c].gen \in Nat
      BY FleetAssumption DEF CPTypeOK, Gens
    <3>2. api[c].op # "none" /\ api[c].id = {i}
      BY <1>4, <2>1 DEF CommitRequest
    <3>3. /\ row'[i].life = row[i].life /\ row'[i].mine = row[i].mine
          /\ row'[i].port = row[i].port /\ row'[i].gen = api[c].gen + 1
      BY <2>1, WrittenFields
    <3>4. RowMoves(i)
      BY <2>1, <3>2, <3>3 DEF RowMoves, Committed
    <3>5. RowSound(i)'
      BY <1>0, <2>1, <3>1, <3>3 DEF RowSound, Good
    <3> QED BY <3>4, <3>5
  <2>2. CASE row'[i] = row[i]
    BY <1>a, <2>2
  <2> QED BY <1>4, <2>1, <2>2, CommitFields
<1>5. CASE DeleteWorker
  <2>1. \/ row'[i] = row[i]
        \/ row'[i] = [row[i] EXCEPT !.mine = FALSE,
                        !.state = IF @ \in LIVE_STATES THEN "error" ELSE @]
    BY <1>5 DEF DeleteWorker
  <2>2. \/ row'[i] = row[i]
        \/ /\ row'[i].life = row[i].life /\ row'[i].gen = row[i].gen
           /\ row'[i].desired = row[i].desired /\ ~row'[i].mine
    BY <1>0, <2>1 DEF RowType
  <2> QED BY <1>0, <1>a, <2>2 DEF RowMoves, RowKept, RowSound
<1>6. CASE MarkDisconnected
  <2>1. row'[i] = row[i] \/ row'[i] = [row[i] EXCEPT !.state = "error"]
    BY <1>6 DEF MarkDisconnected
  <2>2. /\ row'[i].life = row[i].life /\ row'[i].gen = row[i].gen /\ row'[i].port = row[i].port
        /\ row'[i].desired = row[i].desired /\ row'[i].mine = row[i].mine
    BY <1>0, <2>1 DEF RowType
  <2> QED BY <1>0, <2>2 DEF RowMoves, RowKept, RowSound, Good
<1>7. CASE Sync(rep)
  <2>1. row'[i] = Reported(rep)[i]
    BY <1>7 DEF Sync
  <2>2. /\ row'[i].life = row[i].life /\ row'[i].gen = row[i].gen
        /\ row'[i].desired = row[i].desired /\ row'[i].mine = row[i].mine
        /\ row'[i].port = row[i].port
           \/ (rep[i].state # "none" /\ rep[i].port # 0 /\ row'[i].port = rep[i].port)
    BY <2>1, ReportedFields
  <2>3. row'[i].mine => Good(i, row'[i])
    BY <1>0, <2>2 DEF RowSound, Good, NotReported
  <2> QED BY <1>0, <2>2, <2>3 DEF RowMoves, RowKept, RowSound
<1>8. CASE Register \/ HeartbeatAges \/ FindStaleWorker \/ SyncFails(rep) \/ UNCHANGED cpVars
  BY <1>8, <1>a DEF Register, HeartbeatAges, FindStaleWorker, SyncFails, cpVars
<1> QED
  BY <1>b, <1>1, <1>2, <1>3, <1>4, <1>5, <1>6, <1>7, <1>8 DEF Operator

\* With requests one at a time, a row that lives only gains generations, and a row that
\* wants to run is the one it was or has gained one.
GenGrows(i) ==
    /\ row'[i].life # "gone" => row[i].life # "gone" /\ row[i].gen <= row'[i].gen
    /\ row'[i].life # "gone" /\ row'[i].mine /\ row'[i].desired = "running" =>
         \/ row[i].mine /\ row[i].desired = "running" /\ row'[i].gen = row[i].gen
         \/ row[i].gen < row'[i].gen

\* No handler takes back a generation.
LEMMA RowsGainGens ==
    ASSUME CPTypeOK, Serialised, NEW i \in Instances, RowSound(i), RowMoves(i),
           row[i].life = "gone" => row'[i] = row[i]
    PROVE  GenGrows(i)
<1>0. row[i].gen \in Nat /\ row[i].life \in {"unborn", "live", "gone"}
  BY FleetAssumption DEF CPTypeOK, RowType, Gens
<1>1. CASE RowKept(i)
  BY <1>0, <1>1 DEF RowKept, GenGrows
<1>2. CASE Inserted(i)
  BY <1>0, <1>2 DEF Inserted, RowSound, GenGrows
<1>3. CASE row'[i].life = "gone"
  BY <1>3 DEF GenGrows
<1>4. CASE Committed(i)
  <2>1. PICK c \in Clients : /\ api[c].op # "none" /\ api[c].id = {i}
                             /\ row[i].life = "live" /\ row'[i].gen = api[c].gen + 1
    BY <1>4 DEF Committed
  <2>2. api[c] # Idle
    BY <2>1 DEF Idle
  <2>3. api[c].gen = row[i].gen
    BY <2>1, <2>2 DEF Serialised
  <2> QED BY <1>0, <2>1, <2>3 DEF GenGrows
<1> QED BY <1>1, <1>2, <1>3, <1>4 DEF RowMoves

\* A deleted row is never written again.
LEMMA GoneIsKept ==
    ASSUME CPTypeOK, PlacementFits, NEW rep \in Reports, \A j \in Instances : RowSound(j),
           \/ Operator \/ DeleteWorker \/ Register \/ HeartbeatAges
           \/ FindStaleWorker \/ MarkDisconnected \/ Sync(rep) \/ SyncFails(rep)
           \/ UNCHANGED cpVars,
           NEW i \in Instances, row[i].life = "gone"
    PROVE  row'[i] = row[i]
<1>0. ~row[i].mine
  BY DEF RowSound
<1>1. ASSUME NEW j \in Instances, BeginDeploy(j) \/ CommitDeploy(j) \/ DeleteRow(j)
      PROVE  row'[i] = row[i]
  <2>1. CASE CommitDeploy(j)
    BY <2>1, DeployedFields
  <2> QED BY <1>1, <2>1 DEF BeginDeploy, DeleteRow, CPTypeOK
<1>2. ASSUME NEW j \in Instances, NEW c \in Clients,
             BeginRequest(c, "stop", j) \/ BeginRequest(c, "restart", j)
      PROVE  row'[i] = row[i]
  BY <1>2 DEF BeginRequest
<1>3. ASSUME NEW j \in Instances, NEW c \in Clients, CommitRequest(c, j) PROVE row'[i] = row[i]
  BY <1>3, CommitFields
<1>4. CASE DeleteWorker \/ MarkDisconnected
  BY <1>0, <1>4 DEF DeleteWorker, MarkDisconnected
<1>5. CASE Sync(rep)
  BY <1>0, <1>5 DEF Sync, Reported
<1>6. CASE Register \/ HeartbeatAges \/ FindStaleWorker \/ SyncFails(rep) \/ UNCHANGED cpVars
  BY <1>6 DEF Register, HeartbeatAges, FindStaleWorker, SyncFails, cpVars
<1> QED BY <1>1, <1>2, <1>3, <1>4, <1>5, <1>6 DEF Operator

\* A request under way stays alone, and what it read stays current.
LEMMA SerialStep ==
    ASSUME CPTypeOK, PlacementFits, SerialApi, Serialised, NEW rep \in Reports,
           \A i \in Instances : RowSound(i) /\ RowMoves(i),
           \/ Operator \/ DeleteWorker \/ Register \/ HeartbeatAges
           \/ FindStaleWorker \/ MarkDisconnected \/ Sync(rep) \/ SyncFails(rep)
           \/ UNCHANGED cpVars
    PROVE  Serialised'
<1>1. ASSUME NEW j \in Instances, NEW c \in Clients,
             BeginRequest(c, "stop", j) \/ BeginRequest(c, "restart", j)
      PROVE  Serialised'
  <2>1. PICK op \in {"stop", "restart"} : BeginRequest(c, op, j)
    BY <1>1
  <2>2. /\ row' = row /\ row[j].life = "live"
        /\ \A d \in Clients : api[d] = Idle
        /\ \A d \in Clients \ {c} : api'[d] = Idle
        /\ api'[c] = Request(op, j)
    BY <2>1 DEF BeginRequest, CPTypeOK
  <2>3. api'[c].id = {j} /\ api'[c].gen = row'[j].gen
    BY <2>2 DEF Request
  <2> QED BY <2>2, <2>3 DEF Serialised
<1>2. ASSUME NEW j \in Instances, NEW c \in Clients, CommitRequest(c, j)
      PROVE  Serialised'
  <2>1. api[c] # Idle /\ \A d \in Clients \ {c} : api'[d] = api[d]
    BY <1>2 DEF CommitRequest, Idle, CPTypeOK
  <2>2. api'[c] = Idle
    BY <1>2 DEF CommitRequest, CPTypeOK
  <2>3. \A d \in Clients : api'[d] = Idle
    BY <2>1, <2>2 DEF Serialised
  <2> QED BY <2>3 DEF Serialised
<1>3. ASSUME api' = api,
             \A i \in Instances : row[i].life # "unborn" =>
                 row'[i].life = "gone" \/ (row'[i].life = row[i].life /\ row'[i].gen = row[i].gen)
      PROVE  Serialised'
  <2>1. \A c, d \in Clients : c # d /\ api'[c] # Idle => api'[d] = Idle
    BY <1>3 DEF Serialised
  <2>2. ASSUME NEW c \in Clients, api'[c] # Idle
        PROVE  \E i \in Instances : /\ api'[c].id = {i} /\ row'[i].life # "unborn"
                                    /\ row'[i].life = "live" => api'[c].gen = row'[i].gen
    <3>1. PICK i \in Instances : /\ api[c].id = {i} /\ row[i].life # "unborn"
                                 /\ row[i].life = "live" => api[c].gen = row[i].gen
      BY <1>3, <2>2 DEF Serialised
    <3> QED BY <1>3, <3>1
  <2> QED BY <2>1, <2>2 DEF Serialised
<1>4. ASSUME NEW j \in Instances, BeginDeploy(j) \/ CommitDeploy(j) PROVE Serialised'
  <2>1. api' = api
    BY <1>4 DEF BeginDeploy, CommitDeploy
  <2>2. CASE CommitDeploy(j)
    BY <1>3, <2>1, <2>2, DeployedFields
  <2>3. CASE BeginDeploy(j)
    BY <1>3, <2>1, <2>3 DEF BeginDeploy
  <2> QED BY <1>4, <2>2, <2>3
<1>5. ASSUME NEW j \in Instances, DeleteRow(j) PROVE Serialised'
  <2>1. api' = api /\ \A i \in Instances : row'[i] = row[i] \/ row'[i] = NoRow("gone")
    BY <1>5 DEF DeleteRow, CPTypeOK
  <2> QED BY <1>3, <2>1 DEF NoRow
<1>6. CASE \/ DeleteWorker \/ Register \/ HeartbeatAges
           \/ FindStaleWorker \/ MarkDisconnected \/ Sync(rep) \/ SyncFails(rep)
           \/ UNCHANGED cpVars
  <2>1. api' = api
    BY <1>6 DEF DeleteWorker, Register, HeartbeatAges, FindStaleWorker, MarkDisconnected,
                Sync, SyncFails, cpVars
  <2>2. ASSUME NEW i \in Instances PROVE row'[i].life = row[i].life /\ row'[i].gen = row[i].gen
    <3>0. row[i] \in RowType
      BY DEF CPTypeOK
    <3>1. CASE DeleteWorker \/ MarkDisconnected
      <4>1. \/ row'[i] \in {row[i], [row[i] EXCEPT !.state = "error"]}
            \/ row'[i] = [row[i] EXCEPT !.mine = FALSE,
                            !.state = IF @ \in LIVE_STATES THEN "error" ELSE @]
        BY <3>1 DEF DeleteWorker, MarkDisconnected
      <4> QED BY <3>0, <4>1 DEF RowType
    <3>2. CASE Sync(rep)
      BY <3>2, ReportedFields DEF Sync
    <3> QED
      BY <1>6, <3>1, <3>2 DEF Register, HeartbeatAges, FindStaleWorker, SyncFails, cpVars
  <2> QED BY <1>3, <2>1, <2>2
<1> QED BY <1>1, <1>2, <1>4, <1>5, <1>6 DEF Operator

(***************************************************************************)
(* The wire.                                                               *)
(***************************************************************************)

\* A sound report is one the control plane expects.
LEMMA WireReports ==
    ASSUME TypeOK, \A i \in Instances : WireSound(i)
    PROVE  wire.rep \in Reports
<1>1. wire.rep \in [Instances -> StatusType]
  BY DEF TypeOK
<1>2. ASSUME NEW i \in Instances
      PROVE  wire.rep[i] \in {NotReported} \cup [state : WorkerStates, gen : Gens \ {0}, port : PortValues]
  BY <1>1, <1>2, FleetAssumption DEF WireSound, Good, StatusType, Gens
<1> QED BY <1>1, <1>2 DEF Reports

\* What the manager reports is typed, sound, and no newer than what it tracks.
LEMMA StatusesSound ==
    ASSUME WMTypeOK, \A i \in Instances : WorkerSound(i)
    PROVE  /\ Statuses \in [Instances -> StatusType]
           /\ \A i \in Instances :
                /\ Statuses[i].gen = instances[i].gen
                /\ \/ Statuses[i] = NotReported
                   \/ Statuses[i].state \in WorkerStates /\ Good(i, Statuses[i])
<1>1. ASSUME NEW i \in Instances
      PROVE  /\ Statuses[i] \in StatusType /\ Statuses[i].gen = instances[i].gen
             /\ \/ Statuses[i] = NotReported
                \/ Statuses[i].state \in WorkerStates /\ Good(i, Statuses[i])
  <2>1. instances[i] \in TrackedType /\ WorkerSound(i)
    BY DEF WMTypeOK
  <2>2. Statuses[i] = [state |-> instances[i].state, gen |-> instances[i].gen, port |-> instances[i].port]
    BY DEF Statuses
  <2>3. Statuses[i] \in StatusType
    BY <2>1, <2>2 DEF TrackedType, StatusType, WorkerStates
  <2>4. CASE instances[i] = Untracked
    BY <2>2, <2>3, <2>4 DEF Untracked, NotReported
  <2>5. CASE instances[i] # Untracked
    BY <2>1, <2>2, <2>3, <2>5 DEF WorkerSound, Good, TrackedType, WorkerStates
  <2> QED BY <2>3, <2>4, <2>5
<1>2. Statuses \in [Instances -> StatusType]
  BY <1>1 DEF Statuses
<1> QED BY <1>1, <1>2

\* The commands of a response are well formed: a start carries the row's generation and
\* the port the row has after the report, and is the only command for a row that wants to
\* run.
LEMMA ResponseSound ==
    ASSUME CPTypeOK, NEW rep \in Reports,
           \A i \in Instances : RowSound(i)
             /\ (rep[i] = NotReported \/ (rep[i].state \in WorkerStates /\ Good(i, rep[i])))
    PROVE  /\ SyncCommands(rep) \in CmdMaps
           /\ \A i \in Instances :
                /\ SyncCommands(rep)[i].gen \in {0, row[i].gen}
                /\ row[i].mine /\ row[i].desired = "running" => Keeps(SyncCommands(rep)[i])
<1>1. ASSUME NEW i \in Instances
      PROVE  /\ SyncCommand(i, rep) \in CmdsFor(i) /\ SyncCommand(i, rep) \in CmdType
             /\ SyncCommand(i, rep).gen \in {0, row[i].gen}
             /\ row[i].mine /\ row[i].desired = "running" => Keeps(SyncCommand(i, rep))
  <2>0. row[i] \in RowType /\ row[i].gen \in Gens /\ RowSound(i)
    BY DEF CPTypeOK, RowType
  <2>1. CASE NeedsStart(i, rep)
    <3>1. SyncCommand(i, rep) = StartCmd(row[i].gen, Reported(rep)[i].port)
      BY <2>1 DEF SyncCommand, NeedsStart, NeedsStop, NeedsDelete
    <3>2. Good(i, row[i])
      BY <2>0, <2>1 DEF NeedsStart, RowSound
    <3>3. Reported(rep)[i].port \in IF i \in Followers THEN {0} ELSE Ports
      BY <3>2, ReportedFields DEF Good, NotReported
    <3>4. row[i].gen \in Gens \ {0} /\ Reported(rep)[i].port \in PortValues
      BY <2>0, <3>2, <3>3 DEF Good, Gens, PortValues
    <3>5. SyncCommand(i, rep) \in CmdsFor(i)
      BY <3>1, <3>3, <3>4 DEF CmdsFor
    <3> QED BY <3>1, <3>4, <3>5 DEF StartCmd, CmdType, Keeps
  <2>2. CASE ~NeedsStart(i, rep)
    <3>1. /\ SyncCommand(i, rep) \in {StopCmd, DeleteCmd, NoCmd}
          /\ row[i].mine /\ row[i].desired = "running" => SyncCommand(i, rep) = NoCmd
      BY <2>2 DEF SyncCommand, NeedsStop, NeedsDelete
    <3>2. \A c \in {StopCmd, DeleteCmd, NoCmd} : c.gen = 0 /\ c \in CmdType
      BY FleetAssumption DEF StopCmd, DeleteCmd, NoCmd, CmdType, Gens, PortValues
    <3>3. Keeps(NoCmd)
      BY DEF Keeps, NoCmd
    <3> QED BY <3>1, <3>2, <3>3 DEF CmdsFor
  <2> QED BY <2>1, <2>2
<1>2. SyncCommands(rep) \in CmdMaps
  BY <1>1 DEF SyncCommands, CmdMaps
<1> QED BY <1>1, <1>2 DEF SyncCommands

\* What a step may put on the wire for instance i.
WireMoves(i) ==
    /\ wire'.rep[i] \in {wire.rep[i], NotReported, Statuses[i]}
    /\ \/ wire'.cmds[i] \in {wire.cmds[i], NoCmd}
       \/ row' = Reported(wire.rep) /\ wire'.cmds[i] = SyncCommands(wire.rep)[i] /\ UNCHANGED wmVars

\* Every step keeps the wire typed.
LEMMA WireStep ==
    ASSUME LoopInv, [Next]_vars
    PROVE  /\ registered' \in BOOLEAN /\ authed' \in BOOLEAN
           /\ wire' \in [kind : {"idle", "request", "response"}, auth : BOOLEAN,
                         rep : [Instances -> StatusType], cmds : CmdMaps]
           /\ \A i \in Instances : WireMoves(i)
<1> DEFINE WireType == [kind : {"idle", "request", "response"}, auth : BOOLEAN,
                        rep : [Instances -> StatusType], cmds : CmdMaps]
<1>0. TypeOK /\ WMTypeOK /\ CPTypeOK /\ wire \in WireType /\ registered \in BOOLEAN /\ authed \in BOOLEAN
  BY DEF LoopInv, TypeOK
<1>1. NoReports \in [Instances -> StatusType] /\ NoCmds \in CmdMaps
  BY NoCmdsType, FleetAssumption DEF NoReports, NotReported, StatusType, Gens, PortValues
<1>2. Quiet \in WireType
  BY <1>1 DEF Quiet
<1>3. Statuses \in [Instances -> StatusType]
  BY <1>0, StatusesSound DEF LoopInv
<1>4. wire.rep \in Reports
  BY <1>0, WireReports DEF LoopInv
<1>5. SyncCommands(wire.rep) \in CmdMaps
  BY <1>0, <1>4, ResponseSound DEF LoopInv, WireSound
<1> DEFINE Goal == /\ registered' \in BOOLEAN /\ authed' \in BOOLEAN
                   /\ wire' \in WireType
                   /\ \A i \in Instances : WireMoves(i)
<1>6. ASSUME wire' = Quiet PROVE wire' \in WireType /\ \A i \in Instances : WireMoves(i)
  BY <1>2, <1>6 DEF Quiet, NoReports, NoCmds, WireMoves
<1>7. ASSUME wire' = wire PROVE wire' \in WireType /\ \A i \in Instances : WireMoves(i)
  BY <1>0, <1>7 DEF WireMoves
<1>8. CASE Worker \/ Server \/ UNCHANGED vars
  BY <1>0, <1>7, <1>8 DEF Worker, Server, vars
<1>9. CASE WorkerCrash
  BY <1>6, <1>7, <1>9 DEF WorkerCrash
<1>10. CASE RemoveWorker
  <2>1. wire' = wire \/ wire' = [wire EXCEPT !.auth = FALSE]
    BY <1>10 DEF RemoveWorker
  <2>2. wire' \in WireType /\ wire'.rep = wire.rep /\ wire'.cmds = wire.cmds
    BY <1>0, <2>1
  <2> QED BY <1>0, <1>10, <2>2 DEF RemoveWorker, WireMoves
<1>11. CASE RegisterWorker \/ ReceiveSync \/ LoseMessage \/ RefuseSync
  BY <1>0, <1>6, <1>11 DEF RegisterWorker, ReceiveSync, LoseMessage, RefuseSync
<1>12. CASE SendSync
  <2>1. wire' = SyncRequest
    BY <1>12 DEF SendSync
  <2>2. wire' \in WireType
    BY <1>0, <1>1, <1>3, <2>1 DEF SyncRequest
  <2>3. \A i \in Instances : WireMoves(i)
    BY <2>1 DEF SyncRequest, NoCmds, WireMoves
  <2> QED BY <1>0, <1>12, <2>2, <2>3 DEF SendSync
<1>13. CASE ServeSync
  <2>1. wire' \in {Quiet, SyncResponse(SyncCommands(wire.rep))} /\ UNCHANGED <<wmVars, registered, authed>>
        /\ row' = Reported(wire.rep)
    BY <1>13 DEF ServeSync, Sync
  <2>2. CASE wire' = SyncResponse(SyncCommands(wire.rep))
    <3>1. wire' \in WireType
      BY <1>1, <1>5, <2>2 DEF SyncResponse
    <3>2. \A i \in Instances : WireMoves(i)
      BY <2>1, <2>2 DEF SyncResponse, NoReports, WireMoves
    <3> QED BY <1>0, <2>1, <3>1, <3>2
  <2> QED BY <1>0, <1>6, <2>1, <2>2
<1> QED
  BY <1>8, <1>9, <1>10, <1>11, <1>12, <1>13 DEF Next

(***************************************************************************)
(* The loop is a control plane and a manager.                              *)
(***************************************************************************)

\* On the manager, a step of the loop is one of its own steps, or a response that it
\* accepts: the environment of WorkerManager is general enough.
LEMMA LoopIsWorker ==
    ASSUME LoopInv, [Next]_vars
    PROVE  /\ [WMNext]_wmVars
           /\ \/ \A i \in Instances : Moves(i)
              \/ Reconcile(wire.cmds) /\ wire' = Quiet /\ row' = row
<1>0. WMTypeOK /\ wire.cmds \in CmdMaps
  BY DEF LoopInv, TypeOK
<1>1. CASE Worker \/ WorkerCrash
  <2>1. WMInternal \/ Crash
    BY <1>1 DEF Worker, WorkerCrash
  <2> QED BY <1>0, <2>1, WorkerMoves DEF WMNext
<1>2. CASE ReceiveSync
  <2>1. Reconcile(wire.cmds) /\ wire' = Quiet /\ row' = row
    BY <1>2 DEF ReceiveSync, cpVars
  <2>2. WMNext
    BY <1>0, <2>1 DEF WMNext
  <2> QED BY <2>1, <2>2
<1>3. CASE UNCHANGED wmVars
  BY <1>3 DEF wmVars, Moves, RecordMoves, ContainerMoves, CommandMoves, QueueMoves
<1>4. Worker \/ WorkerCrash \/ ReceiveSync \/ UNCHANGED wmVars
  BY DEF Next, Server, RemoveWorker, RegisterWorker, SendSync, LoseMessage, ServeSync, RefuseSync, vars
<1> QED BY <1>1, <1>2, <1>3, <1>4

\* On the server, a step of the loop is a handler, with the report on the wire.
LEMMA LoopIsServer ==
    ASSUME LoopInv, [Next]_vars
    PROVE  /\ \/ Operator \/ DeleteWorker \/ Register \/ HeartbeatAges
              \/ FindStaleWorker \/ MarkDisconnected \/ Sync(wire.rep) \/ SyncFails(wire.rep)
              \/ UNCHANGED cpVars
           /\ [CPNext]_cpVars
<1>1. wire.rep \in Reports
  BY WireReports DEF LoopInv
<1>2. \/ Operator \/ DeleteWorker \/ Register \/ HeartbeatAges
      \/ FindStaleWorker \/ MarkDisconnected \/ Sync(wire.rep) \/ SyncFails(wire.rep)
      \/ UNCHANGED cpVars
  BY DEF Next, Worker, WorkerCrash, Server, RemoveWorker, RegisterWorker, SendSync, ReceiveSync,
         LoseMessage, ServeSync, RefuseSync, vars
<1> QED BY <1>1, <1>2 DEF CPNext

\* Every row moves in one of the ways of a handler.
LEMMA LoopRows ==
    ASSUME LoopInv, [Next]_vars
    PROVE  /\ \A i \in Instances : RowMoves(i) /\ RowSound(i)'
           /\ SerialApi => Serialised' /\ \A i \in Instances : GenGrows(i)
<1>0. CPTypeOK /\ PlacementFits /\ \A i \in Instances : RowSound(i) /\ WireSound(i)
  BY DEF LoopInv, TypeOK, CPInv
<1>1. wire.rep \in Reports
  BY WireReports DEF LoopInv
<1>2. PICK rep \in Reports : rep = wire.rep
  BY <1>1
<1>3. \/ Operator \/ DeleteWorker \/ Register \/ HeartbeatAges
      \/ FindStaleWorker \/ MarkDisconnected \/ Sync(rep) \/ SyncFails(rep)
      \/ UNCHANGED cpVars
  BY <1>2, LoopIsServer
<1>4. \A i \in Instances : rep[i] = NotReported \/ (rep[i].state \in WorkerStates /\ Good(i, rep[i]))
  BY <1>0, <1>2 DEF WireSound
<1>5. \A i \in Instances : RowMoves(i) /\ RowSound(i)'
  BY <1>0, <1>3, <1>4, ServerMoves
<1>6. ASSUME SerialApi PROVE Serialised' /\ \A i \in Instances : GenGrows(i)
  <2>1. Serialised
    BY <1>6 DEF LoopInv
  <2>2. Serialised'
    BY <1>0, <1>3, <1>5, <1>6, <2>1, SerialStep
  <2>3. \A i \in Instances : row[i].life = "gone" => row'[i] = row[i]
    BY <1>0, <1>3, GoneIsKept
  <2> QED BY <1>0, <1>5, <2>1, <2>2, <2>3, RowsGainGens
<1> QED BY <1>5, <1>6

\* What the worker and the wire know stays sound.
LEMMA LoopSound ==
    ASSUME LoopInv, [Next]_vars, NEW i \in Instances
    PROVE  WorkerSound(i)' /\ WireSound(i)'
<1>0. WMTypeOK /\ WMInv /\ wire.cmds \in CmdMaps /\ WorkerSound(i) /\ WireSound(i)
  BY DEF LoopInv, TypeOK
<1>1. WorkerSound(i)'
  <2>1. CASE Moves(i)
    BY <1>0, <2>1, MovesKeepSound
  <2>2. CASE Reconcile(wire.cmds)
    <3>1. UNCHANGED <<instances, container, cur>>
      BY <1>0, <2>2, ReceiveQueues
    <3> QED BY <1>0, <3>1 DEF WorkerSound, Good
  <2> QED BY <2>1, <2>2, LoopIsWorker
<1>2. WireSound(i)'
  <2>1. wire'.rep[i] \in {wire.rep[i], NotReported, Statuses[i]}
    BY WireStep DEF WireMoves
  <2>2. Statuses[i] = NotReported \/ (Statuses[i].state \in WorkerStates /\ Good(i, Statuses[i]))
    BY <1>0, StatusesSound DEF LoopInv
  <2> QED BY <1>0, <2>1, <2>2 DEF WireSound, Good
<1> QED BY <1>1, <1>2

\* No step takes the worker or the wire above a generation the row has reached.
LEMMA LoopBelow ==
    ASSUME LoopInv, [Next]_vars, NEW i \in Instances, NEW g \in Nat, row[i].gen <= g,
           WorkerBelow(i, g), WireBelow(i, g)
    PROVE  WorkerBelow(i, g)' /\ WireBelow(i, g)'
<1>0. WMTypeOK /\ WMInv /\ CPTypeOK /\ wire.cmds \in CmdMaps /\ wire.rep \in Reports
  BY WireReports DEF LoopInv, TypeOK
<1>1. WorkerBelow(i, g)'
  <2>1. CASE Moves(i)
    BY <1>0, <2>1, MovesKeepBelow
  <2>2. CASE Reconcile(wire.cmds)
    BY <1>0, <2>2, ReceiveQueues, Builds DEF WorkerBelow, WireBelow
  <2> QED BY <2>1, <2>2, LoopIsWorker
<1>2. WireMoves(i)
  BY WireStep
<1>3. wire'.rep[i].gen <= g
  <2>1. Statuses[i].gen = instances[i].gen
    BY DEF Statuses
  <2> QED BY <1>2, <2>1 DEF WireMoves, WireBelow, WorkerBelow, NotReported
<1>4. wire'.cmds[i].gen <= g
  <2>1. SyncCommands(wire.rep)[i].gen \in {0, row[i].gen}
    BY <1>0, ResponseSound DEF LoopInv, WireSound
  <2> QED BY <1>2, <2>1, Builds DEF WireMoves, WireBelow
<1> QED BY <1>1, <1>3, <1>4 DEF WireBelow

\* No step puts a stop or a delete behind a start of the row's generation.
LEMMA LoopOrder ==
    ASSUME LoopInv, [Next]_vars, NEW i \in Instances, NEW g \in Nat, g > 0,
           row[i].mine, row[i].desired = "running", InOrder(i, g)
    PROVE  InOrder(i, g)'
<1>0. WMTypeOK /\ WMInv /\ CPTypeOK /\ wire.cmds \in CmdMaps /\ wire.rep \in Reports
  BY WireReports DEF LoopInv, TypeOK
<1>1. CASE Moves(i) /\ wire'.cmds[i] \in {wire.cmds[i], NoCmd}
  BY <1>0, <1>1, MovesKeepOrder
<1>2. CASE wire'.cmds[i] = SyncCommands(wire.rep)[i] /\ UNCHANGED wmVars
  <2>1. Keeps(wire'.cmds[i])
    BY <1>0, <1>2, ResponseSound DEF LoopInv, WireSound
  <2> QED BY <1>2, <2>1 DEF InOrder, Reached, wmVars
<1>3. CASE Reconcile(wire.cmds) /\ wire' = Quiet
  <2>1. wire'.cmds[i] = NoCmd /\ Keeps(NoCmd)
    BY <1>3, Builds DEF Quiet, NoCmds, Keeps
  <2>2. Reached(i, g)' = Reached(i, g)
    BY <1>0, <1>3, ReceiveQueues DEF Reached
  <2> QED BY <1>0, <1>3, <2>1, <2>2, ReceiveQueues, Builds DEF InOrder
<1> QED BY <1>1, <1>2, <1>3, LoopIsWorker, WireStep DEF WireMoves

(***************************************************************************)
(* The inductive invariant.                                                *)
(***************************************************************************)

\* The initial state has nothing to be wrong.
LEMMA LoopInit == Init => LoopInv
<1> SUFFICES ASSUME Init PROVE LoopInv
  OBVIOUS
<1>1. CPInv /\ CPTypeOK
  BY ServerInit DEF Init, CPInv
<1>2. WMInv
  <2>1. WMTypeOK
    BY InitTyped DEF Init
  <2>2. CommandsHaveRunner /\ DownIsEmpty
    BY DEF Init, WMInit, CommandsHaveRunner, DownIsEmpty
  <2>3. Probing /\ StartingIsProbed /\ Creating /\ ReportedGenIsReal
    BY CurFields DEF Init, WMInit, Probing, StartingIsProbed, Creating, ReportedGenIsReal, Untracked
  <2> QED BY <2>1, <2>2, <2>3 DEF WMInv
<1>3. TypeOK
  <2>1. NoReports \in [Instances -> StatusType] /\ NoCmds \in CmdMaps
    BY NoCmdsType, FleetAssumption DEF NoReports, NotReported, StatusType, Gens, PortValues
  <2> QED BY <1>1, <1>2, <2>1 DEF TypeOK, WMInv, Init, Quiet
<1>4. ASSUME NEW i \in Instances
      PROVE  /\ RowSound(i) /\ WorkerSound(i) /\ WireSound(i)
             /\ WorkerBelow(i, row[i].gen) /\ WireBelow(i, row[i].gen) /\ ~row[i].mine
  <2>1. ~row[i].mine /\ row[i].life = "unborn" /\ row[i].gen = 0
    BY DEF Init, CPInit, NoRow
  <2>2. /\ instances[i] = Untracked /\ container[i] = NoContainer /\ cur.id = {}
        /\ batch[i] = NoCmd /\ pending[i] = NoCmd
        /\ wire.rep[i] = NotReported /\ wire.cmds[i] = NoCmd
    BY CurFields DEF Init, WMInit, NoCmds, Quiet, NoReports
  <2> QED
    BY <2>1, <2>2, Builds DEF RowSound, WorkerSound, WireSound, WorkerBelow, WireBelow, NotReported
<1>5. Serialised
  BY DEF Init, CPInit, Serialised
<1> QED BY <1>1, <1>2, <1>3, <1>4, <1>5 DEF LoopInv

\* Every step of the loop keeps the invariant.
LEMMA LoopStep == LoopInv /\ [Next]_vars => LoopInv'
<1> SUFFICES ASSUME LoopInv, [Next]_vars PROVE LoopInv'
  OBVIOUS
<1>1. CPInv' /\ CPTypeOK'
  BY LoopIsServer, ServerStep DEF LoopInv, CPInv
<1>2. WMInv' /\ WMTypeOK'
  BY LoopIsWorker, TypeStep, StructureStep, ProbeStepInv DEF LoopInv, WMInv
<1>3. TypeOK'
  BY <1>1, <1>2, WireStep DEF TypeOK
<1>4. \A i \in Instances : RowSound(i)' /\ WorkerSound(i)' /\ WireSound(i)'
  BY LoopRows, LoopSound
<1>5. SerialApi => Serialised'
  BY LoopRows
<1>6. ASSUME SerialApi, NEW i \in Instances, row'[i].life # "gone"
      PROVE  WorkerBelow(i, row[i].gen)' /\ WireBelow(i, row[i].gen)'
  <2>1. PICK g \in Gens : g = row'[i].gen
    BY <1>1 DEF CPTypeOK, RowType
  <2>2. PICK h \in Gens : h = row[i].gen
    BY DEF LoopInv, TypeOK, CPTypeOK, RowType
  <2>3. row[i].life # "gone" /\ h <= g /\ g \in Nat /\ h \in Nat
    BY <1>6, <2>1, <2>2, LoopRows, FleetAssumption DEF GenGrows, Gens
  <2>4. WorkerBelow(i, h) /\ WireBelow(i, h)
    BY <1>6, <2>2, <2>3 DEF LoopInv
  <2>5. WorkerBelow(i, h)' /\ WireBelow(i, h)'
    BY <2>2, <2>3, <2>4, LoopBelow
  <2>6. /\ instances'[i].gen \in Nat /\ container'[i].gen \in Nat /\ cur'.cmd.gen \in Nat
        /\ batch'[i].gen \in Nat /\ pending'[i].gen \in Nat
        /\ wire'.rep[i].gen \in Nat /\ wire'.cmds[i].gen \in Nat
    <3>1. /\ instances'[i].gen \in Gens /\ container'[i].gen \in Gens /\ cur'.cmd.gen \in Gens
          /\ batch'[i].gen \in Gens /\ pending'[i].gen \in Gens /\ wire'.cmds[i].gen \in Gens
      BY <1>3, Fields, StartIsGood DEF TypeOK, WMTypeOK
    <3>2. wire'.rep[i].gen \in Gens
      BY <1>3 DEF TypeOK, StatusType
    <3> QED BY <3>1, <3>2, FleetAssumption DEF Gens
  <2> QED BY <2>1, <2>3, <2>5, <2>6 DEF WorkerBelow, WireBelow
<1>7. ASSUME SerialApi, NEW i \in Instances, row'[i].mine, row'[i].desired = "running"
      PROVE  InOrder(i, row[i].gen)'
  <2>1. PICK g \in Gens : g = row'[i].gen
    BY <1>1 DEF CPTypeOK, RowType
  <2>2. PICK h \in Gens : h = row[i].gen
    BY DEF LoopInv, TypeOK, CPTypeOK, RowType
  <2>3. row'[i].life # "gone" /\ g > 0 /\ g \in Nat /\ h \in Nat
    BY <1>4, <1>7, <2>1, <2>2, FleetAssumption DEF RowSound, Good, Gens
  <2>4. (row[i].mine /\ row[i].desired = "running" /\ g = h) \/ (row[i].life # "gone" /\ h < g)
    BY <1>7, <2>1, <2>2, <2>3, LoopRows DEF GenGrows
  <2>5. CASE row[i].mine /\ row[i].desired = "running" /\ g = h
    <3>1. InOrder(i, g)
      BY <1>7, <2>2, <2>5 DEF LoopInv
    <3>2. InOrder(i, g)'
      BY <2>3, <2>5, <3>1, LoopOrder
    <3> QED BY <2>1, <3>2 DEF InOrder, Reached
  <2>6. CASE row[i].life # "gone" /\ h < g
    <3>1. WorkerBelow(i, h)
      BY <1>7, <2>2, <2>6 DEF LoopInv
    <3>2. WorkerBelow(i, h)'
      BY <1>7, <2>2, <2>3, <2>6, <3>1, LoopBelow DEF LoopInv
    <3> QED BY <2>1, <2>3, <2>6, <3>2 DEF InOrder, Reached, WorkerBelow
  <2> QED BY <2>4, <2>5, <2>6
<1>8. \A i \in Instances : row'[i].mine => row'[i].life # "gone"
  BY <1>4 DEF RowSound
<1> QED BY <1>1, <1>2, <1>3, <1>4, <1>5, <1>6, <1>7, <1>8 DEF LoopInv

(***************************************************************************)
(* The theorems.                                                           *)
(***************************************************************************)

\* The invariant of the loop holds, for any number of instances and ports, any bound on
\* generations and faults, lost messages, crashes and adoption included.
THEOREM LoopInvariant == Spec => []LoopInv
  BY LoopInit, LoopStep, PTL DEF Spec

\* The loop keeps the types of both sides and of the wire.
THEOREM LoopTyping == Spec => []TypeOK
<1>1. LoopInv => TypeOK
  BY DEF LoopInv
<1> QED BY <1>1, LoopInvariant, PTL

\* The worker in the loop is a manager in the sense of WorkerManager: the server sends
\* only commands that its environment may send.
THEOREM LoopImplementsWorker == Spec => WMSpec
<1>1. Init => WMInit
  BY DEF Init
<1>2. LoopInv /\ [Next]_vars => [WMNext]_wmVars
  BY LoopIsWorker
<1> QED BY <1>1, <1>2, LoopInvariant, PTL DEF Spec, WMSpec

\* The server in the loop is a control plane in the sense of ControlPlane: the worker
\* sends only reports that its environment may send.
THEOREM LoopImplementsServer == Spec => CPSpec
<1>1. Init => CPInit
  BY DEF Init
<1>2. LoopInv /\ [Next]_vars => [CPNext]_cpVars
  BY LoopIsServer
<1> QED BY <1>1, <1>2, LoopInvariant, PTL DEF Spec, CPSpec

\* With requests that do not overlap, the worker is never ahead of the database: no
\* record, container, queued command or message carries a generation above the row's.
THEOREM WorkerNeverAhead == Spec => []WorkerNotAhead
<1>1. LoopInv => WorkerNotAhead
  <2> SUFFICES ASSUME LoopInv, SerialApi, NEW i \in Instances, row[i].life = "live"
               PROVE  /\ instances[i].gen <= row[i].gen /\ container[i].gen <= row[i].gen
                      /\ batch[i].gen <= row[i].gen /\ pending[i].gen <= row[i].gen
                      /\ wire.rep[i].gen <= row[i].gen /\ wire.cmds[i].gen <= row[i].gen
                      /\ cur.id = {i} => cur.cmd.gen <= row[i].gen
    BY DEF WorkerNotAhead
  <2>1. WorkerBelow(i, row[i].gen) /\ WireBelow(i, row[i].gen)
    BY DEF LoopInv
  <2> QED BY <2>1 DEF WorkerBelow, WireBelow
<1> QED BY <1>1, LoopInvariant, PTL

\* What NoRestartStorm says of one instance and one step.
Healthy(i) ==
    /\ row[i].mine /\ row[i].desired = "running"
    /\ instances[i].state \in {"starting", "running"}
    /\ instances[i].gen = row[i].gen
    /\ container[i].status = "running" /\ container[i].gen = row[i].gen
LeftAlone(i) ==
    \/ container'[i] = container[i]
    \/ container'[i].status = "exited" /\ instances'[i] = instances[i]

\* A healthy engine at the row's generation is left alone by the manager: a waiting start
\* is not newer (WorkerBelow), and no stop or delete waits for it (InOrder).
LEMMA HealthyIsLeftAlone ==
    ASSUME LoopInv, SerialApi, NEW i \in Instances, Healthy(i), WMInternal
    PROVE  LeftAlone(i)
<1> USE DEF LeftAlone
<1>0. WMTypeOK /\ batch[i].gen \in Nat /\ row[i].gen \in Nat
  BY GensTyped, FleetAssumption DEF LoopInv, TypeOK, CPTypeOK, RowType, Gens
<1>1. batch[i].gen <= row[i].gen /\ batch[i].act \notin {"stop", "delete"}
  BY DEF LoopInv, Healthy, RowSound, WorkerBelow, InOrder, Reached, Keeps
<1>2. CASE AdoptExisting
  BY <1>2 DEF AdoptExisting
<1>3. CASE FinishBatch
  <2>1. i \notin Stale
    BY DEF Stale, Healthy
  <2> QED BY <1>3, <2>1 DEF FinishBatch
<1>4. ASSUME NEW j \in Instances, ProbeStep(j) PROVE LeftAlone(i)
  BY <1>4 DEF ProbeStep, ProbeReady, ProbeExited, ProbeTimeout, ProbeVerdict
<1>5. ASSUME NEW j \in Instances, ContainerDies(j) PROVE LeftAlone(i)
  <2>1. container'[i] \in {container[i], WithStatus(container[i], "exited")} /\ instances' = instances
    BY <1>0, <1>5 DEF ContainerDies, WMTypeOK
  <2> QED BY <2>1, Builds DEF WithStatus
<1>6. ASSUME NEW j \in Instances, ApplyCommand(j), j # i PROVE LeftAlone(i)
  BY <1>0, <1>6 DEF ApplyCommand, TakeStart, CreateContainer, StartContainer, StopInstance,
                    DeleteInstance, StartError, WMTypeOK
<1>7. CASE TakeStart(i)
  <2>1. ~(instances[i].gen < batch[i].gen)
    BY <1>0, <1>1 DEF Healthy
  <2> QED BY <1>7, <2>1 DEF TakeStart, Healthy
<1>8. CASE CreateContainer(i)
  BY <1>8 DEF CreateContainer, Healthy
<1>9. CASE StartContainer(i)
  BY <1>9 DEF StartContainer, Healthy
<1>10. ~StopInstance(i) /\ ~DeleteInstance(i)
  BY <1>1 DEF StopInstance, DeleteInstance
<1> QED
  BY <1>2, <1>3, <1>4, <1>5, <1>6, <1>7, <1>8, <1>9, <1>10
     DEF WMInternal, BatchStep, ApplyCommand

\* No restart storm: while the database wants the instance at the generation it runs at,
\* no step of the loop removes or replaces its container.
THEOREM NoRestartStormEver == Spec => NoRestartStorm
<1>1. ASSUME LoopInv, [Next]_vars, SerialApi, NEW i \in Instances, Healthy(i)
      PROVE  LeftAlone(i)
  <2>1. CASE Worker
    BY <1>1, <2>1, HealthyIsLeftAlone DEF Worker
  <2>2. container' = container \/ Worker
    BY <1>1 DEF Next, WorkerCrash, Crash, Server, RemoveWorker, RegisterWorker, SendSync, ReceiveSync,
                Reconcile, LoseMessage, ServeSync, RefuseSync, vars, wmVars
  <2> QED BY <2>1, <2>2 DEF LeftAlone
<1>2. LoopInv /\ [Next]_vars =>
        [\A i \in Instances :
          ( /\ SerialApi
            /\ row[i].mine /\ row[i].desired = "running"
            /\ row'[i] = row[i]
            /\ instances[i].state \in {"starting", "running"}
            /\ instances[i].gen = row[i].gen
            /\ container[i].status = "running" /\ container[i].gen = row[i].gen )
          => \/ container'[i] = container[i]
             \/ container'[i].status = "exited" /\ instances'[i] = instances[i]]_vars
  BY <1>1 DEF Healthy, LeftAlone
<1> QED BY <1>2, LoopInvariant, PTL DEF Spec, NoRestartStorm

\* The loop never rests in disagreement.  Without a command to come, the report is not
\* behind the row; without a batch and a probe, nothing is in between two states
\* (CommandsHaveRunner, StartingIsProbed); and what runs is real (ReportedGenIsReal).
THEOREM AlwaysRestsInAgreement == Spec => []RestsInAgreement
<1>1. LoopInv => RestsInAgreement
  <2> SUFFICES ASSUME LoopInv, ~busy, probe = {}, SyncCommands(Statuses) = NoCmds,
                      NEW i \in Instances
               PROVE  IF row[i].mine
                      THEN /\ Converged(i)
                           /\ (row[i].desired = "running" /\ instances[i].state = "running") =>
                                /\ container[i].status # "none"
                                /\ container[i].gen = instances[i].gen
                                /\ SerialApi => instances[i].gen = row[i].gen
                      ELSE instances[i].state = "none"
    BY DEF RestsInAgreement
  <2>1. /\ StartingIsProbed /\ CommandsHaveRunner /\ ReportedGenIsReal
        /\ CPTypeOK /\ WMTypeOK /\ RowSound(i)
    BY DEF LoopInv, WMInv, TypeOK
  <2>2. /\ instances[i].state \in {"none", "starting", "running", "stopped", "error"}
        /\ instances[i].gen \in Nat /\ row[i].gen \in Nat
        /\ row[i].desired \in {"running", "stopped"}
    BY <2>1, FleetAssumption DEF WMTypeOK, TrackedType, CPTypeOK, RowType, Gens
  <2>3. cur.id # {i} /\ instances[i].state # "starting"
    <3>1. cur = NoCur
      BY <2>1 DEF CommandsHaveRunner
    <3>2. cur.id = {}
      BY <3>1 DEF NoCur
    <3>3. cur.id # {i}
      BY <3>2
    <3> QED BY <2>1, <3>3 DEF StartingIsProbed
  <2>4. /\ Statuses[i].state = instances[i].state /\ Statuses[i].gen = instances[i].gen
        /\ SyncCommand(i, Statuses).act = "none"
    <3>1. Statuses[i] = [state |-> instances[i].state, gen |-> instances[i].gen,
                         port |-> instances[i].port]
      BY DEF Statuses
    <3>2. SyncCommand(i, Statuses) = NoCmd
      BY DEF SyncCommands, NoCmds
    <3> QED BY <3>1, <3>2 DEF NoCmd
  <2>5. /\ ~NeedsStart(i, Statuses) /\ ~NeedsStop(i, Statuses) /\ ~NeedsDelete(i, Statuses)
    <3>1. StartCmd(row[i].gen, Reported(Statuses)[i].port).act = "start"
      BY DEF StartCmd
    <3>2. StopCmd.act = "stop" /\ DeleteCmd.act = "delete"
      BY DEF StopCmd, DeleteCmd
    <3>3. NeedsStart(i, Statuses) => ~NeedsStop(i, Statuses) /\ ~NeedsDelete(i, Statuses)
      BY DEF NeedsStart, NeedsStop, NeedsDelete
    <3>4. NeedsStop(i, Statuses) => ~NeedsDelete(i, Statuses)
      BY DEF NeedsStop, NeedsDelete
    <3> QED BY <2>4, <3>1, <3>2, <3>3, <3>4 DEF SyncCommand
  <2>6. CASE row[i].mine /\ row[i].desired = "running"
    <3>1. instances[i].state \in {"running", "error"} /\ instances[i].gen >= row[i].gen
      BY <2>2, <2>3, <2>4, <2>5, <2>6 DEF NeedsStart
    <3>2. instances[i].state = "running" =>
            container[i].status # "none" /\ container[i].gen = instances[i].gen
      BY <2>1, <2>3 DEF ReportedGenIsReal
    <3>3. SerialApi => instances[i].gen <= row[i].gen
      BY <2>1, <2>6 DEF LoopInv, RowSound, WorkerBelow
    <3> QED BY <2>2, <2>6, <3>1, <3>2, <3>3 DEF Converged
  <2>7. CASE row[i].mine /\ row[i].desired = "stopped"
    BY <2>4, <2>5, <2>7 DEF NeedsStop, Converged
  <2>8. CASE ~row[i].mine
    BY <2>4, <2>5, <2>8 DEF NeedsDelete
  <2> QED BY <2>2, <2>6, <2>7, <2>8
<1> QED BY <1>1, LoopInvariant, PTL

\* With requests one at a time no wish is lost or undone by an older one: generations do
\* not fall, and a change of what is wanted has a generation of its own.
THEOREM GenerationsAlwaysGrow == Spec => GenerationsGrow
<1>1. ASSUME LoopInv, [Next]_vars, SerialApi, NEW i \in Instances,
             row[i].life = "live", row'[i].life = "live"
      PROVE  /\ row'[i].gen >= row[i].gen
             /\ row'[i].desired # row[i].desired => row'[i].gen > row[i].gen
  <2>1. RowMoves(i) /\ GenGrows(i) /\ Serialised
    BY <1>1, LoopRows DEF LoopInv
  <2>2. row[i].gen \in Nat /\ row'[i].gen \in Nat
    <3>1. CPTypeOK /\ CPTypeOK'
      BY <1>1, LoopStep DEF LoopInv, TypeOK
    <3> QED BY <3>1, FleetAssumption DEF CPTypeOK, RowType, Gens
  <2>3. row'[i].gen >= row[i].gen
    BY <1>1, <2>1, <2>2 DEF GenGrows
  <2>4. ASSUME row'[i].desired # row[i].desired PROVE row'[i].gen > row[i].gen
    <3>1. Committed(i)
      BY <1>1, <2>1, <2>4 DEF RowMoves, RowKept, Inserted
    <3>2. PICK c \in Clients : /\ api[c].op # "none" /\ api[c].id = {i}
                               /\ row'[i].gen = api[c].gen + 1
      BY <3>1 DEF Committed
    <3>3. api[c] # Idle
      BY <3>2 DEF Idle
    <3>4. api[c].gen = row[i].gen
      BY <1>1, <2>1, <3>2, <3>3 DEF Serialised
    <3> QED BY <2>2, <3>2, <3>4
  <2> QED BY <2>3, <2>4
<1>2. LoopInv /\ [Next]_vars =>
        [SerialApi => \A i \in Instances :
           row[i].life = "live" /\ row'[i].life = "live" =>
             /\ row'[i].gen >= row[i].gen
             /\ row'[i].desired # row[i].desired => row'[i].gen > row[i].gen]_vars
  BY <1>1
<1> QED BY <1>2, LoopInvariant, PTL DEF Spec, GenerationsGrow

\* In the loop as well: an instance that is starting has its probe, and no two active
\* rows share a port.
THEOREM PartsKeepTheirPromises == Spec => []StartingIsProbed /\ []PortsUnique
  BY LoopImplementsWorker, LoopImplementsServer, StartingAlwaysProbed, PortsAlwaysUnique
=============================================================================
