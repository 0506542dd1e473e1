------------------------ MODULE ControlPlane_proofs ------------------------
(***************************************************************************)
(* Proofs about ControlPlane, for any instances, ports, clients and        *)
(* generations, and for anything a worker may report.                      *)
(***************************************************************************)
EXTENDS ControlPlane, WellFoundedInduction, TLAPS

(***************************************************************************)
(* Facts about the data.                                                   *)
(***************************************************************************)

\* A non-empty set of naturals has a least element.
LEMMA LeastElement ==
    ASSUME NEW S \in SUBSET Nat, S # {}
    PROVE  \E p \in S : \A q \in S : p <= q
<1>1. PICK p \in S : \A q \in S : ~(<<q, p>> \in OpToRel(<, Nat))
  BY NatLessThanWellFounded, WFMin
<1>2. \A q \in S : ~(q < p)
  BY <1>1 DEF OpToRel
<1> QED BY <1>2

\* The scheduler's port is one that no row reserves.
LEMMA AllocatedPort ==
    ASSUME FreePorts # {}
    PROVE  AllocPort \in FreePorts
<1>1. FreePorts \in SUBSET Nat
  BY FleetAssumption DEF FreePorts
<1>2. \E p \in FreePorts : \A q \in FreePorts : p <= q
  BY <1>1, LeastElement
<1> QED BY <1>2 DEF AllocPort

\* What the handlers write is a row.
LEMMA RowUpdates ==
    ASSUME NEW r \in RowType
    PROVE  /\ \A s \in LIVE_STATES \cup {"stopped", "error"} :
                /\ [r EXCEPT !.state = s] \in RowType
                /\ [r EXCEPT !.mine = FALSE, !.state = s] \in RowType
                /\ \A p \in PortValues : [r EXCEPT !.state = s, !.port = p] \in RowType
           /\ \A g \in Gens, d \in {"running", "stopped"} :
                [r EXCEPT !.gen = g, !.desired = d] \in RowType
<1>1. \A s \in LIVE_STATES \cup {"stopped", "error"} : [r EXCEPT !.state = s] \in RowType
  BY DEF RowType
<1>2. \A s \in LIVE_STATES \cup {"stopped", "error"} :
        [r EXCEPT !.mine = FALSE, !.state = s] \in RowType
  BY DEF RowType
<1>3. \A s \in LIVE_STATES \cup {"stopped", "error"}, p \in PortValues :
        [r EXCEPT !.state = s, !.port = p] \in RowType
  BY DEF RowType
<1>4. \A g \in Gens, d \in {"running", "stopped"} :
        [r EXCEPT !.gen = g, !.desired = d] \in RowType
  BY DEF RowType
<1> QED BY <1>1, <1>2, <1>3, <1>4

\* A row that is not there is a row.
LEMMA NoRowType == \A l \in {"unborn", "live", "gone"} : NoRow(l) \in RowType
  BY FleetAssumption DEF NoRow, RowType, LIVE_STATES, Gens, PortValues

\* The rows after a report are rows.
LEMMA ReportedType ==
    ASSUME row \in [Instances -> RowType], NEW rep \in Reports
    PROVE  Reported(rep) \in [Instances -> RowType]
<1> SUFFICES ASSUME NEW i \in Instances, row[i].mine, rep[i].state # "none"
             PROVE  [row[i] EXCEPT !.state = rep[i].state,
                                   !.port = IF rep[i].port # 0 THEN rep[i].port ELSE @] \in RowType
  BY DEF Reported
<1>1. rep[i].state \in LIVE_STATES \cup {"stopped", "error"} /\ rep[i].port \in PortValues
  BY DEF Reports, NotReported, WorkerStates, LIVE_STATES
<1>2. row[i].port \in PortValues
  BY DEF RowType
<1> DEFINE p == IF rep[i].port # 0 THEN rep[i].port ELSE row[i].port
<1>3. [row[i] EXCEPT !.state = rep[i].state, !.port = p] \in RowType
  BY <1>1, <1>2, RowUpdates
<1> QED BY <1>3

(***************************************************************************)
(* Type correctness.  A request writes the generation it read plus one, so *)
(* it needs RequestsFit, and a deploy the port it chose.                   *)
(***************************************************************************)

\* The row a request writes is a row, one generation above the one it read.
LEMMA WrittenType ==
    ASSUME CPTypeOK, RequestsFit, NEW c \in Clients, NEW i \in Instances, api[c].op # "none"
    PROVE  Written(api[c], i) \in RowType
<1> DEFINE want == IF api[c].op = "stop" THEN "stopped" ELSE "running"
<1>1. api[c].gen + 1 \in Gens
  BY FleetAssumption DEF CPTypeOK, RequestsFit, Gens
<1>2. row[i] \in RowType /\ row[i].desired \in {"running", "stopped"}
  BY DEF CPTypeOK, RowType
<1>3. [row[i] EXCEPT !.gen = api[c].gen + 1,
                     !.desired = IF api[c].desired = want THEN row[i].desired ELSE want] \in RowType
  BY <1>1, <1>2, RowUpdates
<1> QED BY <1>3 DEF Written

\* The row a deploy inserts.
LEMMA DeployedType ==
    ASSUME CPTypeOK
    PROVE  [life |-> "live", mine |-> TRUE, desired |-> "running", state |-> "scheduled",
            gen |-> 1, port |-> placing.port] \in RowType
<1>1. placing.port \in PortValues
  BY DEF CPTypeOK
<1> QED BY <1>1, FleetAssumption DEF RowType, LIVE_STATES, Gens

\* What a deploy that locks the worker row has chosen.
LEMMA ChosenPort ==
    ASSUME NEW i \in Instances, BeginDeploy(i)
    PROVE  /\ placing' \in [id : SUBSET Instances, port : PortValues]
           /\ placing'.id = {i}
           /\ placing'.port \in IF i \in Followers THEN {0} ELSE Ports
           /\ i \notin Followers => placing'.port \in FreePorts
<1>1. i \notin Followers => AllocPort \in FreePorts
  BY AllocatedPort DEF BeginDeploy
<1> QED BY <1>1 DEF BeginDeploy, FreePorts, PortValues

\* Every handler keeps the types, and leaves requests room for their generation.
LEMMA ServerTypeStep ==
    CPTypeOK /\ RequestsFit /\ [CPNext]_cpVars => CPTypeOK' /\ RequestsFit'
<1> SUFFICES ASSUME CPTypeOK, RequestsFit, [CPNext]_cpVars PROVE CPTypeOK' /\ RequestsFit'
  OBVIOUS
<1>0. row \in [Instances -> RowType] /\ \A i \in Instances : row[i] \in RowType
  BY DEF CPTypeOK
<1>a. ASSUME NEW i \in Instances, BeginDeploy(i) PROVE CPTypeOK' /\ RequestsFit'
  BY <1>a, ChosenPort DEF BeginDeploy, CPTypeOK, RequestsFit
<1>1. ASSUME NEW i \in Instances, CommitDeploy(i) PROVE CPTypeOK' /\ RequestsFit'
  <2>1. row' \in [Instances -> RowType]
    BY <1>0, <1>1, DeployedType DEF CommitDeploy
  <2>2. placing' \in [id : SUBSET Instances, port : PortValues]
    BY <1>1 DEF CommitDeploy, NotPlacing, PortValues
  <2> QED BY <1>1, <2>1, <2>2 DEF CommitDeploy, CPTypeOK, RequestsFit
<1>2. ASSUME NEW c \in Clients, NEW op \in {"stop", "restart"}, NEW i \in Instances,
             BeginRequest(c, op, i)
      PROVE  CPTypeOK' /\ RequestsFit'
  <2>1. Request(op, i) \in [op : {"none", "stop", "restart"}, id : SUBSET Instances,
                            desired : {"running", "stopped"}, gen : Gens]
    BY <1>0 DEF Request, RowType
  <2>2. Request(op, i).gen < MaxGen
    BY <1>2 DEF BeginRequest, Request
  <2>3. api' = [api EXCEPT ![c] = Request(op, i)]
    BY <1>2 DEF BeginRequest
  <2>4. CPTypeOK'
    BY <1>2, <2>1, <2>3 DEF BeginRequest, CPTypeOK
  <2>5. RequestsFit'
    BY <2>2, <2>3 DEF CPTypeOK, RequestsFit
  <2> QED BY <2>4, <2>5
<1>3. ASSUME NEW c \in Clients, NEW i \in Instances, CommitRequest(c, i)
      PROVE  CPTypeOK' /\ RequestsFit'
  <2>1. row' \in [Instances -> RowType]
    <3>1. Written(api[c], i) \in RowType
      BY <1>3, WrittenType DEF CommitRequest
    <3>2. row' = row \/ row' = [row EXCEPT ![i] = Written(api[c], i)]
      BY <1>3 DEF CommitRequest
    <3> QED BY <1>0, <3>1, <3>2
  <2>2. Idle \in [op : {"none", "stop", "restart"}, id : SUBSET Instances,
                  desired : {"running", "stopped"}, gen : Gens]
    BY FleetAssumption DEF Idle, Gens
  <2>3. api' = [api EXCEPT ![c] = Idle]
    BY <1>3 DEF CommitRequest
  <2>4. CPTypeOK'
    BY <1>3, <2>1, <2>2, <2>3 DEF CommitRequest, CPTypeOK
  <2>5. RequestsFit'
    BY <2>3 DEF CPTypeOK, RequestsFit, Idle
  <2> QED BY <2>4, <2>5
<1>4. ASSUME NEW i \in Instances, DeleteRow(i) PROVE CPTypeOK' /\ RequestsFit'
  BY <1>0, <1>4, NoRowType DEF DeleteRow, CPTypeOK, RequestsFit
<1>5. CASE DeleteWorker
  <2>1. row' \in [Instances -> RowType]
    <3> SUFFICES ASSUME NEW i \in Instances, row[i].mine
                 PROVE  [row[i] EXCEPT !.mine = FALSE,
                          !.state = IF @ \in LIVE_STATES THEN "error" ELSE @] \in RowType
      BY <1>0, <1>5 DEF DeleteWorker
    <3>1. row[i].state \in LIVE_STATES \cup {"stopped", "error"}
      BY <1>0 DEF RowType
    <3> DEFINE s == IF row[i].state \in LIVE_STATES THEN "error" ELSE row[i].state
    <3>2. [row[i] EXCEPT !.mine = FALSE, !.state = s] \in RowType
      BY <1>0, <3>1, RowUpdates
    <3> QED BY <3>2
  <2> QED BY <1>5, <2>1 DEF DeleteWorker, CPTypeOK, RequestsFit
<1>6. CASE Register \/ HeartbeatAges \/ FindStaleWorker
  BY <1>6 DEF Register, HeartbeatAges, FindStaleWorker, CPTypeOK, RequestsFit
<1>7. CASE MarkDisconnected
  <2>1. row' \in [Instances -> RowType]
    BY <1>0, <1>7, RowUpdates DEF MarkDisconnected
  <2> QED BY <1>7, <2>1 DEF MarkDisconnected, CPTypeOK, RequestsFit
<1>8. ASSUME NEW rep \in Reports, Sync(rep) \/ SyncFails(rep) PROVE CPTypeOK' /\ RequestsFit'
  <2>1. Reported(rep) \in [Instances -> RowType]
    BY <1>0, ReportedType
  <2> QED BY <1>8, <2>1 DEF Sync, SyncFails, cpVars, CPTypeOK, RequestsFit
<1>9. CASE UNCHANGED cpVars
  BY <1>9 DEF cpVars, CPTypeOK, RequestsFit
<1> QED
  BY <1>a, <1>1, <1>2, <1>3, <1>4, <1>5, <1>6, <1>7, <1>8, <1>9 DEF CPNext, Operator

\* A deploy keeps its row to itself until its commit: only a commit inserts, and no two
\* deploys have the lock.
LEMMA PlacementStep == CPTypeOK /\ PlacementFits /\ [CPNext]_cpVars => PlacementFits'
<1> SUFFICES ASSUME CPTypeOK, PlacementFits, [CPNext]_cpVars PROVE PlacementFits'
  OBVIOUS
<1>0. row \in [Instances -> RowType] /\ \A i \in Instances : row[i] \in RowType
  BY DEF CPTypeOK
<1>1. ASSUME NEW i \in Instances, BeginDeploy(i) PROVE PlacementFits'
  <2>1. row' = row /\ row[i].life = "unborn" /\ \A j \in Instances : placing'.id = {j} => j = i
    BY <1>1, ChosenPort DEF BeginDeploy
  <2> QED BY <1>1, <2>1, ChosenPort DEF PlacementFits
<1>2. CASE placing' = NotPlacing
  BY <1>2 DEF PlacementFits, NotPlacing
<1>3. CASE placing' = placing /\ \A i \in Instances : row[i].life = "unborn" => row'[i].life = "unborn"
  BY <1>3 DEF PlacementFits
<1>4. ASSUME NEW c \in Clients, NEW i \in Instances,
             CommitRequest(c, i) \/ BeginRequest(c, "stop", i) \/ BeginRequest(c, "restart", i)
      PROVE  PlacementFits'
  BY <1>0, <1>3, <1>4 DEF CommitRequest, BeginRequest, Written, RowType
<1>5. ASSUME NEW i \in Instances, DeleteRow(i) PROVE PlacementFits'
  BY <1>0, <1>3, <1>5 DEF DeleteRow
<1>6. CASE DeleteWorker \/ Register \/ MarkDisconnected \/ \E rep \in Reports : Sync(rep) \/ SyncFails(rep)
  BY <1>2, <1>6 DEF DeleteWorker, Register, MarkDisconnected, Sync, SyncFails, cpVars
<1>7. CASE HeartbeatAges \/ FindStaleWorker \/ UNCHANGED cpVars
  BY <1>3, <1>7 DEF HeartbeatAges, FindStaleWorker, cpVars
<1> QED
  BY <1>1, <1>2, <1>4, <1>5, <1>6, <1>7 DEF CPNext, Operator, CommitDeploy

(***************************************************************************)
(* Ports.                                                                  *)
(***************************************************************************)

\* Every row that the index covers is one whose port the scheduler avoids.
LEMMA IndexedIsReserved == \A i \in Instances : Indexed(row[i]) => PORT_RESERVED(row[i])
  BY DEF Indexed, PORT_RESERVED

\* The port of a deploy under way, if some row has it after all: one that is down.
Claimed(j) == placing # NotPlacing /\ Indexed(row[j]) /\ row[j].port = placing.port
OnlyRestarted == \A j \in Instances :
    Claimed(j) => row[j].desired = "running" /\ row[j].state \notin LIVE_STATES

\* The two halves of PortsUnique.
LEMMA PortsHalves == PortsUnique <=> ~PortClash(row) /\ OnlyRestarted
  BY DEF PortsUnique, OnlyRestarted, Claimed

\* Fewer indexed rows, with the ports they had, cannot clash.
LEMMA LessIndexed ==
    ASSUME ~PortClash(row),
           \A i \in Instances : Indexed(row'[i]) => Indexed(row[i]) /\ row'[i].port = row[i].port
    PROVE  ~PortClash(row')
  BY DEF PortClash

\* Every handler keeps the active rows apart.
LEMMA IndexStep == CPTypeOK /\ ~PortClash(row) /\ [CPNext]_cpVars => ~PortClash(row')
<1> SUFFICES ASSUME CPTypeOK, ~PortClash(row), [CPNext]_cpVars PROVE ~PortClash(row')
  OBVIOUS
<1>0. row \in [Instances -> RowType] /\ \A i \in Instances : row[i] \in RowType
  BY DEF CPTypeOK
<1>1. ASSUME NEW i \in Instances, CommitDeploy(i) PROVE ~PortClash(row')
  BY <1>1 DEF CommitDeploy
<1>2. ASSUME NEW c \in Clients, NEW i \in Instances, CommitRequest(c, i) PROVE ~PortClash(row')
  BY <1>2 DEF CommitRequest
<1>3. ASSUME NEW i \in Instances, DeleteRow(i) PROVE ~PortClash(row')
  <2>1. \A j \in Instances : Indexed(row'[j]) => row'[j] = row[j]
    BY <1>0, <1>3 DEF DeleteRow, NoRow, Indexed
  <2> QED BY <2>1, LessIndexed
<1>4. CASE DeleteWorker
  <2>1. \A j \in Instances : Indexed(row'[j]) => row'[j] = row[j]
    BY <1>0, <1>4 DEF DeleteWorker, Indexed, RowType
  <2> QED BY <2>1, LessIndexed
<1>5. CASE MarkDisconnected
  <2>1. \A j \in Instances : Indexed(row'[j]) => Indexed(row[j]) /\ row'[j].port = row[j].port
    BY <1>0, <1>5 DEF MarkDisconnected, Indexed, RowType, LIVE_STATES
  <2> QED BY <2>1, LessIndexed
<1>6. ASSUME NEW rep \in Reports, Sync(rep) PROVE ~PortClash(row')
  BY <1>6 DEF Sync
<1>7. CASE UNCHANGED row
  BY <1>7
<1> QED
  BY <1>1, <1>2, <1>3, <1>4, <1>5, <1>6, <1>7
  DEF CPNext, Operator, BeginDeploy, BeginRequest, Register, HeartbeatAges, FindStaleWorker,
      SyncFails, cpVars

\* While a deploy has the lock, only a restart can claim its port: nobody else may write the
\* worker row, and a stop or a deletion makes no row active.
LEMMA ClaimStep == CPTypeOK /\ OnlyRestarted /\ [CPNext]_cpVars => OnlyRestarted'
<1> SUFFICES ASSUME CPTypeOK, OnlyRestarted, [CPNext]_cpVars PROVE OnlyRestarted'
  OBVIOUS
<1>0. row \in [Instances -> RowType] /\ \A i \in Instances : row[i] \in RowType
  BY DEF CPTypeOK
<1>1. ASSUME NEW i \in Instances, BeginDeploy(i) PROVE OnlyRestarted'
  <2>1. \A j \in Instances : Indexed(row[j]) => row[j].port # placing'.port
    <3>1. CASE i \in Followers
      BY <1>1, <3>1, ChosenPort DEF Indexed
    <3>2. CASE i \notin Followers
      BY <1>1, <3>2, ChosenPort, IndexedIsReserved DEF FreePorts
    <3> QED BY <3>1, <3>2
  <2> QED BY <1>1, <2>1 DEF BeginDeploy, OnlyRestarted, Claimed
<1>2. CASE placing' = NotPlacing
  BY <1>2 DEF OnlyRestarted, Claimed
<1>3. ASSUME NEW c \in Clients, NEW i \in Instances, CommitRequest(c, i) PROVE OnlyRestarted'
  <2>1. \A j \in Instances : /\ row'[j].mine = row[j].mine /\ row'[j].state = row[j].state
                             /\ row'[j].port = row[j].port
    BY <1>0, <1>3 DEF CommitRequest, Written, RowType
  <2>2. \A j \in Instances : row'[j].desired \in {"running", "stopped"}
    BY <1>0, <1>3 DEF CommitRequest, Written, RowType
  <2>3. placing' = placing
    BY <1>3 DEF CommitRequest
  <2>4. ASSUME NEW j \in Instances, Claimed(j)'
        PROVE  row'[j].desired = "running" /\ row'[j].state \notin LIVE_STATES
    <3>1. row[j].state \notin LIVE_STATES
      BY <2>1, <2>3, <2>4 DEF OnlyRestarted, Claimed, Indexed
    <3> QED BY <2>1, <2>4, <3>1 DEF Claimed, Indexed
  <2> QED BY <2>4 DEF OnlyRestarted
<1>4. ASSUME NEW i \in Instances, DeleteRow(i) PROVE OnlyRestarted'
  <2>1. \A j \in Instances : Indexed(row'[j]) => row'[j] = row[j]
    BY <1>0, <1>4 DEF DeleteRow, NoRow, Indexed
  <2> QED BY <1>4, <2>1 DEF DeleteRow, OnlyRestarted, Claimed
<1>5. CASE DeleteWorker \/ Register \/ MarkDisconnected \/ \E rep \in Reports : Sync(rep) \/ SyncFails(rep)
  BY <1>2, <1>5 DEF DeleteWorker, Register, MarkDisconnected, Sync, SyncFails, cpVars
<1>6. CASE UNCHANGED <<row, placing>>
  BY <1>6 DEF OnlyRestarted, Claimed
<1> QED
  BY <1>1, <1>2, <1>3, <1>4, <1>5, <1>6
  DEF CPNext, Operator, CommitDeploy, BeginRequest, HeartbeatAges, FindStaleWorker, cpVars

\* Every handler keeps the ports unique.
LEMMA PortsStep == CPTypeOK /\ PortsUnique /\ [CPNext]_cpVars => PortsUnique'
<1> SUFFICES ASSUME CPTypeOK, PortsUnique, [CPNext]_cpVars PROVE PortsUnique'
  OBVIOUS
<1>1. ~PortClash(row') /\ OnlyRestarted'
  BY IndexStep, ClaimStep, PortsHalves
<1> QED BY <1>1 DEF PortsUnique, OnlyRestarted, Claimed

(***************************************************************************)
(* Detached rows.                                                          *)
(***************************************************************************)

\* What one step may do to a row that has no worker.
StaysDetached(i) ==
    row[i].life # "unborn" /\ ~row[i].mine =>
        /\ row'[i].life # "unborn" /\ ~row'[i].mine
        /\ row'[i].state \notin LIVE_STATES

\* No handler gives a detached row a worker or a live state, and a row that loses its
\* worker is down.
LEMMA DetachedStep ==
    ASSUME CPTypeOK, PlacementFits, DetachedIsDown, [CPNext]_cpVars
    PROVE  DetachedIsDown' /\ \A i \in Instances : StaysDetached(i)
<1>0. row \in [Instances -> RowType] /\ \A i \in Instances : row[i] \in RowType
  BY DEF CPTypeOK
<1> USE DEF DetachedIsDown, StaysDetached
<1>1. ASSUME NEW j \in Instances, CommitDeploy(j)
      PROVE  DetachedIsDown' /\ \A i \in Instances : StaysDetached(i)
  BY <1>0, <1>1 DEF CommitDeploy, PlacementFits
<1>2. ASSUME NEW c \in Clients, NEW j \in Instances, CommitRequest(c, j)
      PROVE  DetachedIsDown' /\ \A i \in Instances : StaysDetached(i)
  <2>1. \A i \in Instances : /\ row'[i].life = row[i].life /\ row'[i].mine = row[i].mine
                             /\ row'[i].state = row[i].state
    BY <1>0, <1>2 DEF CommitRequest, Written, RowType
  <2> QED BY <2>1
<1>3. ASSUME NEW j \in Instances, DeleteRow(j)
      PROVE  DetachedIsDown' /\ \A i \in Instances : StaysDetached(i)
  BY <1>0, <1>3 DEF DeleteRow, NoRow, LIVE_STATES
<1>4. CASE DeleteWorker
  BY <1>0, <1>4 DEF DeleteWorker, RowType, LIVE_STATES
<1>5. CASE MarkDisconnected
  BY <1>0, <1>5 DEF MarkDisconnected, RowType, LIVE_STATES
<1>6. ASSUME NEW rep \in Reports, Sync(rep)
      PROVE  DetachedIsDown' /\ \A i \in Instances : StaysDetached(i)
  BY <1>0, <1>6 DEF Sync, Reported, RowType
<1>7. CASE UNCHANGED row
  BY <1>7
<1> QED
  BY <1>1, <1>2, <1>3, <1>4, <1>5, <1>6, <1>7
  DEF CPNext, Operator, BeginDeploy, BeginRequest, Register, HeartbeatAges, FindStaleWorker,
      SyncFails, cpVars

(***************************************************************************)
(* The theorems.                                                           *)
(***************************************************************************)

\* The empty database satisfies the invariant.
LEMMA ServerInit == CPInit => CPInv
<1> SUFFICES ASSUME CPInit PROVE CPInv
  OBVIOUS
<1>1. CPTypeOK
  <2>1. row \in [Instances -> RowType]
    BY NoRowType DEF CPInit
  <2>2. Idle \in [op : {"none", "stop", "restart"}, id : SUBSET Instances,
                  desired : {"running", "stopped"}, gen : Gens]
    BY FleetAssumption DEF Idle, Gens
  <2>3. NotPlacing \in [id : SUBSET Instances, port : PortValues]
    BY DEF NotPlacing, PortValues
  <2> QED BY <2>1, <2>2, <2>3 DEF CPInit, CPTypeOK
<1>2. RequestsFit /\ PlacementFits /\ DetachedIsDown
  BY DEF CPInit, RequestsFit, PlacementFits, DetachedIsDown, Idle, NoRow, NotPlacing
<1>3. PortsUnique
  BY DEF CPInit, PortsUnique, PortClash, Indexed, NoRow
<1> QED BY <1>1, <1>2, <1>3 DEF CPInv

\* Every handler preserves the invariant.
LEMMA ServerStep == CPInv /\ [CPNext]_cpVars => CPInv'
  BY ServerTypeStep, PlacementStep, PortsStep, DetachedStep DEF CPInv

\* The inductive invariant of the control plane holds, whatever the worker reports and
\* however requests, the watchdog and deletions interleave.
THEOREM ServerInvariant == CPSpec => []CPInv
  BY ServerInit, ServerStep, PTL DEF CPSpec

\* The rows always have their types: a request never counts a generation past the bound.
THEOREM ServerTyping == CPSpec => []CPTypeOK
<1>1. CPInv => CPTypeOK
  BY DEF CPInv
<1> QED BY <1>1, ServerInvariant, PTL

\* No two active rows of the worker ever share a port, and a deploy's port is never that of
\* a live engine.
THEOREM PortsAlwaysUnique == CPSpec => []PortsUnique
<1>1. CPInv => PortsUnique
  BY DEF CPInv
<1> QED BY <1>1, ServerInvariant, PTL

\* A row that lost its worker, or was deleted, never comes back to life.
THEOREM DetachedForGood == CPSpec => DetachedStaysDetached
<1>1. CPInv /\ [CPNext]_cpVars =>
        [\A i \in Instances :
           row[i].life # "unborn" /\ ~row[i].mine =>
             ~row'[i].mine /\ row'[i].state \notin LIVE_STATES]_cpVars
  BY DetachedStep DEF CPInv, StaysDetached
<1> QED BY <1>1, ServerInvariant, PTL DEF CPSpec, DetachedStaysDetached
=============================================================================
