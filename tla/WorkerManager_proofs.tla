------------------------ MODULE WorkerManager_proofs -----------------------
(***************************************************************************)
(* Proofs about WorkerManager: the invariants hold for any set of          *)
(* instances, any bounds and any stream of commands.                       *)
(***************************************************************************)
EXTENDS WorkerManager, TLAPS

(***************************************************************************)
(* Facts about the data.                                                   *)
(***************************************************************************)

\* The absent record of every kind, and every record the actions build, is typed.
LEMMA Records ==
    /\ NoCmd \in CmdType
    /\ Untracked \in TrackedType
    /\ NoContainer \in ContainerType
    /\ NoCur \in CurType
    /\ \A g \in Gens, p \in PortValues :
         /\ \A s \in {"none", "starting", "running", "stopped", "error"}, r \in {0, 1} :
              Tracked(s, g, p, r) \in TrackedType
         /\ \A s \in {"none", "created", "running", "exited"} :
              Container(s, g, p) \in ContainerType
    /\ \A ph \in {"start", "run"}, i \in Instances, c \in CmdType : Working(ph, i, c) \in CurType
  <1>1. NoCmd \in CmdType
    BY FleetAssumption DEF NoCmd, CmdType, Gens, PortValues
  <1>2. Untracked \in TrackedType /\ NoContainer \in ContainerType
    BY FleetAssumption DEF Untracked, TrackedType, NoContainer, ContainerType, Gens, PortValues
  <1>3. NoCur \in CurType
    BY <1>1 DEF NoCur, CurType
  <1> QED
    BY <1>1, <1>2, <1>3 DEF Tracked, TrackedType, Container, ContainerType, Working, CurType

\* The fields of typed records.
LEMMA Fields ==
    /\ \A c \in CmdType : c.gen \in Gens /\ c.port \in PortValues
    /\ \A t \in TrackedType : t.gen \in Gens /\ t.port \in PortValues /\ t.rank \in {0, 1}
    /\ \A c \in ContainerType : c.gen \in Gens /\ c.port \in PortValues
    /\ \A w \in CurType : w.cmd \in CmdType
  BY DEF CmdType, TrackedType, ContainerType, CurType

\* A new state or status keeps a record typed.
LEMMA Updates ==
    /\ \A t \in TrackedType, s \in {"running", "stopped", "error"} :
         WithState(t, s) \in TrackedType
    /\ \A c \in ContainerType, s \in {"running", "exited"} : WithStatus(c, s) \in ContainerType
  BY Records, Fields DEF WithState, WithStatus

\* Recording a state, if the instance is known, keeps the dictionary typed.
LEMMA RecordedType ==
    instances \in [Instances -> TrackedType] =>
        \A i \in Instances, s \in {"running", "stopped", "error"} :
            Recorded(i, s) \in [Instances -> TrackedType]
  <1> SUFFICES ASSUME instances \in [Instances -> TrackedType], NEW i \in Instances,
                      NEW s \in {"running", "stopped", "error"}
               PROVE  Recorded(i, s) \in [Instances -> TrackedType]
    OBVIOUS
  <1>1. WithState(instances[i], s) \in TrackedType
    BY Updates
  <1> QED BY <1>1 DEF Recorded

\* The commands of a map are commands.
LEMMA CommandType == \A f \in CmdMaps, i \in Instances : f[i] \in CmdType
  BY DEF CmdMaps

\* Taking a command off a batch leaves a batch of well-formed commands.
LEMMA TakeCommand ==
    \A f \in CmdMaps, i \in Instances : [f EXCEPT ![i] = NoCmd] \in CmdMaps
  BY Records DEF CmdMaps, CmdsFor

\* The empty batch is well-formed.
LEMMA NoCmdsType == NoCmds \in CmdMaps
  BY Records DEF CmdMaps, CmdsFor, NoCmds

\* Coalescing two well-formed command maps gives one.
LEMMA Coalesce ==
    \A f, g \in CmdMaps :
        [i \in Instances |-> IF g[i].act = "none" THEN f[i] ELSE g[i]] \in CmdMaps
  BY DEF CmdMaps

\* The fault counter stays within its bound.
LEMMA FaultType == faults \in 0 .. MaxFaults /\ (Fault \/ NoFault) => faults' \in 0 .. MaxFaults
  BY WorkerAssumption DEF Fault, NoFault

(***************************************************************************)
(* Type correctness.                                                       *)
(***************************************************************************)

\* Every step of the manager, of Docker and of the environment keeps the types.
LEMMA TypeStep == WMTypeOK /\ [WMNext]_wmVars => WMTypeOK'
  <1> SUFFICES ASSUME WMTypeOK, [WMNext]_wmVars PROVE WMTypeOK'
    OBVIOUS
  <1> USE Records, Fields, FaultType DEF WMTypeOK
  <1>1. CASE AdoptExisting
    <2>1. \A i \in Instances : Adopted(i) \in TrackedType
      BY DEF Adopted
    <2> QED BY <1>1, <2>1 DEF AdoptExisting
  <1>2. CASE Crash
    BY <1>2, NoCmdsType DEF Crash
  <1>3. ASSUME NEW cmds \in CmdMaps, Reconcile(cmds) PROVE WMTypeOK'
    BY <1>3, Coalesce DEF Reconcile
  <1>4. ASSUME NEW i \in Instances, ContainerDies(i) PROVE WMTypeOK'
    BY <1>4, Updates DEF ContainerDies
  <1>5. ASSUME NEW i \in Instances, TakeStart(i) PROVE WMTypeOK'
    BY <1>5, TakeCommand, CommandType DEF TakeStart
  <1>6. ASSUME NEW i \in Instances, CreateContainer(i) PROVE WMTypeOK'
    <2>1. /\ Tracked("error", cur.cmd.gen, cur.cmd.port, 0) \in TrackedType
          /\ Container("created", cur.cmd.gen, cur.cmd.port) \in ContainerType
          /\ Working("run", i, cur.cmd) \in CurType
      OBVIOUS
    <2>2. container' \in [Instances -> ContainerType]
      BY <1>6, <2>1 DEF CreateContainer
    <2>3. instances' \in [Instances -> TrackedType]
      BY <1>6, <2>1 DEF CreateContainer, StartError
    <2>4. cur' \in CurType /\ probe' \subseteq Instances /\ faults' \in 0 .. MaxFaults
      BY <1>6, <2>1 DEF CreateContainer, StartError
    <2> QED BY <1>6, <2>2, <2>3, <2>4 DEF CreateContainer
  <1>7. ASSUME NEW i \in Instances, StartContainer(i) PROVE WMTypeOK'
    <2>1. /\ Tracked("error", cur.cmd.gen, cur.cmd.port, 0) \in TrackedType
          /\ Tracked("starting", cur.cmd.gen, cur.cmd.port, RankOf(i)) \in TrackedType
          /\ WithStatus(container[i], "running") \in ContainerType
      BY Updates DEF RankOf
    <2>2. container' \in [Instances -> ContainerType]
      BY <1>7, <2>1 DEF StartContainer
    <2>3. instances' \in [Instances -> TrackedType]
      BY <1>7, <2>1 DEF StartContainer, StartError
    <2>4. cur' \in CurType /\ pendingProbes' \subseteq Instances /\ faults' \in 0 .. MaxFaults
      BY <1>7 DEF StartContainer, StartError
    <2> QED BY <1>7, <2>2, <2>3, <2>4 DEF StartContainer
  <1>8. ASSUME NEW i \in Instances, StopInstance(i) PROVE WMTypeOK'
    <2>1. WithStatus(container[i], "exited") \in ContainerType
      BY Updates
    <2>2. container' \in [Instances -> ContainerType]
      <3>1. container' = container \/ container' = [container EXCEPT ![i] = WithStatus(container[i], "exited")]
        BY <1>8 DEF StopInstance
      <3> QED BY <2>1, <3>1
    <2>3. instances' \in [Instances -> TrackedType]
      BY <1>8, RecordedType DEF StopInstance
    <2>4. batch' \in CmdMaps
      BY <1>8, TakeCommand DEF StopInstance
    <2>5. faults' \in 0 .. MaxFaults
      BY <1>8 DEF StopInstance
    <2> QED BY <1>8, <2>2, <2>3, <2>4, <2>5 DEF StopInstance
  <1>9. ASSUME NEW i \in Instances, DeleteInstance(i) PROVE WMTypeOK'
    BY <1>9, TakeCommand DEF DeleteInstance
  <1>10. CASE FinishBatch
    BY <1>10, NoCmdsType DEF FinishBatch
  <1>11. ASSUME NEW i \in Instances, ProbeStep(i) PROVE WMTypeOK'
    <2>1. PICK s \in {"running", "error"} : ProbeVerdict(i, s)
      BY <1>11 DEF ProbeStep, ProbeReady, ProbeExited, ProbeTimeout
    <2> QED BY <2>1, RecordedType DEF ProbeVerdict
  <1>12. CASE UNCHANGED wmVars
    BY <1>12 DEF wmVars
  <1> QED
    BY <1>1, <1>2, <1>3, <1>4, <1>5, <1>6, <1>7, <1>8, <1>9, <1>10, <1>11, <1>12
       DEF WMNext, WMInternal, BatchStep, ApplyCommand

\* The initial state is typed.
LEMMA InitTyped == WMInit => WMTypeOK
  <1>1. 0 \in 0 .. MaxFaults
    BY WorkerAssumption
  <1> QED BY <1>1, Records, NoCmdsType DEF WMInit, WMTypeOK

\* The manager's state always has the types of its dictionaries and tasks.
THEOREM WorkerTyping == WMSpec => []WMTypeOK
  BY InitTyped, TypeStep, PTL DEF WMSpec

(***************************************************************************)
(* The inductive invariant.  Each step has the conjuncts of WMInv that it  *)
(* can disturb; types come from TypeStep.                                  *)
(***************************************************************************)

\* Reads off a NoCur and a Working record.
LEMMA CurFields ==
    /\ NoCur.id = {} /\ NoCur.phase = "idle"
    /\ \A ph, i, c : /\ Working(ph, i, c).phase = ph
                    /\ Working(ph, i, c).id = {i}
                    /\ Working(ph, i, c).cmd = c
  BY DEF NoCur, Working

\* Commands have a runner and a dead process has no tasks, under any step.
LEMMA StructureStep ==
    WMInv /\ [WMNext]_wmVars => CommandsHaveRunner' /\ DownIsEmpty'
  <1> DEFINE Goal == CommandsHaveRunner /\ DownIsEmpty
  <1> SUFFICES ASSUME WMInv, [WMNext]_wmVars PROVE Goal'
    OBVIOUS
  <1> USE DEF WMInv, CommandsHaveRunner, DownIsEmpty
  <1>1. CASE AdoptExisting \/ Crash
    BY <1>1 DEF AdoptExisting, Crash
  <1>2. ASSUME NEW cmds \in CmdMaps, Reconcile(cmds) PROVE Goal'
    BY <1>2 DEF Reconcile
  <1>3. ASSUME NEW i \in Instances, ContainerDies(i) \/ ProbeStep(i) PROVE Goal'
    BY <1>3 DEF ContainerDies, ProbeStep, ProbeReady, ProbeExited, ProbeTimeout, ProbeVerdict
  <1>4. ASSUME NEW i \in Instances, TakeStart(i) \/ StopInstance(i) \/ DeleteInstance(i)
        PROVE  Goal'
    BY <1>4 DEF TakeStart, StopInstance, DeleteInstance
  <1>5. ASSUME NEW i \in Instances, CreateContainer(i) \/ StartContainer(i) PROVE Goal'
    <2>1. cur # NoCur
      BY <1>5, CurFields DEF CreateContainer, StartContainer
    <2> QED BY <1>5, <2>1 DEF CreateContainer, StartContainer
  <1>6. CASE FinishBatch
    BY <1>6 DEF FinishBatch
  <1>7. CASE UNCHANGED wmVars
    BY <1>7 DEF wmVars
  <1> QED
    BY <1>1, <1>2, <1>3, <1>4, <1>5, <1>6, <1>7
       DEF WMNext, WMInternal, BatchStep, ApplyCommand

\* Probes, containers and reported generations under any step.
LEMMA ProbeStepInv ==
    WMInv /\ [WMNext]_wmVars =>
        Probing' /\ StartingIsProbed' /\ Creating' /\ ReportedGenIsReal'
  <1> DEFINE Goal == Probing /\ StartingIsProbed /\ Creating /\ ReportedGenIsReal
  <1> SUFFICES ASSUME WMInv, [WMNext]_wmVars PROVE Goal'
    OBVIOUS
  <1> USE DEF WMInv, WMTypeOK, Probing, StartingIsProbed, Creating, ReportedGenIsReal
  <1>1. CASE AdoptExisting
    BY <1>1 DEF AdoptExisting, Adopted, Untracked, Tracked, DownIsEmpty
  <1>2. CASE Crash
    BY <1>2, CurFields DEF Crash, Untracked
  <1>3. ASSUME NEW cmds \in CmdMaps, Reconcile(cmds) PROVE Goal'
    <2>1. CASE busy
      BY <1>3, <2>1 DEF Reconcile
    <2>2. CASE ~busy
      <3>1. cur.id = {} /\ pendingProbes = {}
        BY <2>2, CurFields DEF CommandsHaveRunner
      <3> QED BY <1>3, <2>2, <3>1 DEF Reconcile
    <2> QED BY <2>1, <2>2
  <1>4. ASSUME NEW i \in Instances, ContainerDies(i) PROVE Goal'
    BY <1>4 DEF ContainerDies, WithStatus, Container
  <1>5. ASSUME NEW i \in Instances, TakeStart(i) PROVE Goal'
    <2>1. batch[i] # NoCmd /\ \A j \in Instances \ {i} : batch'[j] = batch[j]
      BY <1>5 DEF TakeStart, MayGoNext, NoCmd, CmdMaps
    <2>2. /\ cur.id = {} /\ cur.phase = "idle"
          /\ \/ cur' = cur /\ container' = container
             \/ /\ cur'.id = {i} /\ cur'.phase = "start"
                /\ \A j \in Instances \ {i} : container'[j] = container[j]
      BY <1>5, CurFields DEF TakeStart
    <2>3. UNCHANGED <<instances, probe, pendingProbes, busy>>
      BY <1>5 DEF TakeStart
    <2>4. batch'[i] = NoCmd
      BY <1>5 DEF TakeStart, CmdMaps
    <2>5. Probing'
      BY <2>1, <2>2, <2>3, <2>4
    <2>6. StartingIsProbed' /\ ReportedGenIsReal'
      BY <2>2, <2>3
    <2>7. Creating'
      BY <2>2, <2>4
    <2> QED BY <2>5, <2>6, <2>7
  <1>6. ASSUME NEW i \in Instances, CreateContainer(i) PROVE Goal'
    <2>1. cur.id = {i} /\ i \notin pendingProbes /\ \A j \in Instances \ {i} : cur.id # {j}
      BY <1>6 DEF CreateContainer
    <2>2. /\ UNCHANGED <<pendingProbes, busy, batch>>
          /\ i \notin probe' /\ probe' \subseteq probe /\ probe \subseteq probe' \cup {i}
      BY <1>6 DEF CreateContainer
    <2>3. \A j \in Instances \ {i} : instances'[j] = instances[j] /\ container'[j] = container[j]
      BY <1>6 DEF CreateContainer, StartError
    <2>4. \/ /\ cur'.id = {} /\ cur'.phase = "idle"
             /\ instances'[i].state = "error"
          \/ /\ cur'.id = {i} /\ cur'.phase = "run" /\ cur'.cmd = cur.cmd
             /\ i \notin Gated /\ instances' = instances
             /\ container'[i].status = "created" /\ container'[i].gen = cur.cmd.gen
      BY <1>6, CurFields DEF CreateContainer, StartError, Tracked, Container
    <2>5. Probing'
      <3>1. /\ pendingProbes' # {} => busy'
            /\ probe' \cap pendingProbes' = {}
        BY <2>2
      <3>2. ASSUME NEW j \in probe' \cup pendingProbes'
            PROVE  instances'[j].state = "starting" /\ j \notin Gated
        BY <2>1, <2>2, <2>3
      <3>3. ASSUME NEW j \in pendingProbes' PROVE batch'[j] = NoCmd /\ cur'.id # {j}
        BY <2>1, <2>2, <2>4
      <3> QED BY <3>1, <3>2, <3>3
    <2>6. StartingIsProbed'
      <3> SUFFICES ASSUME NEW j \in Instances, instances'[j].state = "starting"
                   PROVE  j \in probe' \/ (j \in pendingProbes' /\ busy') \/ cur'.id = {j}
        OBVIOUS
      <3>1. CASE j = i
        BY <2>4, <3>1
      <3>2. CASE j # i
        BY <2>1, <2>2, <2>3, <3>2
      <3> QED BY <3>1, <3>2
    <2>7. Creating'
      <3> SUFFICES ASSUME NEW j \in Instances, cur'.id = {j}
                   PROVE  /\ batch'[j] = NoCmd
                          /\ cur'.phase = "run" =>
                               /\ j \notin Gated /\ j \notin probe'
                               /\ container'[j].status = "created"
                               /\ container'[j].gen = cur'.cmd.gen
        BY DEF Creating
      <3>1. j = i /\ cur'.id # {}
        BY <2>4
      <3>2. batch[i] = NoCmd
        BY <2>1 DEF Creating
      <3> QED BY <2>2, <2>4, <3>1, <3>2
    <2>8. ReportedGenIsReal'
      <3> SUFFICES ASSUME NEW j \in Instances, instances'[j].state \in {"starting", "running"},
                          cur'.id # {j}
                   PROVE  container'[j].status # "none" /\ container'[j].gen = instances'[j].gen
        OBVIOUS
      <3>1. j # i
        BY <2>4
      <3> QED BY <2>1, <2>3, <3>1
    <2> QED BY <2>5, <2>6, <2>7, <2>8
  <1>7. ASSUME NEW i \in Instances, StartContainer(i) PROVE Goal'
    <2>1. /\ cur.id = {i} /\ i \notin pendingProbes /\ i \notin probe /\ i \notin Gated
          /\ \A j \in Instances \ {i} : cur.id # {j}
          /\ batch[i] = NoCmd
          /\ container[i].gen = cur.cmd.gen /\ container[i].status = "created"
      BY <1>7 DEF StartContainer
    <2>2. busy
      BY <2>1, CurFields DEF CommandsHaveRunner
    <2>3. UNCHANGED <<busy, probe, batch>> /\ cur'.id = {} /\ cur'.phase = "idle"
      BY <1>7, CurFields DEF StartContainer, StartError
    <2>4. \A j \in Instances \ {i} : instances'[j] = instances[j] /\ container'[j] = container[j]
      BY <1>7 DEF StartContainer, StartError
    <2>5. \/ /\ pendingProbes' = pendingProbes \cup {i}
             /\ instances'[i].state = "starting" /\ instances'[i].gen = cur.cmd.gen
             /\ container'[i].status = "running" /\ container'[i].gen = container[i].gen
          \/ /\ pendingProbes' = pendingProbes
             /\ instances'[i].state = "error"
      BY <1>7 DEF StartContainer, StartError, Tracked, WithStatus, Container
    <2>6. Probing'
      BY <2>1, <2>2, <2>3, <2>4, <2>5
    <2>7. StartingIsProbed'
      <3> SUFFICES ASSUME NEW j \in Instances, instances'[j].state = "starting"
                   PROVE  j \in probe' \/ (j \in pendingProbes' /\ busy')
        OBVIOUS
      <3>1. CASE j = i
        BY <2>2, <2>3, <2>5, <3>1
      <3>2. CASE j # i
        BY <2>1, <2>3, <2>4, <2>5, <3>2
      <3> QED BY <3>1, <3>2
    <2>8. Creating'
      <3>1. \A j \in Instances : cur'.id # {j}
        BY <2>3
      <3> QED BY <3>1 DEF Creating
    <2>9. ReportedGenIsReal'
      <3> SUFFICES ASSUME NEW j \in Instances, instances'[j].state \in {"starting", "running"}
                   PROVE  container'[j].status # "none" /\ container'[j].gen = instances'[j].gen
        OBVIOUS
      <3>1. CASE j = i
        BY <2>1, <2>5, <3>1
      <3>2. CASE j # i
        BY <2>1, <2>4, <3>2
      <3> QED BY <3>1, <3>2
    <2> QED BY <2>6, <2>7, <2>8, <2>9
  <1>8. ASSUME NEW i \in Instances, StopInstance(i) \/ DeleteInstance(i) PROVE Goal'
    <2>1. batch[i] # NoCmd /\ batch'[i] = NoCmd /\ \A j \in Instances \ {i} : batch'[j] = batch[j]
      BY <1>8 DEF StopInstance, DeleteInstance, NoCmd, CmdMaps
    <2>2. cur.id = {} /\ UNCHANGED <<cur, pendingProbes, busy>> /\ probe' = probe \ {i}
      BY <1>8, CurFields DEF StopInstance, DeleteInstance
    <2>3. \A j \in Instances \ {i} : instances'[j] = instances[j] /\ container'[j] = container[j]
      BY <1>8 DEF StopInstance, DeleteInstance, Recorded
    <2>4. instances'[i].state \in {"none", "stopped"}
      BY <1>8 DEF StopInstance, DeleteInstance, Recorded, WithState, Tracked, Untracked
    <2>5. Probing'
      BY <2>1, <2>2, <2>3
    <2>6. StartingIsProbed' /\ Creating' /\ ReportedGenIsReal'
      BY <2>2, <2>3, <2>4
    <2> QED BY <2>5, <2>6
  <1>9. ASSUME NEW i \in Instances, ProbeStep(i) PROVE Goal'
    <2>1. PICK s \in {"running", "error"} : ProbeVerdict(i, s)
      BY <1>9 DEF ProbeStep, ProbeReady, ProbeExited, ProbeTimeout
    <2>2. i \in probe /\ probe' = probe \ {i} /\ UNCHANGED <<pendingProbes, busy, batch, cur, container>>
      BY <2>1 DEF ProbeVerdict
    <2>3. \A j \in Instances \ {i} : instances'[j] = instances[j]
      BY <2>1 DEF ProbeVerdict, Recorded
    <2>4. instances[i].state = "starting" /\ instances'[i].state = s /\ instances'[i].gen = instances[i].gen
      BY <2>1, <2>2 DEF ProbeVerdict, Recorded, WithState, Tracked
    <2>5. i \notin pendingProbes
      BY <2>2
    <2>6. Probing'
      BY <2>2, <2>3, <2>5
    <2>7. StartingIsProbed' /\ Creating' /\ ReportedGenIsReal'
      BY <2>2, <2>3, <2>4
    <2> QED BY <2>6, <2>7
  <1>10. CASE FinishBatch
    BY <1>10, CurFields DEF FinishBatch, Stale
  <1>11. CASE UNCHANGED wmVars
    BY <1>11 DEF wmVars
  <1> QED
    BY <1>1, <1>2, <1>3, <1>4, <1>5, <1>6, <1>7, <1>8, <1>9, <1>10, <1>11
       DEF WMNext, WMInternal, BatchStep, ApplyCommand

(***************************************************************************)
(* The theorems.                                                           *)
(***************************************************************************)

\* WMInv holds initially and every step keeps it.
THEOREM WorkerInvariant == WMSpec => []WMInv
  <1>1. WMInit => WMInv
    <2> SUFFICES ASSUME WMInit PROVE WMInv
      OBVIOUS
    <2>1. WMTypeOK
      BY InitTyped
    <2>2. CommandsHaveRunner /\ DownIsEmpty
      BY DEF WMInit, CommandsHaveRunner, DownIsEmpty
    <2>3. Probing /\ StartingIsProbed /\ Creating /\ ReportedGenIsReal
      BY CurFields DEF WMInit, Probing, StartingIsProbed, Creating, ReportedGenIsReal, Untracked
    <2> QED BY <2>1, <2>2, <2>3 DEF WMInv
  <1>2. WMInv /\ [WMNext]_wmVars => WMInv'
    BY TypeStep, StructureStep, ProbeStepInv DEF WMInv
  <1> QED
    BY <1>1, <1>2, PTL DEF WMSpec

\* An instance recorded as starting always has a probe, live or queued behind the
\* running batch, or is just being replaced: _apply_batch never forgets one.
THEOREM StartingAlwaysProbed == WMSpec => []StartingIsProbed
  <1>1. WMInv => StartingIsProbed
    BY DEF WMInv
  <1> QED BY <1>1, WorkerInvariant, PTL

\* Commands accepted by reconcile always belong to a running batch task.
THEOREM CommandsAlwaysRun == WMSpec => []CommandsHaveRunner
  <1>1. WMInv => CommandsHaveRunner
    BY DEF WMInv
  <1> QED BY <1>1, WorkerInvariant, PTL

\* A starting or running instance is reported at the generation of its container,
\* through crashes, adoption and failing Docker calls.
THEOREM ReportedGenAlwaysReal == WMSpec => []ReportedGenIsReal
  <1>1. WMInv => ReportedGenIsReal
    BY DEF WMInv
  <1> QED BY <1>1, WorkerInvariant, PTL

=============================================================================
