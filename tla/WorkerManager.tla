--------------------------- MODULE WorkerManager ---------------------------
(***************************************************************************)
(* The instance manager of one worker host: class InstanceManager in       *)
(* worker/inferna_worker/engines/manager.py, in its real (Docker) mode.    *)
(*                                                                         *)
(* The manager keeps a dictionary of the instances it knows, applies       *)
(* command batches in a background task (one at a time, later commands     *)
(* are coalesced per instance), starts a probe task for every container it *)
(* started, and loses all of it when the process ends, while the Docker    *)
(* containers survive and are adopted by the next process.                 *)
(*                                                                         *)
(* The environment is arbitrary here: any command for any instance may     *)
(* arrive whenever the process is up.  Module ReconcileLoop replaces it by the *)
(* control plane.                                                          *)
(***************************************************************************)
EXTENDS Fleet

CONSTANTS
    Gated,       \* instances whose model needs an HF token this worker lacks
    MaxFaults    \* bound on Docker errors, container deaths and process crashes
                 \* together

ASSUME WorkerAssumption == Gated \subseteq Instances /\ MaxFaults \in Nat

VARIABLES
    proc,          \* "down" or "up": the worker process
    instances,     \* self._instances; state "none" is an absent key
    probe,         \* instances with a live task in self._probe_tasks
    pendingProbes, \* self._pending_probes
    busy,          \* self._batch_task is running
    batch,         \* commands of the running batch not yet taken up
    cur,           \* the command the batch applies now, and how far it is
    pending,       \* self._pending: commands coalesced for the next batch
    container,     \* Docker's view: survives the process
    faults         \* faults injected so far

wmVars == <<proc, instances, probe, pendingProbes, busy, batch, cur, pending,
            container, faults>>

(***************************************************************************)
(* Data.                                                                   *)
(***************************************************************************)
Untracked == [state |-> "none", gen |-> 0, port |-> 0, rank |-> 0]
Tracked(s, g, p, r) == [state |-> s, gen |-> g, port |-> p, rank |-> r]
WithState(t, s) == Tracked(s, t.gen, t.port, t.rank)
NoContainer == [status |-> "none", gen |-> 0, port |-> 0]
Container(s, g, p) == [status |-> s, gen |-> g, port |-> p]
WithStatus(c, s) == Container(s, c.gen, c.port)
NoCur == [phase |-> "idle", id |-> {}, cmd |-> NoCmd]
Working(ph, i, c) == [phase |-> ph, id |-> {i}, cmd |-> c]

TrackedType == [state : {"none", "starting", "running", "stopped", "error"},
                gen : Gens, port : PortValues, rank : {0, 1}]
ContainerType == [status : {"none", "created", "running", "exited"},
                  gen : Gens, port : PortValues]
CurType == [phase : {"idle", "start", "run"}, id : SUBSET Instances, cmd : CmdType]

WMTypeOK ==
    /\ proc \in {"down", "up"}
    /\ instances \in [Instances -> TrackedType]
    /\ probe \subseteq Instances
    /\ pendingProbes \subseteq Instances
    /\ busy \in BOOLEAN
    /\ batch \in CmdMaps
    /\ cur \in CurType
    /\ pending \in CmdMaps
    /\ container \in [Instances -> ContainerType]
    /\ faults \in 0 .. MaxFaults

WMInit ==
    /\ proc = "down"
    /\ instances = [i \in Instances |-> Untracked]
    /\ probe = {}
    /\ pendingProbes = {}
    /\ busy = FALSE
    /\ batch = NoCmds
    /\ cur = NoCur
    /\ pending = NoCmds
    /\ container = [i \in Instances |-> NoContainer]
    /\ faults = 0

\* A new state for an instance, if the manager still knows it.
Recorded(i, s) ==
    IF instances[i].state = "none" THEN instances
    ELSE [instances EXCEPT ![i] = WithState(@, s)]

\* An operation may fail while the fault budget lasts.
Fault == faults < MaxFaults /\ faults' = faults + 1
NoFault == UNCHANGED faults

(***************************************************************************)
(* Process start, process end, and Docker on its own.                      *)
(***************************************************************************)

\* Mutant: the generation label is not read.
AdoptedFirstGen(i) ==
    IF container[i].status = "none" THEN Untracked
    ELSE Tracked(IF container[i].status = "running" THEN "running" ELSE "stopped",
                 1, container[i].port, 0)

\* What _adopt_existing_sync records for a managed container: its labels give
\* generation and port, the rank is not in the labels.
Adopted(i) ==
    IF container[i].status = "none" THEN Untracked
    ELSE Tracked(IF container[i].status = "running" THEN "running" ELSE "stopped",
                 container[i].gen, container[i].port, 0)

\* main() builds the manager and adopts the surviving containers; when Docker
\* cannot be listed the exception is logged and nothing is adopted.
AdoptExisting ==
    /\ proc = "down"
    /\ proc' = "up"
    /\ \/ instances' = [i \in Instances |-> Adopted(i)] /\ NoFault
       \/ instances' = instances /\ Fault
    /\ UNCHANGED <<probe, pendingProbes, busy, batch, cur, pending, container>>

\* The process ends at any point (crash, kill or shutdown): memory is lost,
\* containers are not.
Crash ==
    /\ proc = "up"
    /\ proc' = "down"
    /\ instances' = [i \in Instances |-> Untracked]
    /\ probe' = {}
    /\ pendingProbes' = {}
    /\ busy' = FALSE
    /\ batch' = NoCmds
    /\ cur' = NoCur
    /\ pending' = NoCmds
    /\ Fault
    /\ UNCHANGED container

\* An engine container exits by itself (or is killed).
ContainerDies(i) ==
    /\ container[i].status = "running"
    /\ container' = [container EXCEPT ![i] = WithStatus(@, "exited")]
    /\ Fault
    /\ UNCHANGED <<proc, instances, probe, pendingProbes, busy, batch, cur, pending>>

(***************************************************************************)
(* reconcile and the batch task.                                           *)
(***************************************************************************)

\* Commands of one Sync response: coalesced into _pending while a batch runs
\* (the latest command of an instance wins), a new batch otherwise.
Reconcile(cmds) ==
    /\ proc = "up"
    /\ IF busy
         THEN /\ pending' = [i \in Instances |->
                               IF cmds[i].act = "none" THEN pending[i] ELSE cmds[i]]
              /\ UNCHANGED <<busy, batch>>
         ELSE /\ busy' = TRUE
              /\ batch' = cmds
              /\ UNCHANGED pending
    /\ UNCHANGED <<proc, instances, probe, pendingProbes, cur, container, faults>>

\* The order of _apply_batch: starts first, then stops and deletes, higher ranks
\* first within each; the sort is stable, and the order of the server's list is
\* unspecified.
MayGoNext(i) ==
    /\ batch[i].act # "none"
    /\ \A j \in Instances : batch[j].act # "none" =>
         \/ batch[i].act = "start" /\ batch[j].act # "start"
         \/ /\ (batch[i].act = "start") = (batch[j].act = "start")
            /\ instances[j].rank <= instances[i].rank

\* Mutant: a start is applied even if its generation already runs.
TakeStartAlways(i) ==
    /\ busy /\ cur = NoCur /\ MayGoNext(i) /\ batch[i].act = "start"
    /\ batch' = [batch EXCEPT ![i] = NoCmd]
    /\ cur' = Working("start", i, batch[i])
    /\ container' = [container EXCEPT ![i] = NoContainer] /\ NoFault
    /\ UNCHANGED <<proc, instances, probe, pendingProbes, busy, pending>>

\* The batch takes up its next start command: an instance that is already
\* starting or running at this generation or above is left alone, otherwise
\* the old container is removed (an error there is swallowed).
TakeStart(i) ==
    /\ busy /\ cur = NoCur /\ MayGoNext(i) /\ batch[i].act = "start"
    /\ batch' = [batch EXCEPT ![i] = NoCmd]
    /\ \/ /\ instances[i].state \in {"starting", "running"}
          /\ instances[i].gen >= batch[i].gen
          /\ UNCHANGED <<cur, container>> /\ NoFault
       \/ /\ \/ instances[i].state \notin {"starting", "running"}
             \/ instances[i].gen < batch[i].gen
          /\ cur' = Working("start", i, batch[i])
          /\ IF instances[i].state = "none"
               THEN UNCHANGED container /\ NoFault
               ELSE \/ container' = [container EXCEPT ![i] = NoContainer] /\ NoFault
                    \/ UNCHANGED container /\ Fault
    /\ UNCHANGED <<proc, instances, probe, pendingProbes, busy, pending>>

\* The error record every failing path of _start_sync leaves behind.
StartError(i) ==
    /\ instances' = [instances EXCEPT ![i] =
                       Tracked("error", cur.cmd.gen, cur.cmd.port, 0)]
    /\ cur' = NoCur

\* The middle of _start_sync: no HF token is an error (the old probe is left
\* running); otherwise the old probe is cancelled, the image is pulled and the
\* container is created.  The pull or the create may fail, and the create does
\* fail when a container of that name still exists.
CreateContainer(i) ==
    /\ cur.phase = "start" /\ cur.id = {i}
    /\ \/ /\ i \in Gated
          /\ StartError(i)
          /\ UNCHANGED <<probe, container>> /\ NoFault
       \/ /\ i \notin Gated
          /\ probe' = probe \ {i}
          /\ \/ /\ container[i].status = "none"
                /\ container' = [container EXCEPT ![i] =
                                   Container("created", cur.cmd.gen, cur.cmd.port)]
                /\ cur' = Working("run", i, cur.cmd)
                /\ UNCHANGED instances /\ NoFault
             \/ /\ container[i].status # "none"
                /\ StartError(i) /\ UNCHANGED container /\ NoFault
             \/ /\ container[i].status = "none"
                /\ StartError(i) /\ UNCHANGED container /\ Fault
    /\ UNCHANGED <<proc, pendingProbes, busy, batch, pending>>

\* A published host port can be bound by one running container only.
\* Followers run with host networking and publish none.
PortTaken(i) ==
    /\ container[i].port # 0
    /\ \E j \in Instances \ {i} :
         container[j].status = "running" /\ container[j].port = container[i].port

\* The end of _start_sync: container.start(), then the instance is recorded as
\* starting and its probe is queued until the batch ends.
StartContainer(i) ==
    /\ cur.phase = "run" /\ cur.id = {i}
    /\ \/ /\ ~PortTaken(i)
          /\ container[i].status = "created"
          /\ container' = [container EXCEPT ![i] = WithStatus(@, "running")]
          /\ instances' = [instances EXCEPT ![i] =
               Tracked("starting", cur.cmd.gen, cur.cmd.port, RankOf(i))]
          /\ pendingProbes' = pendingProbes \cup {i}
          /\ cur' = NoCur /\ NoFault
       \/ /\ PortTaken(i)
          /\ StartError(i) /\ UNCHANGED <<container, pendingProbes>> /\ NoFault
       \/ /\ ~PortTaken(i)
          /\ StartError(i) /\ UNCHANGED <<container, pendingProbes>> /\ Fault
    /\ UNCHANGED <<proc, probe, busy, batch, pending>>

\* Mutant: the probe of a stopped instance goes on.
StopKeepsProbe(i) ==
    /\ busy /\ cur = NoCur /\ MayGoNext(i) /\ batch[i].act = "stop"
    /\ batch' = [batch EXCEPT ![i] = NoCmd]
    /\ container' = IF container[i].status = "running"
                      THEN [container EXCEPT ![i] = WithStatus(@, "exited")]
                      ELSE container
    /\ instances' = Recorded(i, "stopped")
    /\ UNCHANGED <<proc, probe, pendingProbes, busy, cur, pending, faults>>

\* _stop_sync: cancel the probe, stop the container (errors swallowed), record
\* "stopped" either way; the generation is kept.
StopInstance(i) ==
    /\ busy /\ cur = NoCur /\ MayGoNext(i) /\ batch[i].act = "stop"
    /\ batch' = [batch EXCEPT ![i] = NoCmd]
    /\ probe' = probe \ {i}
    /\ \/ /\ container' = IF container[i].status = "running"
                             THEN [container EXCEPT ![i] = WithStatus(@, "exited")]
                             ELSE container
          /\ NoFault
       \/ container[i].status = "running" /\ UNCHANGED container /\ Fault
    /\ instances' = Recorded(i, "stopped")
    /\ UNCHANGED <<proc, pendingProbes, busy, cur, pending>>

\* _delete_sync: cancel the probe, remove the container (errors swallowed),
\* forget the instance.
DeleteInstance(i) ==
    /\ busy /\ cur = NoCur /\ MayGoNext(i) /\ batch[i].act = "delete"
    /\ batch' = [batch EXCEPT ![i] = NoCmd]
    /\ probe' = probe \ {i}
    /\ \/ container' = [container EXCEPT ![i] = NoContainer] /\ NoFault
       \/ container[i].status # "none" /\ UNCHANGED container /\ Fault
    /\ instances' = [instances EXCEPT ![i] = Untracked]
    /\ UNCHANGED <<proc, pendingProbes, busy, cur, pending>>

\* Containers of instances the manager does not know.
Stale == {i \in Instances : container[i].status # "none" /\ instances[i].state = "none"}

\* Mutant: what was coalesced during the batch is left behind.
FinishBatchForgets ==
    /\ busy /\ cur = NoCur /\ batch = NoCmds
    /\ container' = [i \in Instances |-> IF i \in Stale THEN NoContainer ELSE container[i]]
    /\ probe' = probe \cup pendingProbes
    /\ pendingProbes' = {}
    /\ busy' = FALSE
    /\ UNCHANGED <<proc, instances, batch, cur, pending, faults>>

\* The end of _apply_batch: remove stale containers (an error ends the sweep
\* part way), start the queued probes, then run what was coalesced meanwhile.
FinishBatch ==
    /\ busy /\ cur = NoCur /\ batch = NoCmds
    /\ \/ container' = [i \in Instances |-> IF i \in Stale THEN NoContainer ELSE container[i]]
          /\ NoFault
       \/ \E swept \in SUBSET Stale :
            /\ swept # Stale
            /\ container' = [i \in Instances |-> IF i \in swept THEN NoContainer ELSE container[i]]
            /\ Fault
    /\ probe' = probe \cup pendingProbes
    /\ pendingProbes' = {}
    /\ busy' = (pending # NoCmds)
    /\ batch' = pending
    /\ pending' = NoCmds
    /\ UNCHANGED <<proc, instances, cur>>

(***************************************************************************)
(* Probe tasks: _health_probe and _follower_probe have the same outcomes.  *)
(***************************************************************************)

\* Mutant: the task ends without recording a verdict.
ProbeForgets(i, s) ==
    /\ i \in probe
    /\ probe' = probe \ {i}
    /\ UNCHANGED <<proc, instances, pendingProbes, busy, batch, cur, pending, container, faults>>

\* The verdict is recorded if the instance is still known; the task ends.
ProbeVerdict(i, s) ==
    /\ i \in probe
    /\ probe' = probe \ {i}
    /\ instances' = Recorded(i, s)
    /\ UNCHANGED <<proc, pendingProbes, busy, batch, cur, pending, container, faults>>

\* HTTP 200 from the engine, or a follower container that stayed up.
ProbeReady(i) == container[i].status = "running" /\ ProbeVerdict(i, "running")

\* The container is seen exited.
ProbeExited(i) == container[i].status = "exited" /\ ProbeVerdict(i, "error")

\* The deadline passes.
ProbeTimeout(i) == ProbeVerdict(i, "error")

(***************************************************************************)
(* What the manager reports in a Sync request.                             *)
(***************************************************************************)
Statuses == [i \in Instances |->
    [state |-> instances[i].state, gen |-> instances[i].gen, port |-> instances[i].port]]

(***************************************************************************)
(* The specification.                                                      *)
(***************************************************************************)
ApplyCommand(i) ==
    TakeStart(i) \/ CreateContainer(i) \/ StartContainer(i)
      \/ StopInstance(i) \/ DeleteInstance(i)
BatchStep == FinishBatch \/ \E i \in Instances : ApplyCommand(i)
ProbeStep(i) == ProbeReady(i) \/ ProbeExited(i) \/ ProbeTimeout(i)

\* Everything the manager and Docker do by themselves.
WMInternal ==
    \/ AdoptExisting
    \/ BatchStep
    \/ \E i \in Instances : ProbeStep(i) \/ ContainerDies(i)

WMNext ==
    \/ WMInternal
    \/ Crash
    \/ \E cmds \in CmdMaps : Reconcile(cmds)

WMSpec == WMInit /\ [][WMNext]_wmVars

\* The event loop and the worker threads run what is runnable, a dead worker
\* is started again (docs/fault-matrix.md:15, by hand), every probe has a deadline.
WMFairness ==
    /\ WF_wmVars(AdoptExisting)
    /\ WF_wmVars(BatchStep)
    /\ \A i \in Instances : WF_wmVars(ProbeStep(i))
WMFairSpec == WMSpec /\ WMFairness

(***************************************************************************)
(* Properties.                                                             *)
(***************************************************************************)

\* An instance recorded as starting has a probe that will decide its fate: a
\* live task, or one queued until the running batch ends.  Without it the
\* instance would be reported as starting for ever (reconcile never restarts
\* it, the server sends no command for it).
StartingIsProbed ==
    \A i \in Instances : instances[i].state = "starting" =>
        i \in probe \/ (i \in pendingProbes /\ busy) \/ cur.id = {i}

\* Commands never wait without a runner: whatever is coalesced in _pending, left
\* in the batch, or half applied belongs to a batch task that is running, so
\* "if self._batch_task is not None" never parks a command for good.
CommandsHaveRunner ==
    (pending # NoCmds \/ batch # NoCmds \/ cur # NoCur) => busy

\* The generation reported for a starting or running instance is the generation
\* its container was created for, except while a start is replacing it: this is
\* what lets the server take "running at generation g" as "restart g was applied".
ReportedGenIsReal ==
    \A i \in Instances :
        (instances[i].state \in {"starting", "running"} /\ cur.id # {i}) =>
            (container[i].status # "none" /\ container[i].gen = instances[i].gen)

\* No instance stays in "starting": its probe says running or error, or a command
\* or the end of the process overtakes it.
StartingResolves ==
    \A i \in Instances : instances[i].state = "starting" ~> instances[i].state # "starting"

\* Every command the manager accepted is eventually taken up, replaced by a newer
\* one for the same instance, or lost with the process.
CommandsAreApplied ==
    \A i \in Instances :
        /\ batch[i] # NoCmd ~> batch[i] = NoCmd
        /\ pending[i] # NoCmd ~> pending[i] = NoCmd
(***************************************************************************)
(* The inductive invariant.  Probing ties the probe tasks to the instances *)
(* they decide: a probe, live or queued, is always about an instance that  *)
(* is still recorded as starting.  Creating says what the middle of a      *)
(* start has left in Docker.                                               *)
(***************************************************************************)
\* A probe, live or queued, decides an instance that is still starting.
Probing ==
    /\ pendingProbes # {} => busy
    /\ probe \cap pendingProbes = {}
    /\ \A i \in probe \cup pendingProbes :
         instances[i].state = "starting" /\ i \notin Gated
    /\ \A i \in pendingProbes : batch[i] = NoCmd /\ cur.id # {i}

\* The command in hand is off the batch; between create and start the new
\* container is there, at its generation.
Creating ==
    \A i \in Instances : cur.id = {i} =>
        /\ batch[i] = NoCmd
        /\ cur.phase = "run" =>
             /\ i \notin Gated /\ i \notin probe
             /\ container[i].status = "created" /\ container[i].gen = cur.cmd.gen

\* A dead process has no tasks.
DownIsEmpty == proc = "down" => probe = {} /\ pendingProbes = {} /\ ~busy

\* All of the above together are preserved by every step, whatever commands arrive
\* and whatever Docker does.
WMInv ==
    /\ WMTypeOK
    /\ CommandsHaveRunner
    /\ DownIsEmpty
    /\ Probing
    /\ StartingIsProbed
    /\ Creating
    /\ ReportedGenIsReal
=============================================================================
