--------------------------- MODULE ControlPlane ----------------------------
(***************************************************************************)
(* The server side of the reconcile protocol: the worker row and the       *)
(* instance rows of the database, and every handler that writes them       *)
(* (server/inferna_server/services/workers_svc.py, api/instances.py,       *)
(* api/workers.py).                                                        *)
(*                                                                         *)
(* One worker host is modelled: an instance is assigned to one worker for  *)
(* its whole life (or to none once the worker row is deleted), so hosts    *)
(* do not interact through these handlers.                                 *)
(*                                                                         *)
(* The environment is arbitrary here: the worker may report anything.      *)
(* Module ReconcileLoop replaces it by the worker.                         *)
(***************************************************************************)
EXTENDS Fleet

CONSTANTS
    Clients,     \* concurrent callers of the stop and restart endpoints
    SerialApi    \* TRUE: a stop or restart begins only when no other is running

ASSUME ServerAssumption == SerialApi \in BOOLEAN

VARIABLES
    row,      \* model_instances: one record per id
    worker,   \* the workers row: "absent", "connected" or "disconnected"
    stale,    \* last_seen_at is older than the disconnect limit
    doomed,   \* the watchdog has read the worker as stale and will commit
    api,      \* stop/restart requests between their SELECT and their COMMIT
    placing   \* the deploy that has locked the worker row, and the port it chose

cpVars == <<row, worker, stale, doomed, api, placing>>

LIVE_STATES == {"scheduled", "starting", "running"}

\* A row that was never inserted, and one that was deleted.
NoRow(life) == [life |-> life, mine |-> FALSE, desired |-> "stopped",
                state |-> "stopped", gen |-> 0, port |-> 0]
RowType == [life : {"unborn", "live", "gone"},
            mine : BOOLEAN,                  \* worker_id is the worker's
            desired : {"running", "stopped"},
            state : LIVE_STATES \cup {"stopped", "error"},
            gen : Gens,
            port : PortValues]

Idle == [op |-> "none", id |-> {}, desired |-> "stopped", gen |-> 0]
Request(op, i) == [op |-> op, id |-> {i}, desired |-> row[i].desired, gen |-> row[i].gen]
NotPlacing == [id |-> {}, port |-> 0]

CPTypeOK ==
    /\ row \in [Instances -> RowType]
    /\ worker \in {"absent", "connected", "disconnected"}
    /\ stale \in BOOLEAN
    /\ doomed \in BOOLEAN
    /\ api \in [Clients -> [op : {"none", "stop", "restart"}, id : SUBSET Instances,
                            desired : {"running", "stopped"}, gen : Gens]]
    /\ placing \in [id : SUBSET Instances, port : PortValues]

CPInit ==
    /\ row = [i \in Instances |-> NoRow("unborn")]
    /\ worker = "absent"
    /\ stale = FALSE
    /\ doomed = FALSE
    /\ api = [c \in Clients |-> Idle]
    /\ placing = NotPlacing

(***************************************************************************)
(* Ports.  The scheduler avoids the ports it takes for reserved; the       *)
(* database has a unique index (worker_id, port) over the active rows, and *)
(* a commit that breaks it raises IntegrityError and rolls back.           *)
(***************************************************************************)
PORT_RESERVED(r) == r.mine /\ (r.desired = "running" \/ r.state \in LIVE_STATES)

Indexed(r) == r.mine /\ r.port # 0 /\ (r.desired = "running" \/ r.state \in LIVE_STATES)
PortClash(rows) ==
    \E i, j \in Instances :
        i # j /\ Indexed(rows[i]) /\ Indexed(rows[j]) /\ rows[i].port = rows[j].port

FreePorts == {p \in Ports : \A i \in Instances : PORT_RESERVED(row[i]) => row[i].port # p}
AllocPort == CHOOSE p \in FreePorts : \A q \in FreePorts : p <= q

(***************************************************************************)
(* REST handlers.                                                          *)
(***************************************************************************)

\* POST /model-instances, up to its commit: the connected worker's row is locked
\* and the lowest free port chosen (none for a follower rank).  Whoever writes the
\* worker row then waits; stop, restart and delete do not write it.
BeginDeploy(i) ==
    /\ placing = NotPlacing
    /\ row[i].life = "unborn"
    /\ worker = "connected"
    /\ i \in Followers \/ FreePorts # {}
    /\ placing' = [id |-> {i}, port |-> IF i \in Followers THEN 0 ELSE AllocPort]
    /\ UNCHANGED <<row, worker, stale, doomed, api>>

\* Its commit: one new row of generation 1, or 409 and nothing written if the
\* port was taken by a restart meanwhile (IntegrityError).
CommitDeploy(i) ==
    /\ placing.id = {i}
    /\ placing' = NotPlacing
    /\ LET rows == [row EXCEPT ![i] =
                      [life |-> "live", mine |-> TRUE, desired |-> "running",
                       state |-> "scheduled", gen |-> 1, port |-> placing.port]]
       IN  row' = IF PortClash(rows) THEN row ELSE rows
    /\ UNCHANGED <<worker, stale, doomed, api>>

\* The SELECT of a stop or restart request.  A stop of an instance that is
\* already desired stopped returns at once.
BeginRequest(c, op, i) ==
    /\ api[c] = Idle
    /\ SerialApi => \A d \in Clients : api[d] = Idle
    /\ row[i].life = "live"
    /\ op = "stop" => row[i].desired # "stopped"
    /\ row[i].gen < MaxGen
    /\ api' = [api EXCEPT ![c] = Request(op, i)]
    /\ UNCHANGED <<row, worker, stale, doomed, placing>>

\* Mutant: a stop resets the generation.
WrittenAfresh(q, i) ==
    [row[i] EXCEPT !.gen = IF q.op = "stop" THEN 0 ELSE q.gen + 1,
                   !.desired = IF q.op = "stop" THEN "stopped" ELSE "running"]

\* The row a request writes: generation is the value read plus one, and the
\* ORM sends desired_state only if it differs from the value read.
Written(q, i) ==
    LET want == IF q.op = "stop" THEN "stopped" ELSE "running"
    IN  [row[i] EXCEPT !.gen = q.gen + 1,
                       !.desired = IF q.desired = want THEN @ ELSE want]

\* The COMMIT: nothing is written if the row is gone by now, or if the port
\* of a restarted instance was given away meanwhile (IntegrityError).
CommitRequest(c, i) ==
    /\ api[c].op # "none" /\ api[c].id = {i}
    /\ api' = [api EXCEPT ![c] = Idle]
    /\ LET rows == [row EXCEPT ![i] = Written(api[c], i)]
       IN  row' = IF row[i].life = "live" /\ ~PortClash(rows) THEN rows ELSE row
    /\ UNCHANGED <<worker, stale, doomed, placing>>

\* DELETE /model-instances/{id}.
DeleteRow(i) ==
    /\ row[i].life = "live"
    /\ row' = [row EXCEPT ![i] = NoRow("gone")]
    /\ UNCHANGED <<worker, stale, doomed, api, placing>>

\* DELETE /workers/{id}: live instances become errors, all are detached.
DeleteWorker ==
    /\ worker # "absent" /\ placing = NotPlacing
    /\ worker' = "absent"
    /\ stale' = FALSE
    /\ doomed' = FALSE
    /\ row' = [i \in Instances |->
         IF ~row[i].mine THEN row[i]
         ELSE [row[i] EXCEPT !.mine = FALSE,
                 !.state = IF @ \in LIVE_STATES THEN "error" ELSE @]]
    /\ UNCHANGED <<api, placing>>

(***************************************************************************)
(* gRPC handlers and the watchdog.                                         *)
(***************************************************************************)

\* Register: the row of this host is created, or reused with a new token.
Register ==
    /\ placing = NotPlacing
    /\ worker' = "connected"
    /\ stale' = FALSE
    /\ UNCHANGED <<row, doomed, api, placing>>

\* Mutant: a report is believed whoever the instance is assigned to.
ReportedAnyone(rep) == [i \in Instances |->
    IF rep[i].state # "none"
      THEN [row[i] EXCEPT !.state = rep[i].state,
                          !.port = IF rep[i].port # 0 THEN rep[i].port ELSE @]
      ELSE row[i]]

\* The rows after a report: the worker's word is taken for state and port of
\* every instance that is assigned to it.
Reported(rep) == [i \in Instances |->
    IF row[i].mine /\ rep[i].state # "none"
      THEN [row[i] EXCEPT !.state = rep[i].state,
                          !.port = IF rep[i].port # 0 THEN rep[i].port ELSE @]
      ELSE row[i]]

\* Mutants: a restart is not compared by generation; unknown instances are ignored.
NeedsStartIfStopped(i, rep) ==
    row[i].mine /\ row[i].desired = "running" /\ rep[i].state \in {"none", "stopped"}
NeedsNoDelete(i, rep) == FALSE

\* The commands for a report.  Absent instances count as generation 0, stopped.
NeedsStart(i, rep) ==
    /\ row[i].mine /\ row[i].desired = "running"
    /\ rep[i].gen < row[i].gen \/ rep[i].state \in {"none", "stopped"}
NeedsStop(i, rep) ==
    row[i].mine /\ row[i].desired = "stopped" /\ rep[i].state \in {"starting", "running"}
NeedsDelete(i, rep) == ~row[i].mine /\ rep[i].state # "none"

SyncCommand(i, rep) ==
    CASE NeedsStart(i, rep) -> StartCmd(row[i].gen, Reported(rep)[i].port)
      [] NeedsStop(i, rep) -> StopCmd
      [] NeedsDelete(i, rep) -> DeleteCmd
      [] OTHER -> NoCmd
SyncCommands(rep) == [i \in Instances |-> SyncCommand(i, rep)]

\* Mutant: a Sync that does not write the worker row, and so does not wait for its lock.
SyncUnlocked(rep) ==
    /\ worker # "absent"
    /\ ~PortClash(Reported(rep))
    /\ row' = Reported(rep)
    /\ UNCHANGED <<worker, stale, doomed, api, placing>>

\* Sync with a valid token: heartbeat, reported states, commit.
Sync(rep) ==
    /\ worker # "absent" /\ placing = NotPlacing
    /\ ~PortClash(Reported(rep))
    /\ worker' = "connected"
    /\ stale' = FALSE
    /\ row' = Reported(rep)
    /\ UNCHANGED <<doomed, api, placing>>

\* Sync whose commit breaks the port index: everything is rolled back, the
\* heartbeat included, and the worker gets an error.
SyncFails(rep) ==
    /\ worker # "absent" /\ placing = NotPlacing
    /\ PortClash(Reported(rep))
    /\ UNCHANGED cpVars

\* Time: the last heartbeat becomes older than DISCONNECT_AFTER_SECONDS.
HeartbeatAges ==
    /\ worker # "absent" /\ ~stale
    /\ stale' = TRUE
    /\ UNCHANGED <<row, worker, doomed, api, placing>>

\* mark_disconnected, first its SELECT of silent workers, then its COMMIT: the
\* live instances of such a worker become errors, even if it synced in between.
FindStaleWorker ==
    /\ worker = "connected" /\ stale /\ ~doomed
    /\ doomed' = TRUE
    /\ UNCHANGED <<row, worker, stale, api, placing>>

MarkDisconnected ==
    /\ doomed /\ placing = NotPlacing
    /\ doomed' = FALSE
    /\ worker' = "disconnected"
    /\ row' = [i \in Instances |->
         IF row[i].mine /\ row[i].desired = "running" /\ row[i].state \in LIVE_STATES
           THEN [row[i] EXCEPT !.state = "error"] ELSE row[i]]
    /\ UNCHANGED <<stale, api, placing>>

(***************************************************************************)
(* The specification.                                                      *)
(***************************************************************************)
Operator ==
    \/ \E i \in Instances : BeginDeploy(i) \/ CommitDeploy(i) \/ DeleteRow(i)
    \/ \E c \in Clients, i \in Instances :
         BeginRequest(c, "stop", i) \/ BeginRequest(c, "restart", i) \/ CommitRequest(c, i)

CPNext ==
    \/ Operator
    \/ DeleteWorker
    \/ Register
    \/ HeartbeatAges
    \/ FindStaleWorker
    \/ MarkDisconnected
    \/ \E rep \in Reports : Sync(rep) \/ SyncFails(rep)

CPSpec == CPInit /\ [][CPNext]_cpVars

(***************************************************************************)
(* Properties.                                                             *)
(***************************************************************************)

\* No two rows that want to run or are live share a port of the worker, and the port
\* a deploy has chosen is not that of a live engine when it comes to its commit: as
\* the worker row is locked, no report can bring a stopped instance back on it.  A
\* restart takes no lock and can claim the port, so the 409 of a deploy means that an
\* instance which is down has just been asked to run again on that port.
PortsUnique ==
    /\ ~PortClash(row)
    /\ \A j \in Instances :
         placing # NotPlacing /\ Indexed(row[j]) /\ row[j].port = placing.port =>
           row[j].desired = "running" /\ row[j].state \notin LIVE_STATES

\* A row detached from its worker never comes back to life by a report, and a
\* deleted row never returns: what the worker says about them is ignored.
DetachedStaysDetached ==
    [][\A i \in Instances :
         row[i].life # "unborn" /\ ~row[i].mine =>
           ~row'[i].mine /\ row'[i].state \notin LIVE_STATES]_cpVars

(***************************************************************************)
(* The inductive invariant of these handlers.                              *)
(***************************************************************************)
\* A request under way has room for one more generation.
RequestsFit == \A c \in Clients : api[c].op # "none" => api[c].gen < MaxGen

\* A deploy under way is about a row that does not exist yet, and has a port unless
\* the rank needs none.
PlacementFits ==
    \A i \in Instances : placing.id = {i} =>
        row[i].life = "unborn" /\ placing.port \in IF i \in Followers THEN {0} ELSE Ports

\* A row without a worker is not live.
DetachedIsDown ==
    \A i \in Instances : row[i].life # "unborn" /\ ~row[i].mine => row[i].state \notin LIVE_STATES

CPInv == CPTypeOK /\ RequestsFit /\ PlacementFits /\ PortsUnique /\ DetachedIsDown
=============================================================================
