--------------------------- MODULE ReconcileLoop ---------------------------
(***************************************************************************)
(* The control plane and one worker, joined by the Register and Sync RPCs  *)
(* of the worker's run_loop (worker/inferna_worker/main.py).               *)
(*                                                                         *)
(* The worker process registers once per life, then repeats: report the    *)
(* statuses, wait for the response, hand its commands to the manager.  The *)
(* request and the response can be lost (RpcError: the loop backs off and  *)
(* sends a new report), the process can die between any two steps, and a   *)
(* request of a dead process may still reach the server.                   *)
(***************************************************************************)
EXTENDS ControlPlane, WorkerManager

VARIABLES
    registered,  \* the process has a worker id and token (run_loop's locals)
    authed,      \* that token is the one stored in the workers row
    wire         \* the Sync call in flight

vars == <<cpVars, wmVars, registered, authed, wire>>

NoReports == [i \in Instances |-> NotReported]
Quiet == [kind |-> "idle", auth |-> FALSE, rep |-> NoReports, cmds |-> NoCmds]
SyncRequest == [kind |-> "request", auth |-> authed, rep |-> Statuses, cmds |-> NoCmds]
SyncResponse(cmds) == [kind |-> "response", auth |-> FALSE, rep |-> NoReports, cmds |-> cmds]

TypeOK ==
    /\ CPTypeOK
    /\ WMTypeOK
    /\ registered \in BOOLEAN
    /\ authed \in BOOLEAN
    /\ wire \in [kind : {"idle", "request", "response"}, auth : BOOLEAN,
                 rep : [Instances -> StatusType], cmds : CmdMaps]

Init ==
    /\ CPInit
    /\ WMInit
    /\ registered = FALSE
    /\ authed = FALSE
    /\ wire = Quiet

(***************************************************************************)
(* The worker's loop.                                                      *)
(***************************************************************************)

\* run_loop registers until it succeeds.  The token is rotated, so a request
\* of an earlier process that is still on its way will be refused.
RegisterWorker ==
    /\ proc = "up" /\ ~registered
    /\ Register
    /\ registered' = TRUE
    /\ authed' = TRUE
    /\ wire' = Quiet
    /\ UNCHANGED wmVars

\* One iteration begins: the statuses are collected and sent.
SendSync ==
    /\ proc = "up" /\ registered /\ wire = Quiet
    /\ wire' = SyncRequest
    /\ UNCHANGED <<cpVars, wmVars, registered, authed>>

\* Mutant: a response replaces what is waiting instead of being coalesced with it.
ReceiveReplaces ==
    /\ wire.kind = "response" /\ proc = "up"
    /\ IF busy THEN pending' = wire.cmds /\ UNCHANGED <<busy, batch>>
       ELSE busy' = TRUE /\ batch' = wire.cmds /\ UNCHANGED pending
    /\ wire' = Quiet
    /\ UNCHANGED <<cpVars, proc, instances, probe, pendingProbes, cur, container, faults,
                   registered, authed>>

\* The response arrives and its commands go to the manager.
ReceiveSync ==
    /\ wire.kind = "response"
    /\ Reconcile(wire.cmds)
    /\ wire' = Quiet
    /\ UNCHANGED <<cpVars, registered, authed>>

\* The request or the response is lost; the worker sees an RpcError.
LoseMessage ==
    /\ wire # Quiet
    /\ wire' = Quiet
    /\ UNCHANGED <<cpVars, wmVars, registered, authed>>

\* The process ends.  A request in flight may still be served, its response
\* has no receiver.
WorkerCrash ==
    /\ Crash
    /\ registered' = FALSE
    /\ authed' = FALSE
    /\ wire' = IF wire.kind = "request" THEN wire ELSE Quiet
    /\ UNCHANGED cpVars

(***************************************************************************)
(* The server's Sync handler.                                              *)
(***************************************************************************)

\* Mutant: the report is stored without the heartbeat.
ServeWithoutHeartbeat ==
    /\ wire.kind = "request" /\ wire.auth
    /\ SyncUnlocked(wire.rep)
    /\ wire' = IF registered THEN SyncResponse(SyncCommands(wire.rep)) ELSE Quiet
    /\ UNCHANGED <<wmVars, registered, authed>>

\* Served: the response goes to the process that asked, if it still lives.
ServeSync ==
    /\ wire.kind = "request" /\ wire.auth
    /\ Sync(wire.rep)
    /\ wire' = IF registered THEN SyncResponse(SyncCommands(wire.rep)) ELSE Quiet
    /\ UNCHANGED <<wmVars, registered, authed>>

\* UNAUTHENTICATED, or INTERNAL after a rolled back commit: the worker backs
\* off and sends its next report with the same token.
RefuseSync ==
    /\ wire.kind = "request"
    /\ \/ ~wire.auth /\ UNCHANGED cpVars
       \/ wire.auth /\ SyncFails(wire.rep)
    /\ wire' = Quiet
    /\ UNCHANGED <<wmVars, registered, authed>>

\* Deleting the worker row invalidates its token, also in a request in flight.
RemoveWorker ==
    /\ DeleteWorker
    /\ authed' = FALSE
    /\ wire' = IF wire.kind = "request" THEN [wire EXCEPT !.auth = FALSE] ELSE wire
    /\ UNCHANGED <<wmVars, registered>>

(***************************************************************************)
(* The specification.                                                      *)
(***************************************************************************)
Worker == WMInternal /\ UNCHANGED <<cpVars, registered, authed, wire>>
Server ==
    /\ Operator \/ HeartbeatAges \/ FindStaleWorker \/ MarkDisconnected
    /\ UNCHANGED <<wmVars, registered, authed, wire>>

Next ==
    \/ Worker \/ WorkerCrash
    \/ Server \/ RemoveWorker
    \/ RegisterWorker \/ SendSync \/ ReceiveSync \/ LoseMessage
    \/ ServeSync \/ RefuseSync

Spec == Init /\ [][Next]_vars

\* The event loops of both processes run what is runnable (a deploy that began comes to
\* its commit) and a dead worker is started again (by hand, docs/fault-matrix.md:15); a
\* Sync that is tried again and again gets through in the end.  Nothing is assumed of
\* operators, and faults are bounded by MaxFaults.
Fairness ==
    /\ WF_vars(AdoptExisting /\ UNCHANGED <<cpVars, registered, authed, wire>>)
    /\ WF_vars(BatchStep /\ UNCHANGED <<cpVars, registered, authed, wire>>)
    /\ \A i \in Instances :
         WF_vars(ProbeStep(i) /\ UNCHANGED <<cpVars, registered, authed, wire>>)
    /\ WF_vars(RegisterWorker)
    /\ WF_vars(SendSync)
    /\ SF_vars(ReceiveSync)
    /\ SF_vars(ServeSync)
    /\ WF_vars(RefuseSync)
    /\ WF_vars(/\ \E i \in Instances : CommitDeploy(i)
               /\ UNCHANGED <<wmVars, registered, authed, wire>>)

FairSpec == Spec /\ Fairness

(***************************************************************************)
(* Safety.                                                                 *)
(***************************************************************************)

\* With stop and restart requests that do not overlap, the worker is never ahead
\* of the database: no tracked instance, container, queued command or report in
\* flight carries a generation above the row's.  If one did, the next restart
\* could produce a generation the worker believes it already runs, and
\* "applied < inst.generation" would skip it silently.
WorkerNotAhead ==
    SerialApi => \A i \in Instances :
        LET known == {instances[i].gen, container[i].gen, batch[i].gen, pending[i].gen,
                      wire.rep[i].gen, wire.cmds[i].gen}
        IN  /\ row[i].life = "live" => \A g \in known : g <= row[i].gen
            /\ cur.id = {i} /\ row[i].life = "live" => cur.cmd.gen <= row[i].gen

\* A healthy engine at the current generation is left alone: while the database
\* wants the instance running at generation g and the worker tracks it as starting
\* or running at g, no step of the loop removes or replaces its container (late
\* duplicate starts, commands computed from an old report and commands coalesced
\* behind a long batch included); it can only exit by itself.
NoRestartStorm ==
    [][\A i \in Instances :
         ( /\ SerialApi
           /\ row[i].mine /\ row[i].desired = "running"
           /\ row'[i] = row[i]
           /\ instances[i].state \in {"starting", "running"}
           /\ instances[i].gen = row[i].gen
           /\ container[i].status = "running" /\ container[i].gen = row[i].gen )
         => \/ container'[i] = container[i]
            \/ container'[i].status = "exited" /\ instances'[i] = instances[i]]_vars

\* What the worker tracks is what the row asks for: decided at the row's generation or a
\* later one, or not live.
Converged(i) ==
    IF row[i].desired = "running"
      THEN instances[i].state \in {"running", "error"} /\ instances[i].gen >= row[i].gen
      ELSE instances[i].state \notin {"starting", "running"}

\* The loop never comes to rest in disagreement: in a state where the worker has no batch
\* and no probe, and its report would be answered without a command, every assigned
\* instance is what its row asks for, a running one with the container of the generation
\* that was asked for, and nothing else is tracked.  So the rules by which sync_worker gives
\* commands leave no case in which each side takes the other for done.
RestsInAgreement ==
    (proc = "up" /\ ~busy /\ probe = {} /\ SyncCommands(Statuses) = NoCmds) =>
        \A i \in Instances :
            IF row[i].mine
            THEN /\ Converged(i)
                 /\ (row[i].desired = "running" /\ instances[i].state = "running") =>
                      /\ container[i].status # "none" /\ container[i].gen = instances[i].gen
                      /\ SerialApi => instances[i].gen = row[i].gen
            ELSE instances[i].state = "none"

\* With requests one at a time, an operator's wish never goes back in time: the generation
\* of a row does not fall, and rises whenever what is wanted changes.
GenerationsGrow ==
    [][SerialApi => \A i \in Instances :
         row[i].life = "live" /\ row'[i].life = "live" =>
           /\ row'[i].gen >= row[i].gen
           /\ row'[i].desired # row[i].desired => row'[i].gen > row[i].gen]_vars

(***************************************************************************)
(* Liveness.  Operators make finitely many changes (generations are        *)
(* bounded) and faults are bounded, so "eventually" is after the last one. *)
(***************************************************************************)

\* The worker's token is good: the process registered and the row was not deleted.
Talking == registered /\ authed

\* What the worker would report now cannot be stored, because of the port index: its
\* Syncs are refused as long as this lasts, and it can last for ever (ReportIsRecordable).
Wedged == PortClash(Reported(Statuses))

\* The server believes the worker: connected, with the states it reports.
Believed ==
    /\ worker = "connected"
    /\ \A i \in Instances :
         row[i].mine /\ Statuses[i].state # "none" => row[i].state = Statuses[i].state

\* Desired state wins: once changes and faults cease, every assigned instance that
\* should run has been decided (running or error) at the row's generation or a later
\* one, and no instance that should be stopped is tracked as starting or running,
\* through lost messages, crashes, adoption and coalesced batches.  And reality wins in
\* the rows: whatever the watchdog has written on an old read, again and again the worker
\* is connected and its instances have the state it reports.  Two exceptions: a worker
\* whose own row was deleted, and one whose report the port index refuses.
Converges ==
    /\ <>[](Talking /\ ~Wedged => \A i \in Instances : row[i].mine => Converged(i))
    /\ []<>(Talking /\ ~Wedged => Believed)

\* A deleted instance leaves no container behind, whatever was queued for it when
\* it was deleted, unless the worker's own row was deleted too, or two other instances
\* clash over a port so that its Syncs are refused.
DeletedIsCleaned ==
    \A i \in Instances :
        row[i].life = "gone" ~>
            container[i].status = "none" \/ (registered /\ ~authed) \/ Wedged

(***************************************************************************)
(* What the documentation says.                                            *)
(***************************************************************************)

\* docs/architecture.md, "The worker is authoritative for live reality": what an
\* authenticated worker reports can always be recorded.
ReportIsRecordable ==
    wire.kind = "request" /\ wire.auth => ~PortClash(Reported(wire.rep))

(***************************************************************************)
(* The inductive invariant of the loop, on top of those of its parts.      *)
(***************************************************************************)

\* A generation the server counted, and a port if the rank has one.
Good(i, x) == x.gen > 0 /\ x.port \in IF i \in Followers THEN {0} ELSE Ports

\* Whatever the server and the worker know of an instance came from a deploy.
RowSound(i) ==
    /\ row[i].mine => row[i].life = "live" /\ Good(i, row[i])
    /\ row[i].life = "unborn" => ~row[i].mine /\ row[i].gen = 0
WorkerSound(i) ==
    /\ instances[i] = Untracked \/ (instances[i].state # "none" /\ Good(i, instances[i]))
    /\ container[i] = NoContainer \/ (container[i].status # "none" /\ Good(i, container[i]))
    /\ cur.id = {i} => cur.cmd.act = "start" /\ Good(i, cur.cmd)
WireSound(i) ==
    wire.rep[i] = NotReported \/ (wire.rep[i].state \in WorkerStates /\ Good(i, wire.rep[i]))

\* A request under way is the only one, and has read the row as it still is.
Serialised ==
    /\ \A c, d \in Clients : c # d /\ api[c] # Idle => api[d] = Idle
    /\ \A c \in Clients : api[c] # Idle =>
         \E i \in Instances :
             /\ api[c].id = {i} /\ row[i].life # "unborn"
             /\ row[i].life = "live" => api[c].gen = row[i].gen

\* The worker, its queues and the wire know no generation above g.
WorkerBelow(i, g) ==
    /\ instances[i].gen <= g /\ container[i].gen <= g
    /\ batch[i].gen <= g /\ pending[i].gen <= g
    /\ cur.id = {i} => cur.cmd.gen <= g
WireBelow(i, g) == wire.rep[i].gen <= g /\ wire.cmds[i].gen <= g

\* Commands reach an instance in the order in which the server gave them: behind a start
\* of generation g, the row's, comes no stop or delete.
Keeps(cmd) == cmd.act \notin {"stop", "delete"}
Reached(i, g) ==
    container[i].gen = g \/ instances[i].gen = g \/ (cur.id = {i} /\ cur.cmd.gen = g)
InOrder(i, g) ==
    /\ Reached(i, g) => Keeps(batch[i]) /\ Keeps(pending[i]) /\ Keeps(wire.cmds[i])
    /\ batch[i].gen = g => Keeps(pending[i]) /\ Keeps(wire.cmds[i])
    /\ pending[i].gen = g => Keeps(wire.cmds[i])

\* Together with the invariants of the parts, this is preserved by every step.
LoopInv ==
    /\ TypeOK /\ CPInv /\ WMInv
    /\ \A i \in Instances : RowSound(i) /\ WorkerSound(i) /\ WireSound(i)
    /\ SerialApi =>
         /\ Serialised
         /\ \A i \in Instances :
              /\ row[i].life # "gone" => WorkerBelow(i, row[i].gen) /\ WireBelow(i, row[i].gen)
              /\ row[i].mine /\ row[i].desired = "running" => InOrder(i, row[i].gen)
=============================================================================
