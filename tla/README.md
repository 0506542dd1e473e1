# A TLA+ development for Inferna

Inferna serves language models from GPU hosts. One server keeps the desired state
in a database and proxies inference requests; one worker process per host starts
and stops engine containers. This directory holds TLA+ models of the parts of that
system that decide control, TLC configurations that check them on small instances,
and TLAPS proofs for instances of any size.

Paths below are relative to the repository: `server/` is `server/inferna_server/`,
`worker/` is `worker/inferna_worker/`.

## 1. Inventory

| Component | State | Operations | What makes it hard |
|---|---|---|---|
| Instance manager, `worker/engines/manager.py` | the instances it knows, probe tasks, the running batch, coalesced commands; Docker's containers outlive it | adopt, reconcile, apply a batch, start, stop, delete, sweep, probe, report | a batch runs in a thread beside probes and RPCs; the process dies between any two Docker calls; Docker errors are swallowed |
| Control plane rows, `server/services/workers_svc.py`, `server/api/instances.py`, `server/api/workers.py`, `server/grpc_server.py` | `workers`, `model_instances` | deploy, stop, restart, delete, remove worker, Register, Sync, watchdog | unlocked read-modify-write of `generation`; a partial unique index over ports; a watchdog that decides on an old read |
| Reconcile loop, `worker/main.py` | worker id and token, the call in flight | register, report, receive commands, back off | lost requests and responses, restarts, requests of a dead process |
| Gateway, `server/api/gateway.py` | active count and last assignment per replica | choose, reserve, resolve, check quota, send, relay, account, release | many concurrent requests; exits by exception and cancellation; late finalisation of generators |
| Usage, `server/services/usage.py` | in-memory buffer, `usage_records` | record, flush, merge back, quota check, final flush | requests during a flush, failing flushes, deleted parents, shutdown in mid-flush, reads across an await |
| Prefix cache, `server/services/prefix_cache.py` | ring of served prompts per replica | record, overlap, expire | state of replicas that are gone |
| Scheduler, `server/services/scheduler.py` | none (reads rows under row locks) | port, GPU and host choice, parallel groups | several replicas placed on one snapshot; memory and ports given out twice; refusals without need |
| Deployments and scaling, `server/services/scaling.py`, `server/api/deployments.py` | `deployments` with its window, `model_instances` | deploy, scale, set range, delete | decisions on rows loaded before the lock; broken and half-stopped groups; mixed windows |
| Autoscaler, `server/services/autoscaling.py` | cooldown stamps | read signal, decide, tick | ticks against scaling by hand, swallowed failures |
| Registration and clusters, `server/services/workers_svc.py`, `server/api/clusters.py`, `server/api/workers.py`, `worker/main.py` | `workers`, `clusters`, tokens | register, retry, sync the hostname, delete | unlocked lookup by name and hostname, lost responses, deletion in between |
| Upstream guard, `server/services/upstream_guard.py`, end of `_resolve_target` | none | normalise, resolve, validate, pin | DNS changes between validation and connection |
| Users, keys, last-used stamps, models, `server/api/users.py`, `keys.py`, `models.py`, `gateway.py`, `server/main.py` | `users`, `api_keys`, `models`, the dirty dictionary | create, delete, revoke, stamp, flush, re-queue, seed | overlapping calls without locks; a row lock held for the length of a stream; shutdown in mid-flush; upgrades |
| Dashboards, metrics, configuration, GPU detection, engine command lines, frontend, benchmarks, scripts, migrations | rows of others, or none | reads, wiring | nothing concurrent of interest |

How they interact: an operator's request changes rows; the worker polls (`Sync`)
with what it runs and gets commands computed from rows and report; the manager
applies them in the background and its next report closes the loop. The gateway
reads the same rows to route, and asks the usage service for the quota and for
accounting. The full list of hazards, each at its line and with the properties
aimed at it, is `hazards` in `PROJECT.json`.

## 2. Modules

| Module | Models |
|---|---|
| `Fleet` | ids, ports, generations and the messages of `proto/cluster.proto` |
| `WorkerManager` | `InstanceManager` in Docker mode against arbitrary commands |
| `ControlPlane` | the instance rows of a worker and every handler that writes them, against an arbitrary worker |
| `ReconcileLoop` | both, joined by `run_loop`, with lossy RPCs and crashes; it implements each of them |
| `Gateway` | a request from the choice of a replica to the release of its slot |
| `SlotPool` | what `Gateway` promises about slots; `Gateway` implements it |
| `Usage` | counting, flushing and the daily quota |
| `Scheduler`, `Autoscaler` | placement and the scaling policy, as operators |
| `Scaling` | one deployment, its instances and the calls and ticks that scale it; extends both |
| `UpstreamGuard` | which addresses are accepted and what a connection is pinned to, as operators |
| `Registration` | the workers of a cluster, from Register to a connection the gateway makes; extends `UpstreamGuard` |
| `Access` | users, API keys, last-used stamps and the model catalogue |
| `WorkerManager_proofs`, `ControlPlane_proofs`, `ReconcileLoop_proofs`, `Gateway_proofs`, `Usage_proofs`, `Scaling_proofs`, `Registration_proofs`, `Access_proofs` | theorems about the module each is named after |
| `MC...` | the values TLC gives to the constants |

### WorkerManager

`instances` is `_instances` (state, generation, port, rank), `probe` the live entries
of `_probe_tasks`, `pendingProbes` is `_pending_probes`, `busy` says that
`_batch_task` runs, `batch` holds the commands it has not taken up and `pending` is
`_pending`. `container` is Docker's view and survives `Crash`.

A start is three actions, because the process can die between its Docker calls:
`TakeStart` (idempotency check, removal of the old container), `CreateContainer`
(token check, cancellation of the old probe, pull, create) and `StartContainer`
(start, record, queue the probe). Stop and delete are one action each. `FinishBatch`
is the end of `_apply_batch`: sweep, creation of the queued probes, and the start of
a batch from `_pending`. `MayGoNext` is its sort: starts first, higher ranks first
within each kind, any order otherwise. Every Docker call may fail; the model follows
what the code does then, which for stop, remove and sweep is to ignore it. `PortTaken`
and `ContainerDies` are Docker's behaviour and not the repository's.

Both probe kinds have the same outcomes (ready, exited, deadline), so one set of
actions stands for both.

### ControlPlane

`row` is `model_instances` with `life` for inserted and deleted, and `mine` for
`worker_id`. `stale` abstracts `last_seen_at` to "older than the limit". Stop and
restart are two actions, `BeginRequest` (the SELECT) and `CommitRequest`, because
nothing locks the row in between; `Written` follows the ORM, which sends only the
columns that differ from what was read. The watchdog is two actions for the same
reason. A deploy is `BeginDeploy`, which locks the worker row (`FOR UPDATE`) and chooses
the port, and `CommitDeploy`; `placing` holds what is between them. Sync, Register, the
watchdog's commit and the deletion of the worker write that row and wait for the lock;
stop, restart and the deletion of an instance do not. A restart can therefore claim the
port in between, and the deploy ends in a 409. A commit that breaks the port index writes
nothing (`CommitDeploy`, `CommitRequest`, `SyncFails`).

`SerialApi` says whether stop and restart requests may overlap.

### ReconcileLoop

`wire` is the one Sync call in flight. `WorkerCrash` leaves a request on its way to
the server; `RegisterWorker` rotates the token, so such a request is then refused.
`RemoveWorker` makes the token bad for ever: `run_loop` never registers again.

### Gateway

Each request is a record with a phase; what lies between two awaits is one action.
`rows` is what the request read before it took the lock. `Reserve` is the critical
section. After the hand-off the slot is owned by the response's background task
(`BackgroundRelease`) and the accounting by the finally block of `_relay`
(`FinishRelay`); when the client hangs up the two come in either order. `upstream` is what
became of the call to the engine, which decides whether the request is accounted.

### Usage

`pending` is `_PENDING`, `swapped` what a flush took out, `db` the rows. `accepted`,
`lost` and `dropped` are history variables that no action reads. A flush that fails is
merged back (`FlushFails`), unless the rollback raises too (`RollbackFails`). `BeginCheck` and `DecideQuota`
are the two sides of the await in `usage_today`. `ShutDown` is the cancellation of
the flush loop: it merges nothing back, because `CancelledError` is not an
`Exception`, but the commit may have gone through. `down` is final; the models of
a restart would begin with the rows and an empty buffer, which is `UsageInit` with
other rows.

### Scheduler, Autoscaler, Scaling

`Scheduler` works on a snapshot: connected hosts, free memory per GPU, reserved ports.
`PlaceReplica` is one round of the loop of `allocate_replicas` with its three passes
(a host the group does not use, a GPU it does not use, any GPU), best fit within each.
The allocation is all or nothing: the first replica that finds no place raises, and nothing
of the request is placed.
`allocate_parallel_replicas` takes the roomiest hosts, the head being the roomiest one
with an address. `Autoscaler` compares loads with their targets as levels, so that
`hist_p95` keeps what it does at a boundary: the first band with 95% of the finite
buckets decides, and what lies beyond the last bucket is not counted.

In `Scaling` a call is three actions, because two things happen without a lock: `Begin...`
(the plain SELECT, which also fixes the window the call will use), `LockAndDecide` (row
lock, instances read again, decision) and `CommitScale`, `FailScale` or `LeakTick`.
`txn` holds what was read under the lock, so that the properties can compare the rows
after the commit with those before. `Sent` follows the ORM (only changed columns).
`LeakTick` is a tick whose allocation was refused after it changed rows: nothing rolls
back, and the commit of a later deployment of the same pass stores them. A unit is an
instance or all ranks of a group, and is named after its first row.

### UpstreamGuard, Registration

An address is its kind (none, malformed, http, https) and a host that is a name or an IP;
the parsing that finds these is not modelled. The host is what `_extract_host` reads from the
normalised address, so an IPv6 literal whose first group it takes for a name is a name. The
environment is production, development or neither, which `resolve_and_validate` and the rule
for https treat in three ways. A DNS answer is a sequence of IPs, and
changes under `DnsChanges` between `Route`, `Resolve` and `Connect`.

`Registration` splits `register_worker` where other transactions can come in:
`LookupWorker` (validation of the address and the lookup by both, hostname, name),
`CheckNames` (what is free; the row is then locked by the flush of the new values),
`Registered`, `ResponseLost` or `RegisterFails`. A token is represented by the process
that holds it. `DELETE /clusters` is three steps: count, load, delete with its cascade.

### Access

Every API call is authenticated and reads in one action and commits in another; a gateway
request authenticates (`GetApiKey`), makes its first query (`FirstQuery`, which flushes
the stamp set on its own session and so takes the lock of the key's row) and ends
(`EndRequest`, the session is rolled back). `lock` says who has the row. The background
flush takes the rows one by one (`FlushWrite`) and waits for those that are locked.
`latest` and `raced` are history variables no action reads. `Boot` seeds users and the
catalogue of the release that starts, which may be another one.

### What the models abstract

- Error texts, log tails, GPU rows and host data are left out. No decision depends on them.
- `statuses()` is one step. Per instance this is exact; between instances the real
  report can mix moments, and a dictionary change during the iteration raises an
  error that only skips one iteration.
- The Sync handler is one transaction: its SELECTs see one state of the rows. In
  `Registration` its check of the token and its write of the hostname are one step; a takeover
  in between lets the old process write its hostname once more.
- In `Registration` the lookup of a registration is one step, the deletion of a cluster is not
  refused for live instances, and a registration that found no row in a cluster deleted since
  may be stored in a new one of that name, where the code fails and tries again. The last two
  add behaviours and take none away.
- One worker host: an instance belongs to one host for its whole life, and the
  handlers touch the rows of one host at a time.
- In `ReconcileLoop` Register is its successful outcome; how it finds its row, and how
  it fails, is `Registration`. The refusal of an old worker version is not modelled.
- `Scaling` has one deployment; reports are the transitions a worker can cause
  (`NextStates`), generations are `ControlPlane`'s. A load is a level.
- In `Access` the cascade of a user's deletion takes the locks of the keys in one step,
  and the pool of database connections is not bounded. A deployment of a model comes in one
  step; the deletion of the model is the side of that race with two. Passwords, token expiry and
  per-user limits are left out, as is the synthetic administrator of `auth_enabled = false`.
- Heads of multi-node groups are treated like single instances; followers have
  no port and a rank.
- A graceful worker shutdown ends at some point of the batch, which is a `Crash`.
- The mock engine mode is not modelled.
- In the gateway, prefix overlap is none or some; the framework is assumed to run
  the background task of a response once its body is over. It would skip it after an exception
  that `_relay` does not handle (`gateway.py:625`), such as one raised by `resp.aclose()` at its
  end; the slot would then be lost for good.
- In the usage model one counter stands for four that are always added together, the
  API key is folded into its user, and the limit is on requests.

## 3. Runs

| Run | Instance | Shows |
|---|---|---|
| `worker` | 2 instances, 1 port, 2 generations, 2 faults; 1.1 million states | `StartingIsProbed`, `CommandsHaveRunner`, `ReportedGenIsReal`, and the inductive invariant `WMInv`, against any commands |
| `worker_live` | a gated instance and a follower, 1 generation, 1 fault | `StartingResolves`, `CommandsAreApplied` |
| `reconcile` | 1 instance, 3 generations, 2 faults; 0.8 million states | `RestsInAgreement`, `WorkerNotAhead`, `NoRestartStorm`, `DetachedStaysDetached`, and that the loop implements `WMSpec` |
| `reconcile_two` | 2 instances on 1 port, one of them through 3 generations; 0.14 million states | `PortsUnique` and `Converges`, with mixed batches, deploys that lose their port to a restart, and Syncs that fail on the port index |
| `reconcile_live` | 1 instance, 2 overlapping clients, 2 generations, 1 fault; 0.46 million states | `Converges`, `DeletedIsCleaned` |
| `gateway` | 2 replicas, 2 requests, 1 prompt; 0.33 million states | `SlotsExact`, `AccountedOnce`, `SpreadEvenly`, and that the gateway implements `SlotPool`, its liveness included: every slot is given back |
| `usage` | 2 users (one limited, and the same one deletable), 1 model, 3 requests, 2 days, 1 fault | `Conservation`, `NeverOvercounts`, `PersistedIfNoneDeleted` |
| `scaling` | 4 hosts, 5 GPUs of three sizes, 3 ports, up to 4 instances in up to 3 units, groups of 2, 2 overlapping calls, 1 report at most between a lock and its commit; 0.37 million states | `PlacementSound` (memory and ports, spreading, one rank per host, no refusal without need), and of a commit `ScaleReaches` (the count, and nothing left to do for the same request again), `ServingStopsLast`, `GroupsStayWhole`, `CountInWindow` |
| `registration` | 3 workers, two with one name and two on one machine, 3 rows, 1 fault, 1 deletion, one name whose DNS answer moves, 2 policies; 0.5 million states | `AloneNeverConflicts`, `TakesOverOwnRow`, `TokenLostKnowingly`, `Registers`, `ConnectsWhereAllowed` |
| `access` | 2 administrators, 3 names, 2 keys, 2 models, 2 catalogues, 2 calls, 2 requests, 1 fault; 0.41 million states | `NewestStampKept`, `AdminKept`, `BuiltinNamesReserved`, `StampsArrive`, `CallsReturn` |

Bounds. Two generations are needed for a command of an old generation to meet a
newer row, three for a restart while the worker is two behind. Two faults allow a
crash after a Docker error, or two crashes. One port for two instances makes every
port conflict possible; `reconcile_two` lets one of them be stopped and restarted (three
generations, which a restart against a deploy needs), deploys the other, and leaves deletions
to the runs with one instance (`Competing`). Two requests are enough for every pair of steps of the
gateway to interleave; the theorems cover any number. Two buffer keys with two users
and two days let the buffer fill up and drop. Two overlapping
calls are what every race in scaling and in the user and key handlers needs: one that
reads, one that commits in between; with reports, stops and restarts of instances as
further steps. Three units let a scale-in choose between units that serve and units that
do not. The GPUs have sizes that make best fit, spreading and the choice of a head
disagree. Three workers are the smallest set in which one shares the name of a second
and the machine of a third. Two keys, one of them issued at the start, and two requests
let a stamp come while a flush of an older one waits or fails. `MaxGen`, `MaxFaults`,
`MaxDay`, `MaxInst`, `MaxUnits`, `MaxCalls`, `MaxBroken`, `MaxRows`, `MaxRemoved`, `MaxReqs` and
`MaxClock` are bounds of the models and not of the code, and occur only in guards and types
(`MaxReplicas` is 8 in the schemas and 3 here).

The types of all modules with state are proved. The runs check those of scaling,
registration and access by name, because they contain the constraints of the tables, that
of the manager as part of `WMInv`, and leave the others to the proofs.

Deadlock is not checked in the usage runs, where `down` ends the model, and in `scaling`,
`registration` and `access`, where the bounded calls, faults and requests run out.

Some properties state their exception, because the code has it: `ScaleReaches` (a
restarted unit comes on top of the count), `CountInWindow` (calls that
loaded a window or a count that has changed since, and ticks that find the count outside
the window, where stops, restarts and removals of single instances can take it),
`Converges` and `DeletedIsCleaned` (see Fairness), `NewestStampKept` and `StampsArrive` (stamps
that died with a process or with a flush cancelled at shutdown), `PersistedIfNoneDeleted` (a
rollback that raises), `AdminKept` (two deletions that both counted first) and `AloneNeverConflicts` (a lookup that
another write overtook).

Where the repository says something that the code does not do, a run shows it:

| Run | The repository says | TLC finds |
|---|---|---|
| `port_wedge` | `docs/architecture.md:115` "The worker is authoritative for live reality" | the watchdog fails an instance, it is stopped, its port is given away, and the worker reports it alive: the port index refuses every Sync of that host |
| `usage_poison` | `services/usage.py:6` "A crash loses at most one interval of traffic" | a deleted user's buffered aggregate breaks a foreign key at every flush; nobody's usage is stored |

Four more disagreements were met while modelling and proving and have no run of their own.
`services/scaling.py:86` says a stop's "generation bump tells the worker to tear down the
container"; Sync sends no stop for an instance reported in error, so the container of a
replica that failed its probe runs on. `docs/fault-matrix.md:13` says that a killed head
"reports `error`"; the probe ends with the first 200, so an engine that dies later stays
`running`. `services/scaling.py:55` says that there is "no deadlock cycle"; the flush of
stopped instances before the workers are locked is the reverse of the order in which a
Sync takes them, and PostgreSQL would have to abort one of the two.
`services/autoscaling.py:5` says that the autoscaler "moves at most one replica per tick";
when stops, restarts or removals of single instances have taken the count out of the window,
the clamp of `apply_scale` (`services/scaling.py:67`) adds to the step, and one tick moves two
replicas or more. The proof of `CountInWindow` did not go through without this exception.

### Fairness

`WMFairness` and `Fairness` assume that the event loops and threads run what is
runnable, that a dead worker process is started again (by an operator or a
supervisor: `docs/fault-matrix.md:15` does it with `docker restart inferna-worker`,
and nothing in the repository does it by itself), and that every probe ends (each has a deadline). `ServeSync` and
`ReceiveSync` are strongly fair: calls may be lost any number of times, but the loop
retries for ever and a network that is up infinitely often lets one through. Nothing
is assumed about operators, watchdog or faults, and faults are finitely many; only a
deploy that has locked the worker row ends (`CommitDeploy` is weakly fair).
`GWFairSpec` assumes that every wait of a request ends: DNS, database, connect and
upstream idle timeouts bound the waits; that engines end their streams and clients read
or hang up is assumed. `UsageFairSpec` assumes the 30-second loop and a database
that answers, with success or an error.

`SPSpec` asks that a slot that was taken is given back; `GWFairSpec` implies it.
`RgFairSpec` assumes that a started worker goes on registering (`run_loop` retries with a
back-off for ever) and that its Syncs are served. `AccessFairSpec` has one weak fairness
condition, on all steps the server can take by itself together: calls and requests that
began, and the flush. Each can happen a bounded number of times, so nothing is starved
that could go on, and nothing is assumed about which comes first. That a request ends is in
part an assumption: the gateway cuts off an upstream that falls silent for an hour
(`STREAM_IDLE_TIMEOUT_SECONDS`), but has no total deadline, and a client that stops reading is
cut off only by the nginx in front of it, not on port 8000. `StampsArrive` and `CallsReturn`
hold as far as answers end; a stream that never does keeps the row of its key locked.
Faults, restarts, clocks and new calls are not fair.

`Converges` says two things: from some point on every assigned instance is in the state and
generation asked for, and again and again the rows say so too, with the worker connected, also
after the watchdog has failed it on an old read (`Believed`). It compares generations with
`>=`: of two overlapping requests that store the same generation only one is carried out.
`Converges` and `DeletedIsCleaned` leave out two cases. A worker whose own row was deleted has
a token that stays bad until it restarts (`Talking`). And a worker whose report the port index
refuses gets no answer for as long as the instance it reports is alive (`Wedged`, the case that
`port_wedge` shows); with two instances `Converges` is false without this exception.

## 4. Proofs

All theorems hold for every value of the constants that satisfies the modules' ASSUMEs.
These say that a set is finite where the code counts it (instances, requests, hosts, GPUs,
ports, users, keys), that markers such as `None` and `Plain` are not values they stand
beside, that a bound is a natural number, and that what the code takes from a
configuration has its type: GPUs belong to hosts, names are not IP addresses, the DNS
answers are sequences of IP addresses, the first administrators have different names.
Nothing bounds a set's size.

Every proof has the same shape: an inductive invariant, defined at the end of the model,
one lemma per action or small group of actions that it is kept, and from it the
properties. TLC checked each invariant on the instance of its run before it was proved.

**WorkerManager_proofs.** `StartingIsProbed` and `ReportedGenIsReal` are not
inductive. A probe that outlived its instance could decide a later start, and a
container between create and start must be known to carry the generation in hand.
`WMInv` adds `Probing` (a probe, live or queued, is about an instance that is still
starting, and a queued one has no further command in the batch), `Creating` (what a
start in progress has left in Docker) and `DownIsEmpty`. `WorkerInvariant` proves it
action by action; `StartingAlwaysProbed`, `CommandsAlwaysRun` and
`ReportedGenAlwaysReal` follow, for arbitrary commands.

**ControlPlane_proofs.** `CPInv` joins `PortsUnique` with `DetachedIsDown` (a row without
a worker is not live, so the reads of a Sync never bring it back), `RequestsFit` (a
request between its SELECT and its commit has room for the generation it will write) and
`PlacementFits` (a deploy between its two steps is about a row that does not exist yet).
The second half of `PortsUnique` (`OnlyRestarted` in the proof) is kept because every step
that could make a row live again on the chosen port waits for the lock.
`PortsAlwaysUnique` and `DetachedForGood` hold for a worker that may report anything.

**ReconcileLoop_proofs.** `LoopImplementsWorker` and `LoopImplementsServer` show step by
step that every behaviour of the loop is one of the manager and one of the control plane,
so what is proved of the parts holds in the whole (`PartsKeepTheirPromises`).
`WorkerNotAhead` and `NoRestartStorm` need all three: `LoopInv` orders the generations
of the row, of the request or answer on the wire, and of the worker's batch, queue and
instances. With requests one at a time (`SerialApi`) nothing is ahead of its row, and
commands that are still to come never undo what has reached the row's generation
(`GenerationsAlwaysGrow`: a row's generation does not fall, and rises with each change).
`AlwaysRestsInAgreement` is what can be proved of `Converges` without fairness. It joins the
rules of `sync_worker` with the manager's invariant: if a report is answered without a
command and no batch or probe is running, then what the worker tracks is what the rows ask
for. The server sends nothing for an instance that is `starting`; that such an instance always
has a probe, and so is not at rest, is the part that the manager's invariant supplies.

**Gateway_proofs.** `GWInv` joins what each phase implies (`PhaseFacts`) with
`SlotsExact`; three lemmas on cardinality (a slot taken, given back, kept) do the
counting. From it follow `SlotsAlwaysExact`, `AlwaysAccountedOnce` (an answered or unreachable
call is accounted once, one that was refused or abandoned before is not), and
`AlwaysSpreadEvenly`: while requests only arrive, a request that reserves has a
minimal replica in a pool that is the whole fleet. `GatewayRefinesSlotPool` shows that every
step takes a slot, gives one back, or leaves the pool of `SlotPool` alone; the fairness
of `SlotPool` is left to the run.

**Usage_proofs.** `UsageInv` joins `Conservation` with `SwapIsOpen` (nothing is
swapped out outside a flush) and `SeenIsOld` (rows a quota check has read only grow
under it). `QuotaNeverOvercounts` follows: rows read earlier plus the buffer read now
are at most rows now plus the buffer now, which is at most what was accepted. In the other
direction `AlwaysExactBetweenFlushes`: counts are lost only with a process or with a rollback
that raises, so while it runs, none has raised and no flush is in progress, rows and buffer are
exactly what was accepted.

**Scaling_proofs.** This proof covers the placement loops for every cluster, model and count.
The library's induction cannot be used, so the loops are unrolled into traces, and a
claim about all rounds is proved by looking at the least round at which it fails
(`LeastIn`). In steps:

1. An order numbers a finite set (`Ranked`, `FirstFew`): best fit, the roomiest hosts, the
   ranks of a group and the oldest units are then well defined.
2. One round of `PlaceReplica` keeps memory and ports within the snapshot and keeps replicas
   apart as far as the hosts allow (`RoundKeeps`, `RoundKeepsApart`); `RoundsKeep`
   carries this to the end of the loop, `ReplicasSound` and `GroupsSound` to the results.
3. A refusal is justified (`StuckJustified`): when a round finds no place, what is free holds
   fewer replicas than were asked for, wherever they are put.
4. `DecideSound` joins these for the decision of a call, `PlanSound` for the plan under the lock.

`ScInv` says that rows are numbered in the order of their insertion, that calls carry what
their kind can ask for, and `LockHeld`: while a call holds the deployment's row, its plan is
the one that the rows as read call for, and no row was inserted since. Without `LockHeld` a
commit could be about rows that are not those of the plan. `CarriedOut` says what a commit
has then done to the rows, and the four properties of a commit follow from it:
`ScaleAlwaysReaches`, `ServingAlwaysLast`, `GroupsAlwaysWhole`, `CountAlwaysInWindow`.
The second half of `ScaleReaches`, that the same request again changes nothing, rests on
`OutcomeCounts`: after the commit no unit is broken, new units are on their way, and limbo is
what it was, so the number that counts is the number asked for.

**Registration_proofs.** `RgInv` joins the two unique indexes (`RowsUnique`) with `LooksHold`:
what a registration found stays so until somebody else writes. From it, a registration
that nobody disturbed meets no index (`AloneNeverRefused`) and takes a token only with a row
that is its own by machine or name (`TakesOverByRight`). `PinsAllowed` carries the guard's
verdict over the change of DNS between resolution and connection (`GuardHolds`), in every
environment but development.

**Access_proofs.** `StampsInOrder` (stored, in flight and noted stamps of a key follow
each other in time) makes `NewestStampKept` inductive through failed and repeated
flushes. `DeletesCounted` (a deletion that has counted leaves another administrator, unless two
raced) does so for `AdminKept`, `DropsCustom` (a deletion of a model that is under way is
not about a builtin row) for `BuiltinNamesReserved`. `RoomIsKept` is about the bound on
identifiers and `CallsOnlyUp` about restarts.
Two theorems are the safety core of the liveness properties. `QuietAlwaysStored`: when no
flush is in progress and nothing is noted, every newest stamp is in the table, so `StampsArrive`
can only fail by a flush that never runs. `LocksNeverCycle`: a request has a row lock only
while it relays and waits for no row, and the flush never waits for a row that it has, so a
call that waits for a row waits, at most through the flush, for requests that relay. The
deletion of a user takes the rows of its keys in one step here; in the database the cascade
takes them one after the other and can meet a flush that has one of them and waits for
another, and the database then aborts one of the two (`FlushFails`, or an error of the call).

Only model-checked, because fairness and ENABLED are beyond the prover: `StartingResolves`,
`CommandsAreApplied`, `Converges`, `DeletedIsCleaned`, the liveness part of
`ImplementsSlotPool`, `PersistedIfNoneDeleted`, `Registers`, `StampsArrive` and
`CallsReturn`. Every other property of a passing run is a theorem. `GenerationsGrow`,
`QuietMeansStored`, `NoWaitCycle`, `ExactBetweenFlushes` and the refinement of `CPSpec` are
stated in the models and proved; no configuration lists them.

## 5. Not modelled

- The mock engine mode of the manager, and GPU occupancy sampling: no control depends on them.
- Rings and block chains of the prefix cache: the gateway uses only whether there is an overlap.
- The strings behind addresses, headers, bodies and engine command lines.
- Row locks of scaling, Sync, the watchdog and deletions one by one: a cycle is broken by the
  database, which aborts a transaction, and that outcome is modelled.
- A commit whose outcome is unknown to the client (lost acknowledgement): the flush of
  usage would then count its rows again.
- The pool of database connections, of which each streaming request holds one.
- Endpoints that only read; metrics; migrations; frontend; benchmarks; scripts.

## 6. Plan

Every component that decides control has a module, and every safety and action property of
a passing run has a theorem. What is left:

1. Shorter proofs: the lemmas on orders and counting that `Scaling_proofs`,
   `Access_proofs` and `Gateway_proofs` share in substance could be stated once.
2. A run for the tick that moves more than one replica, with stops of single instances
   and a window wide enough.
