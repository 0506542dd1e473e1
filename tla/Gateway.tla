------------------------------ MODULE Gateway ------------------------------
(***************************************************************************)
(* The inference gateway: one request from the choice of a replica to the  *)
(* end of its response (_resolve_target, _proxy, _relay and                *)
(* _release_instance in server/inferna_server/api/gateway.py), for one     *)
(* model and several concurrent requests.                                  *)
(*                                                                         *)
(* The requests are tasks of one event loop: what happens between two      *)
(* awaits is one action.  No critical section of _active_lock awaits, so   *)
(* the lock is always free when it is asked for and taking it never        *)
(* suspends.                                                               *)
(***************************************************************************)
EXTENDS Integers, FiniteSets

CONSTANTS
    Replicas,    \* the model's instances
    Requests,    \* the requests; each is made once
    Prompts      \* prompt prefixes worth caching

Plain == "plain"             \* a prompt with no prefix blocks
None == "none"               \* no replica

ASSUME GatewayAssumption ==
    /\ IsFiniteSet(Requests)
    /\ {None, "before", "after"} \cap Replicas = {}
    /\ Plain \notin Prompts

VARIABLES
    fleet,         \* the instance rows: "absent", "live", or "orphan" (no worker)
    active,        \* _active_by_instance, 0 for an absent key
    lastAssigned,  \* _last_assigned, 0 for an absent key
    seq,           \* _assign_seq
    warm,          \* prefix_cache: the prompts a replica recently served
    req            \* the requests

gwVars == <<fleet, active, lastAssigned, seq, warm, req>>

RowSets == [Replicas -> {"absent", "live", "orphan"}]
NoRows == [i \in Replicas |-> "absent"]
Phases == {"new", "routing", "resolving", "quota", "sending", "streaming",
           "hungup", "closing", "released", "done"}

\* client.send not reached, awaited (or cancelled), failed, or response headers came.
Fates == {"unasked", "asked", "unreachable", "answered"}

ReqType == [phase : Phases,
            prompt : Prompts \cup {Plain},
            rows : RowSets,               \* the rows it read, maybe stale by now
            inst : Replicas \cup {None},  \* the replica it reserved
            upstream : Fates,             \* what became of the call to the engine
            bills : Nat]                  \* calls of record_request

GWTypeOK ==
    /\ fleet \in RowSets
    /\ active \in [Replicas -> Nat]
    /\ lastAssigned \in [Replicas -> Nat]
    /\ seq \in Nat
    /\ warm \in [Replicas -> SUBSET Prompts]
    /\ req \in [Requests -> ReqType]

GWInit ==
    /\ fleet \in RowSets
    /\ active = [i \in Replicas |-> 0]
    /\ lastAssigned = [i \in Replicas |-> 0]
    /\ seq = 1
    /\ warm = [i \in Replicas |-> {}]
    /\ req = [c \in Requests |->
         [phase |-> "new", prompt |-> Plain, rows |-> NoRows, inst |-> None,
          upstream |-> "unasked", bills |-> 0]]

(***************************************************************************)
(* The environment: rows come and go, cached prefixes expire or are pushed *)
(* out of their ring.                                                      *)
(***************************************************************************)
FleetChanges(i) ==
    /\ \E s \in {"absent", "live", "orphan"} \ {fleet[i]} : fleet' = [fleet EXCEPT ![i] = s]
    /\ UNCHANGED <<active, lastAssigned, seq, warm, req>>

Expire(i, p) ==
    /\ p \in warm[i]
    /\ warm' = [warm EXCEPT ![i] = @ \ {p}]
    /\ UNCHANGED <<fleet, active, lastAssigned, seq, req>>

(***************************************************************************)
(* Helpers on a request and on the slots.                                  *)
(***************************************************************************)
Moved(c, ph) == [req EXCEPT ![c] = [req[c] EXCEPT !.phase = ph]]
Billed(c, ph) == [req EXCEPT ![c] = [req[c] EXCEPT !.phase = ph, !.bills = req[c].bills + 1]]

\* _release_instance: an absent key counts as 1, so the count never goes below 0.
Release(i) ==
    active' = [active EXCEPT ![i] = IF active[i] > 1 THEN active[i] - 1 ELSE 0]

(***************************************************************************)
(* _resolve_target.                                                        *)
(***************************************************************************)

\* The rows of the model are read; the lock is not held.
ReadRows(c, p) ==
    /\ req[c].phase = "new"
    /\ req' = [req EXCEPT ![c] = [req[c] EXCEPT !.phase = "routing", !.prompt = p,
                                                !.rows = fleet]]
    /\ UNCHANGED <<fleet, active, lastAssigned, seq, warm>>

\* The candidates: replicas that served this prefix if there are any, else all.
Candidates(c) == {i \in Replicas : req[c].rows[i] # "absent"}
Hot(c) == {i \in Candidates(c) : req[c].prompt \in warm[i]}
Pool(c) == IF Hot(c) # {} THEN Hot(c) ELSE Candidates(c)

\* Mutant: the most recently assigned replica first, whatever its load.
PrecedesByStamp(i, j) == lastAssigned[i] >= lastAssigned[j]

\* min by (active requests, last assignment).
Precedes(i, j) ==
    \/ active[i] < active[j]
    \/ active[i] = active[j] /\ lastAssigned[i] <= lastAssigned[j]
Chosen(c, i) == i \in Pool(c) /\ \A j \in Pool(c) : Precedes(i, j)

\* Under the lock: choose, stamp and reserve in one go.
Reserve(c, i) ==
    /\ req[c].phase = "routing"
    /\ Chosen(c, i)
    /\ req[c].rows[i] = "live"
    /\ lastAssigned' = [lastAssigned EXCEPT ![i] = seq]
    /\ seq' = seq + 1
    /\ active' = [active EXCEPT ![i] = active[i] + 1]
    /\ req' = [req EXCEPT ![c] = [req[c] EXCEPT !.phase = "resolving", !.inst = i]]
    /\ UNCHANGED <<fleet, warm>>

\* No candidate, or the chosen one has no worker: 404, nothing reserved.
NoInstance(c) ==
    /\ req[c].phase = "routing"
    /\ \/ Pool(c) = {}
       \/ \E i \in Replicas : Chosen(c, i) /\ req[c].rows[i] = "orphan"
    /\ req' = Moved(c, "done")
    /\ UNCHANGED <<fleet, active, lastAssigned, seq, warm>>

\* The address is resolved and accepted.
Resolve(c) ==
    /\ req[c].phase = "resolving"
    /\ req' = Moved(c, "quota")
    /\ UNCHANGED <<fleet, active, lastAssigned, seq, warm>>

\* Mutant: the slot is not given back when the address is refused.
ResolveLeaks(c) ==
    /\ req[c].phase = "resolving"
    /\ req' = Moved(c, "done")
    /\ UNCHANGED <<fleet, active, lastAssigned, seq, warm>>

\* It is refused, or the request is cancelled meanwhile: the slot is given back
\* before the exception leaves _resolve_target.
ResolveFails(c) ==
    /\ req[c].phase = "resolving"
    /\ Release(req[c].inst)
    /\ req' = Moved(c, "done")
    /\ UNCHANGED <<fleet, lastAssigned, seq, warm>>

(***************************************************************************)
(* _proxy.                                                                 *)
(***************************************************************************)

QuotaOk(c) ==
    /\ req[c].phase = "quota"
    /\ req' = [req EXCEPT ![c] = [req[c] EXCEPT !.phase = "sending", !.upstream = "asked"]]
    /\ UNCHANGED <<fleet, active, lastAssigned, seq, warm>>

\* Every way out of the try block before the hand-off: quota exceeded (429), an
\* error of the quota query, cancellation while waiting for the database or for
\* the upstream.  The request is not accounted.
LeaveUnbilled(c) ==
    /\ req[c].phase \in {"quota", "sending"}
    /\ Release(req[c].inst)
    /\ req' = Moved(c, "done")
    /\ UNCHANGED <<fleet, lastAssigned, seq, warm>>

\* The upstream cannot be reached: accounted as upstream_error, then 502.
SendFails(c) ==
    /\ req[c].phase = "sending"
    /\ Release(req[c].inst)
    /\ req' = [req EXCEPT ![c] = [req[c] EXCEPT !.phase = "done", !.upstream = "unreachable",
                                                !.bills = req[c].bills + 1]]
    /\ UNCHANGED <<fleet, lastAssigned, seq, warm>>

\* The upstream answered: the slot now belongs to the response's background task.
HandOff(c) ==
    /\ req[c].phase = "sending"
    /\ req' = [req EXCEPT ![c] = [req[c] EXCEPT !.phase = "streaming",
                                                !.upstream = "answered"]]
    /\ UNCHANGED <<fleet, active, lastAssigned, seq, warm>>

(***************************************************************************)
(* _relay and the background task.  A relay that waits for the upstream    *)
(* ends there (end of stream, upstream error or cancellation).  One that   *)
(* waits for a client who hangs up is only closed later, when the abandoned *)
(* generator is finalised, maybe after the background task.                *)
(***************************************************************************)
HangUp(c) ==
    /\ req[c].phase = "streaming"
    /\ req' = Moved(c, "hungup")
    /\ UNCHANGED <<fleet, active, lastAssigned, seq, warm>>

\* Mutant: no accounting when the client hung up (as in an earlier version of the code).
FinishRelayUnbilled(c) ==
    /\ req[c].phase \in {"streaming", "hungup", "released"}
    /\ req' = IF req[c].phase = "streaming" THEN Billed(c, "closing")
              ELSE Moved(c, IF req[c].phase = "released" THEN "done" ELSE "closing")
    /\ UNCHANGED <<fleet, active, lastAssigned, seq, warm>>

\* The finally block: the prefix is now resident, the request is accounted.
FinishRelay(c) ==
    /\ req[c].phase \in {"streaming", "hungup", "released"}
    /\ warm' = IF req[c].prompt = Plain THEN warm
               ELSE [warm EXCEPT ![req[c].inst] = warm[req[c].inst] \cup {req[c].prompt}]
    /\ req' = Billed(c, IF req[c].phase = "released" THEN "done" ELSE "closing")
    /\ UNCHANGED <<fleet, active, lastAssigned, seq>>

\* BackgroundTask(_release_instance), run once the body is over.  (The framework leaves it
\* out if the body raises; _relay handles the errors of the stream and the disconnect, and
\* is taken to raise nothing else.)
BackgroundRelease(c) ==
    /\ req[c].phase \in {"closing", "hungup"}
    /\ Release(req[c].inst)
    /\ req' = Moved(c, IF req[c].phase = "hungup" THEN "released" ELSE "done")
    /\ UNCHANGED <<fleet, lastAssigned, seq, warm>>

(***************************************************************************)
(* The specification.                                                      *)
(***************************************************************************)
RequestStep(c) ==
    \/ \E p \in Prompts \cup {Plain} : ReadRows(c, p)
    \/ \E i \in Replicas : Reserve(c, i)
    \/ NoInstance(c)
    \/ Resolve(c) \/ ResolveFails(c)
    \/ QuotaOk(c) \/ LeaveUnbilled(c)
    \/ SendFails(c) \/ HandOff(c)
    \/ HangUp(c) \/ FinishRelay(c) \/ BackgroundRelease(c)

GWNext ==
    \/ \E c \in Requests : RequestStep(c)
    \/ \E i \in Replicas : FleetChanges(i)
    \/ \E i \in Replicas, p \in Prompts : Expire(i, p)

GWSpec == GWInit /\ [][GWNext]_gwVars

\* Every wait of a request ends: DNS, database, connect and upstream idle timeouts bound
\* the waits, and the event loop runs what is runnable.  That engines end their streams and
\* clients read or hang up is assumed: there is no total deadline.
GWFairSpec == GWSpec /\ \A c \in Requests : WF_gwVars(RequestStep(c))

(***************************************************************************)
(* Properties.                                                             *)
(***************************************************************************)

\* The request owns a slot of its replica.
Holds(c) == req[c].phase \in {"resolving", "quota", "sending", "streaming", "hungup", "closing"}
Holders(i) == {c \in Requests : Holds(c) /\ req[c].inst = i}

\* The comment in _proxy, "the slot must be released exactly once on every path":
\* the active count of every replica is exactly the number of requests that own a
\* slot of it.  A path that released twice would take another request's slot away
\* and make a busy replica look idle for good; one that did not would make an idle
\* one look busy for good.
SlotsExact == \A i \in Replicas : active[i] = Cardinality(Holders(i))

\* A request that the engine answered, or for which it could not be reached, is
\* accounted exactly once when it is over, however it ended and whichever of accounting
\* and release came first.  One that was refused before it was sent (no replica, an
\* address that is not allowed, the quota), or cancelled while it waited for the
\* headers, is not accounted at all, and none is before it is over.
AccountedOnce ==
    \A c \in Requests :
        /\ req[c].bills <= 1
        /\ req[c].bills = 1 => req[c].phase \in {"closing", "done"}
        /\ req[c].phase = "done" =>
             (req[c].bills = 1 <=> req[c].upstream \in {"unreachable", "answered"})

\* The comment in _resolve_target, "two concurrent requests must never observe the
\* same (0, 0) snapshot": while plain requests that all saw the whole fleet pile up
\* and none has ended, they spread evenly over the replicas, whatever the order in
\* which they read the rows, choose, and wait for DNS.
SpreadEvenly ==
    (\A c \in Requests : req[c].inst # None =>
        /\ Holds(c)
        /\ req[c].prompt = Plain
        /\ \A i \in Replicas : req[c].rows[i] = "live")
    => \A i, j \in Replicas : active[i] <= active[j] + 1

\* The inductive invariant: what each phase says about the replica, the answer and
\* the account of a request.
FactsOf(r) ==
    /\ r.phase \in {"new", "routing"} => r.inst = None
    /\ r.phase \in {"resolving", "quota", "sending", "streaming", "hungup", "closing",
                    "released"} => r.inst \in Replicas
    /\ r.phase \in {"new", "routing", "resolving", "quota"} => r.upstream = "unasked"
    /\ r.phase = "sending" => r.upstream = "asked"
    /\ r.phase \in {"streaming", "hungup", "closing", "released"} => r.upstream = "answered"
    /\ r.phase \notin {"closing", "done"} => r.bills = 0
    /\ r.phase = "closing" => r.bills = 1
    /\ r.phase = "done" =>
         r.bills = IF r.upstream \in {"unreachable", "answered"} THEN 1 ELSE 0
PhaseFacts == \A c \in Requests : FactsOf(req[c])
GWInv == GWTypeOK /\ PhaseFacts /\ SlotsExact

\* The gateway implements the slot pool: seen as takings and returnings of slots, every
\* path of a request takes one slot at most and returns it once, and it does return it.
Lease(c) ==
    IF Holds(c) THEN req[c].inst
    ELSE IF req[c].phase \in {"new", "routing"} THEN "before" ELSE "after"
Slots == INSTANCE SlotPool WITH Before <- "before", After <- "after", load <- active,
                                lease <- [c \in Requests |-> Lease(c)]
ImplementsSlotPool == Slots!SPSpec
=============================================================================
