------------------------------- MODULE Usage -------------------------------
(***************************************************************************)
(* Usage accounting and the soft daily quota                               *)
(* (server/inferna_server/services/usage.py): requests are counted in an   *)
(* in-memory buffer, a background loop folds the buffer into usage_records, *)
(* and the gateway compares rows plus buffer with the user's limit.        *)
(*                                                                         *)
(* An aggregate has four counters that are always added together (requests, *)
(* tokens in and out, latency); the model keeps one.  The buffer's key is  *)
(* (user, api key, model, day); an api key lives and dies with its user,   *)
(* so the model's key is (user, model, day).                               *)
(***************************************************************************)
EXTENDS Integers, FiniteSets, FiniteSetsExt

CONSTANTS
    Users, Models,
    Limited,           \* users with a request_limit
    Limit,             \* that limit
    MAX_PENDING_KEYS,  \* buffer keys beyond which new ones are dropped
    Deletable,         \* users and models an administrator may delete
    Requests,          \* gateway requests; each is made once
    MaxDay,            \* bound on the number of midnights
    MaxFaults          \* bound on database errors and crashes

ASSUME UsageAssumption ==
    /\ Limited \subseteq Users
    /\ Limit \in Nat
    /\ MAX_PENDING_KEYS \in Nat
    /\ MaxDay \in Nat
    /\ MaxFaults \in Nat

VARIABLES
    mode,      \* the server process: "up", "stopping" or "down"
    today,     \* _today()
    pending,   \* _PENDING; 0 is an absent key
    swapped,   \* the aggregates of the flush in progress
    flushing,  \* flush_usage is between its swap and its end
    db,        \* usage_records
    gone,      \* deleted users and models
    req,       \* the requests
    faults,    \* faults so far
    accepted,  \* history: requests counted into the buffer
    lost,      \* history: counts lost from memory before they were stored
    dropped    \* history: a failed rollback has lost some in a running process

usageVars == <<mode, today, pending, swapped, flushing, db, gone, req, faults,
               accepted, lost, dropped>>

Days == 0 .. MaxDay
Keys == Users \X Models \X Days
Key(u, m, d) == <<u, m, d>>
Alive(k) == k[1] \notin gone /\ k[2] \notin gone
Counts == [Keys -> Nat]
Zero == [k \in Keys |-> 0]
Plus(f, g) == [k \in Keys |-> f[k] + g[k]]
NoneSeen == [m \in Models |-> 0]

ReqType == [phase : {"new", "checking", "admitted", "done"},
            user : Users, model : Models,
            day : Days,               \* the day usage_today asks for
            seen : [Models -> Nat]]   \* what its SELECT returned, per model

UsageTypeOK ==
    /\ mode \in {"up", "stopping", "down"}
    /\ today \in Days
    /\ pending \in Counts /\ swapped \in Counts /\ db \in Counts
    /\ flushing \in BOOLEAN
    /\ gone \subseteq Users \cup Models
    /\ req \in [Requests -> ReqType]
    /\ faults \in 0 .. MaxFaults
    /\ accepted \in Counts /\ lost \in Counts
    /\ dropped \in BOOLEAN

UsageInit ==
    /\ mode = "up"
    /\ today = 0
    /\ pending = Zero /\ swapped = Zero /\ db = Zero
    /\ flushing = FALSE
    /\ gone = {}
    /\ req \in [Requests -> [phase : {"new"}, user : Users, model : Models,
                             day : {0}, seen : {NoneSeen}]]
    /\ faults = 0
    /\ accepted = Zero /\ lost = Zero
    /\ dropped = FALSE

Fault == faults < MaxFaults /\ faults' = faults + 1

(***************************************************************************)
(* Requests.                                                               *)
(***************************************************************************)
Moved(c, ph) == [req EXCEPT ![c] = [req[c] EXCEPT !.phase = ph]]

\* A request of an existing user for an existing model reaches check_quota.
\* Without a limit it goes on; with one, usage_today fixes the day and sums the
\* rows of that day.
BeginCheck(c) ==
    /\ mode = "up" /\ req[c].phase = "new"
    /\ req[c].user \notin gone /\ req[c].model \notin gone
    /\ LET k(m) == Key(req[c].user, m, today)
       IN  req' = IF req[c].user \notin Limited THEN Moved(c, "admitted")
                  ELSE [req EXCEPT ![c] =
                         [req[c] EXCEPT !.phase = "checking", !.day = today,
                            !.seen = [m \in Models |-> db[k(m)]]]]
    /\ UNCHANGED <<mode, today, pending, swapped, flushing, db, gone, faults, accepted,
                   lost, dropped>>

\* The rest of usage_today, after its await: the buffer is added as it is now, and
\* check_quota compares.
Used(c) ==
    MapThenSumSet(LAMBDA m : req[c].seen[m] + pending[Key(req[c].user, m, req[c].day)], Models)

DecideQuota(c) ==
    /\ mode = "up" /\ req[c].phase = "checking"
    /\ req' = Moved(c, IF Used(c) >= Limit THEN "done" ELSE "admitted")
    /\ UNCHANGED <<mode, today, pending, swapped, flushing, db, gone, faults, accepted,
                   lost, dropped>>

\* The client goes away while the quota is read or before the upstream answers:
\* nothing is recorded.
Abandon(c) ==
    /\ mode = "up" /\ req[c].phase \in {"checking", "admitted"}
    /\ req' = Moved(c, "done")
    /\ UNCHANGED <<mode, today, pending, swapped, flushing, db, gone, faults, accepted,
                   lost, dropped>>

Buffered(f) == {k \in Keys : f[k] > 0}

\* record_request: counted under the day it ends on, or dropped if it needs a new
\* key and the buffer is full.
RecordRequest(c) ==
    LET k == Key(req[c].user, req[c].model, today)
    IN  /\ mode = "up" /\ req[c].phase = "admitted"
        /\ req' = Moved(c, "done")
        /\ IF pending[k] = 0 /\ Cardinality(Buffered(pending)) >= MAX_PENDING_KEYS
             THEN UNCHANGED <<pending, accepted>>
             ELSE /\ pending' = [pending EXCEPT ![k] = pending[k] + 1]
                  /\ accepted' = [accepted EXCEPT ![k] = accepted[k] + 1]
        /\ UNCHANGED <<mode, today, swapped, flushing, db, gone, faults, lost, dropped>>

Midnight ==
    /\ today < MaxDay
    /\ today' = today + 1
    /\ UNCHANGED <<mode, pending, swapped, flushing, db, gone, req, faults, accepted,
                   lost, dropped>>

(***************************************************************************)
(* The flush.                                                              *)
(***************************************************************************)

\* A usage record references its user and its model: a row for a deleted one
\* cannot be inserted, and one such row fails the whole transaction.
Insertable(f) == \A k \in Buffered(f) : Alive(k)

\* Mutant: the buffer is copied, not swapped out.
FlushCopies ==
    /\ mode = "up" /\ ~flushing /\ pending # Zero
    /\ flushing' = TRUE
    /\ swapped' = pending
    /\ UNCHANGED <<mode, today, pending, db, gone, req, faults, accepted, lost, dropped>>

\* Mutant: only a full buffer is flushed.
FlushWhenFull ==
    /\ mode = "up" /\ ~flushing /\ Cardinality(Buffered(pending)) >= MAX_PENDING_KEYS
    /\ flushing' = TRUE
    /\ swapped' = pending
    /\ pending' = Zero
    /\ UNCHANGED <<mode, today, db, gone, req, faults, accepted, lost, dropped>>

\* The buffer is swapped out before the first await.
FlushStart ==
    /\ mode = "up" /\ ~flushing /\ pending # Zero
    /\ flushing' = TRUE
    /\ swapped' = pending
    /\ pending' = Zero
    /\ UNCHANGED <<mode, today, db, gone, req, faults, accepted, lost, dropped>>

\* All rows are upserted and committed.
FlushCommit ==
    /\ flushing
    /\ Insertable(swapped)
    /\ flushing' = FALSE
    /\ db' = Plus(db, swapped)
    /\ swapped' = Zero
    /\ UNCHANGED <<mode, today, pending, gone, req, faults, accepted, lost, dropped>>

\* Mutant: the merge overwrites what was counted during the flush.
FlushOverwrites ==
    /\ flushing
    /\ \/ ~Insertable(swapped) /\ UNCHANGED faults
       \/ Insertable(swapped) /\ Fault
    /\ flushing' = FALSE
    /\ pending' = [k \in Keys |-> IF swapped[k] > 0 THEN swapped[k] ELSE pending[k]]
    /\ swapped' = Zero
    /\ UNCHANGED <<mode, today, db, gone, req, accepted, lost, dropped>>

\* Any Exception: roll back and merge the aggregates into the buffer as it is now.
FlushFails ==
    /\ flushing
    /\ \/ ~Insertable(swapped) /\ UNCHANGED faults
       \/ Insertable(swapped) /\ Fault
    /\ flushing' = FALSE
    /\ pending' = Plus(pending, swapped)
    /\ swapped' = Zero
    /\ UNCHANGED <<mode, today, db, gone, req, accepted, lost, dropped>>

\* The rollback raises too (the connection is gone): the merge back is never reached,
\* and what was swapped out is lost although the process goes on.
RollbackFails ==
    /\ flushing
    /\ Fault
    /\ flushing' = FALSE
    /\ lost' = Plus(lost, swapped)
    /\ dropped' = TRUE
    /\ swapped' = Zero
    /\ UNCHANGED <<mode, today, pending, db, gone, req, accepted>>

(***************************************************************************)
(* Deletion and the life of the process.                                   *)
(***************************************************************************)

\* Deleting a user or a model cascades to its usage records.
DeleteParent(x) ==
    /\ x \in Deletable \ gone
    /\ x \in Users \cup Models
    /\ gone' = gone \cup {x}
    /\ db' = [k \in Keys |-> IF x \in {k[1], k[2]} THEN 0 ELSE db[k]]
    /\ UNCHANGED <<mode, today, pending, swapped, flushing, req, faults, accepted, lost, dropped>>

AllOver == [c \in Requests |-> [req[c] EXCEPT !.phase = "done"]]

\* Shutdown cancels the flush loop.  CancelledError is no Exception, so a flush in
\* progress merges nothing back; its commit may just have gone through.
ShutDown ==
    /\ mode = "up"
    /\ mode' = "stopping"
    /\ req' = AllOver
    /\ flushing' = FALSE
    /\ swapped' = Zero
    /\ \/ flushing /\ Insertable(swapped) /\ db' = Plus(db, swapped) /\ UNCHANGED lost
       \/ lost' = Plus(lost, swapped) /\ UNCHANGED db
    /\ UNCHANGED <<today, pending, gone, faults, accepted, dropped>>

\* The final best-effort flush, errors suppressed, and the end of the process.
FinalFlush ==
    /\ mode = "stopping"
    /\ mode' = "down"
    /\ pending' = Zero
    /\ \/ Insertable(pending) /\ db' = Plus(db, pending) /\ UNCHANGED <<lost, faults>>
       \/ ~Insertable(pending) /\ lost' = Plus(lost, pending) /\ UNCHANGED <<db, faults>>
       \/ Insertable(pending) /\ Fault /\ lost' = Plus(lost, pending) /\ UNCHANGED db
    /\ UNCHANGED <<today, swapped, flushing, gone, req, accepted, dropped>>

Crash ==
    /\ mode = "up"
    /\ Fault
    /\ mode' = "down"
    /\ req' = AllOver
    /\ flushing' = FALSE
    /\ lost' = Plus(lost, Plus(pending, swapped))
    /\ pending' = Zero /\ swapped' = Zero
    /\ UNCHANGED <<today, db, gone, accepted, dropped>>

(***************************************************************************)
(* The specification.                                                      *)
(***************************************************************************)
FlushEnd == FlushCommit \/ FlushFails \/ RollbackFails

UsageNext ==
    \/ \E c \in Requests : BeginCheck(c) \/ DecideQuota(c) \/ Abandon(c) \/ RecordRequest(c)
    \/ \E x \in Deletable : DeleteParent(x)
    \/ Midnight
    \/ FlushStart \/ FlushEnd
    \/ ShutDown \/ FinalFlush \/ Crash

UsageSpec == UsageInit /\ [][UsageNext]_usageVars

\* The loop flushes every 30 seconds and the database answers.
UsageFairSpec ==
    UsageSpec /\ WF_usageVars(FlushStart) /\ WF_usageVars(FlushEnd) /\ WF_usageVars(FinalFlush)

(***************************************************************************)
(* Properties.                                                             *)
(***************************************************************************)

\* Nothing is counted twice and nothing disappears: every request counted into the
\* buffer is in exactly one of the rows, the buffer, the flush in progress, and what
\* died with a process or a failed rollback; whatever requests arrive during a flush and
\* however often it fails and is merged back.
Conservation ==
    \A k \in Keys : Alive(k) =>
        accepted[k] = db[k] + pending[k] + swapped[k] + lost[k]

\* A user is never refused early: what usage_today adds up from rows read before
\* its await and the buffer read after it is at most what was really counted for
\* that day, also when a flush moved aggregates from one to the other meanwhile.
NeverOvercounts ==
    \A c \in Requests : req[c].phase = "checking" =>
        \A m \in Models :
            LET k == Key(req[c].user, m, req[c].day)
            IN  Alive(k) => req[c].seen[m] + pending[k] <= accepted[k]

\* And what it adds up is complete outside a flush: between two flushes of a running
\* process rows and buffer together are exactly what was counted, however many flushes
\* failed and were merged back, so nobody gets past a limit except by what a flush in
\* progress holds; once the buffer is empty, the rows are.  The exception is a rollback
\* that raises, which leaves the merge back out.
ExactBetweenFlushes ==
    mode = "up" /\ ~flushing /\ ~dropped =>
        \A k \in Keys : Alive(k) => db[k] + pending[k] = accepted[k]

\* The inductive invariant: outside a flush nothing is swapped out, and the rows a
\* quota check has read can only have grown since.
SwapIsOpen == ~flushing => swapped = Zero
SeenIsOld ==
    \A c \in Requests : req[c].phase = "checking" =>
        \A m \in Models :
            LET k == Key(req[c].user, m, req[c].day)
            IN  Alive(k) => req[c].seen[m] <= db[k]
UsageInv == UsageTypeOK /\ Conservation /\ SwapIsOpen /\ SeenIsOld

\* The module docstring, "A crash loses at most one interval of traffic": while the
\* process runs, whatever is counted for a user and a model that still exist reaches
\* their rows.
UsageIsPersisted ==
    \A k \in Keys :
        pending[k] + swapped[k] > 0 ~>
            (pending[k] + swapped[k] = 0 \/ ~Alive(k) \/ mode # "up")

\* The same on the assumption that nobody is deleted and no rollback raises: then failing
\* flushes and the requests that arrive meanwhile only delay it.
PersistedIfNoneDeleted == [](gone = {} /\ ~dropped) => UsageIsPersisted
=============================================================================
