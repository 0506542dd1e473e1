---------------------------- MODULE Registration ----------------------------
(***************************************************************************)
(* From a worker's registration to a connection made to it                 *)
(* (services/workers_svc.py register_worker, api/clusters.py,              *)
(* api/workers.py, worker main.py run_loop, services/upstream_guard.py,    *)
(* api/gateway.py _resolve_target).                                        *)
(*                                                                         *)
(* Worker rows of one cluster are unique by name and by hostname.  A       *)
(* registration looks its row up, checks which names are free, and         *)
(* commits; other transactions come in between.  A row's token is known to *)
(* the process that last registered it, so the model names the process.    *)
(* Instances are left to modules ControlPlane and Scaling.                 *)
(***************************************************************************)
EXTENDS UpstreamGuard, Integers, FiniteSets

CONSTANTS
    Agents,      \* worker processes
    Conf,        \* their settings: worker_hostname, worker_name, worker_address
    Unnamed,     \* the worker_name of an agent that has none
    MaxRows,     \* bound on the worker rows ever inserted
    MaxFaults,   \* bound on lost responses and process deaths
    MaxRemoved,  \* bound on deletions of workers and clusters
    Moving,      \* the names whose answer changes
    Policies,    \* the settings the server may be started with
    Answers,     \* the answers DNS may give
    Usual        \* the answer it gives at first

ASSUME RegistrationAssumption ==
    /\ \A a \in Agents : /\ Conf[a].host \in Names
                         /\ Conf[a].name \in Names \cup {Unnamed}
                         /\ Conf[a].addr \in [kind : {"none", "malformed", "http", "https"},
                                             host : Names \cup IPs]
    /\ Unnamed \notin Names
    /\ Moving \subseteq Names /\ Usual \in Answers /\ Answers \subseteq Seq(IPs)
    /\ {MaxRows, MaxFaults, MaxRemoved} \subseteq Nat

VARIABLES
    cluster,   \* the cluster exists
    drop,      \* how far a deletion of the cluster has got
    rows,      \* the worker rows
    proc,      \* each process: its phase and the row it was told
    look,      \* what its registration has found out
    policy,    \* the server's settings
    dns,       \* what the names resolve to
    req,       \* a request on its way through the gateway
    spent      \* faults and removals so far

rgVars == <<cluster, drop, rows, proc, look, policy, dns, req, spent>>

Rids == 1 .. MaxRows
NoRow == [life |-> "unborn", name |-> Unnamed, host |-> Unnamed, token |-> {},
          addr |-> [kind |-> "none", host |-> Unnamed]]
\* row: the row found; name: its name then; host, name: what will be written, once that is
\* decided; calm: nobody else has written a row since the lookup.
NoLook == [row |-> 0, by |-> "none", host |-> Unnamed, name |-> Unnamed, calm |-> TRUE]
NoReq == [phase |-> "idle", addr |-> NoRow.addr, pin |-> Refusal]

Live == {r \in Rids : rows[r].life = "live"}
NameOf(a) == IF Conf[a].name = Unnamed THEN Conf[a].host ELSE Conf[a].name

\* The process is a registered worker whose token is good.
Holds(a) ==
    /\ proc[a].phase = "syncing"
    /\ proc[a].row \in Live /\ rows[proc[a].row].token = {a}

MaybeNames == Names \cup {Unnamed}
AddrType == [kind : {"none", "malformed", "http", "https"}, host : MaybeNames \cup IPs]
RowType == [life : {"unborn", "live", "gone"}, name : MaybeNames, host : MaybeNames,
            token : SUBSET Agents, addr : AddrType]
ProcType == [phase : {"down", "register", "looked", "checked", "syncing"}, row : Rids \cup {0}]
LookType == [row : Rids \cup {0}, by : {"none", "both", "hostname", "name"},
             host : MaybeNames, name : MaybeNames, calm : BOOLEAN]
ReqType == [phase : {"idle", "routed", "pinned", "connected", "refused"}, addr : AddrType,
            pin : {Refusal} \cup {PinTo(x) : x \in Names \cup IPs}]

\* Rows, processes and requests have their types, and a worker row has a name, a hostname
\* and a cluster, whatever becomes of the cluster between the steps of a registration.
RgTypeOK ==
    /\ cluster \in BOOLEAN /\ drop \in {"no", "counted", "loaded"}
    /\ rows \in [Rids -> RowType]
    /\ \A r \in Live : /\ cluster /\ rows[r].name \in Names /\ rows[r].host \in Names
                        /\ rows[r].addr.host \in Names \cup IPs
    /\ proc \in [Agents -> ProcType] /\ look \in [Agents -> LookType]
    /\ policy \in Policies /\ dns \in [Names -> Answers]
    /\ req \in ReqType /\ (req.phase # "idle" => req.addr.host \in Names \cup IPs)
    /\ spent \in [{"faults", "removed"} -> Nat]

RgInit ==
    /\ cluster = TRUE /\ drop = "no"
    /\ rows = [r \in Rids |-> NoRow]
    /\ proc = [a \in Agents |-> [phase |-> "down", row |-> 0]]
    /\ look = [a \in Agents |-> NoLook]
    /\ policy \in Policies
    /\ dns = [n \in Names |-> Usual]
    /\ req = NoReq
    /\ spent = [what \in {"faults", "removed"} |-> 0]

Spend(what, bound) == spent[what] < bound /\ spent' = [spent EXCEPT ![what] = @ + 1]

\* A write of rows ends the calm of every other registration under way.
Disturb(others) ==
    look' = [b \in Agents |-> IF b \in others THEN [look[b] EXCEPT !.calm = FALSE] ELSE look[b]]

(***************************************************************************)
(* Register.                                                               *)
(***************************************************************************)
StartProcess(a) ==
    /\ proc[a].phase = "down"
    /\ proc' = [proc EXCEPT ![a] = [phase |-> "register", row |-> 0]]
    /\ UNCHANGED <<cluster, drop, rows, look, policy, dns, req, spent>>

By(a, how) == {r \in Live :
    /\ how \in {"both", "hostname"} => rows[r].host = Conf[a].host
    /\ how \in {"both", "name"} => rows[r].name = NameOf(a)}

\* Mutant: the configured name is looked for before the machine.
MatchedNameFirst(a) ==
    IF By(a, "both") # {} THEN "both"
    ELSE IF By(a, "name") # {} THEN "name"
    ELSE IF By(a, "hostname") # {} THEN "hostname" ELSE "none"

\* The row with this name and this hostname, or else with the hostname, or else the name.
Matched(a) ==
    IF By(a, "both") # {} THEN "both"
    ELSE IF By(a, "hostname") # {} THEN "hostname"
    ELSE IF By(a, "name") # {} THEN "name" ELSE "none"

\* A refusal (no such cluster, an address that is not accepted) leaves the worker where it
\* is, to try again; one of an old version exits, and is not modelled.  The read of the
\* cluster, the DNS query and the three SELECTs are one step: a registration during which
\* others commit between them is not undisturbed, and only undisturbed ones are promised
\* anything.
LookupWorker(a) ==
    /\ proc[a].phase = "register" /\ cluster
    /\ validate_worker_address(policy, Conf[a].addr, dns)
    /\ LET by == Matched(a)
           r == CHOOSE r \in By(a, by) : TRUE
       IN  look' = [look EXCEPT ![a] =
              IF by = "none" THEN NoLook
              ELSE [NoLook EXCEPT !.by = by, !.row = r, !.name = rows[r].name]]
    /\ proc' = [proc EXCEPT ![a].phase = "looked"]
    /\ UNCHANGED <<cluster, drop, rows, policy, dns, req, spent>>

\* Only one transaction can have written a row and not ended yet.
Unlocked(r) == \A b \in Agents : ~(proc[b].phase = "checked" /\ look[b].row = r)
Available(r, field, value) == \A q \in Live \ {r} : rows[q][field] # value

\* Mutant: the name is written without asking whether it is free.
NewNameUnchecked(a) == IF Conf[a].name # Unnamed THEN Conf[a].name ELSE rows[look[a].row].name

\* _available: a name or a hostname that another row owns is not written.
NewHost(a) ==
    LET r == look[a].row
    IN  IF look[a].by = "name" /\ Available(r, "host", Conf[a].host) THEN Conf[a].host
        ELSE rows[r].host
NewName(a) ==
    LET r == look[a].row
    IN  IF Conf[a].name \notin {Unnamed, look[a].name} /\ Available(r, "name", Conf[a].name)
        THEN Conf[a].name ELSE rows[r].name

\* Mutant: the new token is stored before the names are checked.
CheckRotates(a) ==
    /\ proc[a].phase = "looked"
    /\ LET new == look[a].row \notin Live
       IN  /\ rows' = IF new THEN rows ELSE [rows EXCEPT ![look[a].row].token = {a}]
           /\ look' = [look EXCEPT ![a].host = IF new THEN Conf[a].host ELSE NewHost(a),
                                   ![a].name = IF new THEN NameOf(a) ELSE NewName(a)]
    /\ proc' = [proc EXCEPT ![a].phase = "checked"]
    /\ UNCHANGED <<cluster, drop, policy, dns, req, spent>>

CheckNames(a) ==
    /\ proc[a].phase = "looked"
    /\ look[a].row # 0 => Unlocked(look[a].row)
    /\ LET new == look[a].row = 0 \/ look[a].row \notin Live
       IN  look' = [look EXCEPT
              ![a].host = IF new THEN Conf[a].host ELSE NewHost(a),
              ![a].name = IF new THEN NameOf(a) ELSE NewName(a)]
    /\ proc' = [proc EXCEPT ![a].phase = "checked"]
    /\ UNCHANGED <<cluster, drop, rows, policy, dns, req, spent>>

\* The commit: a fresh row, or the row that was found, with a new token.
Target(a) == IF look[a].row # 0 THEN look[a].row
             ELSE CHOOSE r \in Rids : rows[r].life = "unborn" /\ \A q \in 1 .. r - 1 : rows[q].life # "unborn"
Unique(a) ==
    /\ Available(look[a].row, "host", look[a].host)
    /\ Available(look[a].row, "name", look[a].name)
\* (Mutant: the foreign key to the cluster is missing.)
StorableAnyway(a) == (look[a].row # 0 => look[a].row \in Live) /\ Unique(a)
Storable(a) == cluster /\ (look[a].row # 0 => look[a].row \in Live) /\ Unique(a)
Stored(a) ==
    /\ proc[a].phase = "checked" /\ Storable(a)
    /\ look[a].row = 0 => \E r \in Rids : rows[r].life = "unborn"
    /\ rows' = [rows EXCEPT ![Target(a)] =
         [life |-> "live", name |-> look[a].name, host |-> look[a].host, token |-> {a},
          addr |-> Conf[a].addr]]
    /\ look' = [b \in Agents |-> IF b = a THEN NoLook ELSE [look[b] EXCEPT !.calm = FALSE]]
    /\ UNCHANGED <<cluster, drop, policy, dns, req>>

Registered(a) ==
    /\ Stored(a)
    /\ proc' = [proc EXCEPT ![a] = [phase |-> "syncing", row |-> Target(a)]]
    /\ UNCHANGED spent
ResponseLost(a) ==
    /\ Stored(a) /\ Spend("faults", MaxFaults)
    /\ proc' = [proc EXCEPT ![a].phase = "register"]

\* Mutant: the retry goes on with what the first lookup found.
RetryStale(a) ==
    /\ proc[a].phase = "checked" /\ ~Storable(a)
    /\ proc' = [proc EXCEPT ![a].phase = "looked"]
    /\ UNCHANGED <<cluster, drop, rows, look, policy, dns, req, spent>>

\* ALREADY_EXISTS when an index refuses the row or the cluster is gone, INTERNAL when the
\* row is; the worker backs off and tries again.
RegisterFails(a) ==
    /\ proc[a].phase = "checked" /\ ~Storable(a)
    /\ look' = [look EXCEPT ![a] = NoLook]
    /\ proc' = [proc EXCEPT ![a].phase = "register"]
    /\ UNCHANGED <<cluster, drop, rows, policy, dns, req, spent>>

(***************************************************************************)
(* What else changes the rows.                                             *)
(***************************************************************************)

\* Sync writes the hostname the process reports, without a check; the index may refuse it
\* and the whole Sync with it.  Without a good token nothing happens, for ever: run_loop
\* registers only once.  The check of the token and the write are one step here: in the
\* code a takeover may come between them, and the old process then writes its hostname into
\* the row it has just lost.  It keeps no token by that, and the index still decides.
SyncFits(a) == Available(proc[a].row, "host", Conf[a].host)
Sync(a) ==
    /\ Holds(a) /\ SyncFits(a) /\ Unlocked(proc[a].row)
    /\ rows[proc[a].row].host # Conf[a].host
    /\ rows' = [rows EXCEPT ![proc[a].row].host = Conf[a].host]
    /\ Disturb(Agents)
    /\ UNCHANGED <<cluster, drop, proc, policy, dns, req, spent>>

ProcessDies(a) ==
    /\ proc[a].phase # "down" /\ Spend("faults", MaxFaults)
    /\ proc' = [proc EXCEPT ![a] = [phase |-> "down", row |-> 0]]
    /\ look' = [look EXCEPT ![a] = NoLook]
    /\ UNCHANGED <<cluster, drop, rows, policy, dns, req>>

Removed(r) == [NoRow EXCEPT !.life = "gone"]

\* DELETE /workers/{id}.
DeleteWorker(r) ==
    /\ r \in Live /\ Unlocked(r) /\ Spend("removed", MaxRemoved)
    /\ rows' = [rows EXCEPT ![r] = Removed(r)]
    /\ Disturb(Agents)
    /\ UNCHANGED <<cluster, drop, proc, policy, dns, req>>

\* DELETE /clusters/{id}: counts the workers; the flush reads them once more, and fails if
\* it finds one; the foreign key then removes those that came after.  That it is refused for
\* live instances too is left out: the model deletes in more states than the code.
CountWorkers ==
    /\ cluster /\ drop = "no" /\ Live = {} /\ Spend("removed", MaxRemoved)
    /\ drop' = "counted"
    /\ UNCHANGED <<cluster, rows, proc, look, policy, dns, req>>
LoadWorkers ==
    /\ drop = "counted"
    /\ drop' = IF Live = {} THEN "loaded" ELSE "no"
    /\ UNCHANGED <<cluster, rows, proc, look, policy, dns, req, spent>>
DropCluster ==
    /\ drop = "loaded"
    /\ cluster' = FALSE /\ drop' = "no"
    /\ rows' = [r \in Rids |-> IF r \in Live THEN Removed(r) ELSE rows[r]]
    /\ Disturb(Agents)
    /\ UNCHANGED <<proc, policy, dns, req, spent>>
\* A new cluster of that name.  A registration that looked the old one up and found no row
\* may be stored in it, where the code's foreign key refuses it and the worker tries again.
CreateCluster ==
    /\ ~cluster
    /\ cluster' = TRUE
    /\ UNCHANGED <<drop, rows, proc, look, policy, dns, req, spent>>

DnsChanges ==
    /\ \E n \in Moving, ans \in Answers : ans # dns[n] /\ dns' = [dns EXCEPT ![n] = ans]
    /\ UNCHANGED <<cluster, drop, rows, proc, look, policy, req, spent>>

(***************************************************************************)
(* A request of the gateway: the row is read, its address resolved and     *)
(* validated, the connection made.                                         *)
(***************************************************************************)
Route(r) ==
    /\ req.phase = "idle" /\ r \in Live
    /\ req' = [req EXCEPT !.phase = "routed",
                 !.addr = IF rows[r].addr.kind # "none" THEN rows[r].addr
                          ELSE [kind |-> "http", host |-> rows[r].host]]
    /\ UNCHANGED <<cluster, drop, rows, proc, look, policy, dns, spent>>
Resolve ==
    /\ req.phase = "routed"
    /\ LET pin == HttpsRule(policy, req.addr, resolve_and_validate(policy, req.addr.host, dns))
       IN  req' = [req EXCEPT !.phase = IF pin.ok THEN "pinned" ELSE "refused", !.pin = pin]
    /\ UNCHANGED <<cluster, drop, rows, proc, look, policy, dns, spent>>

\* The connection: to the IP, or to any IP that the name has by then.
Reached(x) == IF x \in IPs THEN {x} ELSE ToSet(dns[x])
Connect ==
    /\ req.phase = "pinned"
    /\ \E ip \in Reached(req.pin.to[1]) :
         req' = [req EXCEPT !.phase = "connected", !.pin = PinTo(ip)]
    /\ UNCHANGED <<cluster, drop, rows, proc, look, policy, dns, spent>>

(***************************************************************************)
(* The specification.                                                      *)
(***************************************************************************)
Register(a) ==
    \/ StartProcess(a) \/ LookupWorker(a)
    \/ CheckNames(a) \/ Registered(a) \/ RegisterFails(a)

RgNext ==
    \/ \E a \in Agents : Register(a) \/ ResponseLost(a) \/ Sync(a) \/ ProcessDies(a)
    \/ \E r \in Rids : DeleteWorker(r) \/ Route(r)
    \/ CountWorkers \/ LoadWorkers \/ DropCluster \/ CreateCluster
    \/ DnsChanges \/ Resolve \/ Connect

\* A started worker goes on, and its requests are served.
RgSpec == RgInit /\ [][RgNext]_rgVars
RgFairSpec == RgSpec /\ \A a \in Agents : WF_rgVars(Register(a)) /\ WF_rgVars(Sync(a))

(***************************************************************************)
(* Properties.                                                             *)
(***************************************************************************)

\* "never write a value that another row already owns": a registration that nobody
\* disturbed is never refused by an index ("the worker (...) retried forever").
AloneNeverConflicts == \A a \in Agents : proc[a].phase = "checked" /\ look[a].calm => Unique(a)

\* "prefer the machine (hostname)": an undisturbed registration takes the token of another
\* running worker only if that worker's row has its hostname, or its name when no row has
\* its hostname.
TakesOverOwnRow ==
    [][\A a, b \in Agents :
         (a # b /\ Holds(b) /\ ~Holds(b)' /\ Stored(a) /\ look[a].calm) =>
           LET row == rows[proc[b].row]
           IN  \/ row.host = Conf[a].host
               \/ row.name = NameOf(a) /\ \A r \in Live : rows[r].host # Conf[a].host]_rgVars

\* A worker that lost its token never gets it back by itself, so it must not lose it to
\* anything but another worker's registration or a removal by an administrator.
TokenLostKnowingly ==
    [][\A b \in Agents : (Holds(b) /\ ~Holds(b)') =>
         \/ \E a \in Agents \ {b} : Stored(a)
         \/ \E r \in Rids : DeleteWorker(r)
         \/ DropCluster \/ ProcessDies(b)]_rgVars

\* The guard's promise, with DNS changing between the validation and the connection: outside
\* development the gateway connects to no IP that the policy does not accept, unless the
\* name itself is on the allowlist.
ConnectsWhereAllowed ==
    (req.phase = "connected" /\ policy.env # "development") =>
        IpAccepted(policy, req.pin.to[1]) \/ req.addr.host \in policy.names

\* A worker that stays up, with an address that is accepted in the end and a cluster to
\* register with, gets registered, whatever was lost, deleted or taken meanwhile.
Registers ==
    \A a \in Agents :
        <>[](cluster /\ validate_worker_address(policy, Conf[a].addr, dns)) =>
            []<>(proc[a].phase = "syncing")

(***************************************************************************)
(* The inductive invariant.                                                *)
(***************************************************************************)

\* The two indexes: a cluster has no two workers of one name or of one hostname.
RowsUnique ==
    \A q, r \in Live : q # r => rows[q].host # rows[r].host /\ rows[q].name # rows[r].name

\* What an undisturbed registration found is still so.
Found(a) ==
    IF look[a].row = 0
    THEN \A r \in Live : rows[r].host # Conf[a].host /\ rows[r].name # NameOf(a)
    ELSE /\ look[a].row \in Live
         /\ \/ look[a].by \in {"both", "hostname"} /\ rows[look[a].row].host = Conf[a].host
            \/ /\ look[a].by = "name" /\ rows[look[a].row].name = NameOf(a)
               /\ \A r \in Live : rows[r].host # Conf[a].host

LooksHold ==
    \A a \in Agents :
        /\ proc[a].phase \in {"looked", "checked"} /\ look[a].calm => Found(a)
        /\ proc[a].phase = "checked" => look[a].host \in Names /\ look[a].name \in Names

\* Outside development a request is pinned to an accepted address, or its name is trusted.
PinsAllowed ==
    req.phase = "pinned" =>
        /\ req.pin.ok
        /\ policy.env # "development" =>
             \/ req.addr.host \in policy.names
             \/ req.pin.to[1] \in IPs /\ IpAccepted(policy, req.pin.to[1])

RgInv ==
    /\ RgTypeOK /\ RowsUnique /\ LooksHold /\ AloneNeverConflicts
    /\ PinsAllowed /\ ConnectsWhereAllowed
=============================================================================
