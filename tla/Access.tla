------------------------------- MODULE Access -------------------------------
(***************************************************************************)
(* Users, API keys, the last-used stamps of keys, and the model catalogue  *)
(* (server: auth.py, api/users.py, api/keys.py, api/models.py,             *)
(* api/gateway.py and main.py).                                            *)
(*                                                                         *)
(* API calls overlap: each is authenticated, reads, and commits later, and *)
(* nothing but the constraints of the database holds in between.           *)
(*                                                                         *)
(* A gateway request whose key is due for a stamp sets last_used_at on its *)
(* own session and also notes the stamp in _last_used_dirty.  The session's *)
(* next query flushes it (autoflush is on): that UPDATE takes the lock of  *)
(* the key's row, and keeps it until the session is closed after the last  *)
(* byte of the answer; then it is rolled back.  The noted stamp is stored  *)
(* by a background flush, which needs the same lock, as do a revocation of *)
(* the key and a deletion of its user.                                     *)
(*                                                                         *)
(* Passwords, expiry of tokens, key names and per-user limits decide       *)
(* nothing below and are left out.                                         *)
(***************************************************************************)
EXTENDS Integers, FiniteSets

CONSTANTS
    Ids,        \* primary keys of user rows, each used once
    Names,      \* usernames
    Founders,   \* the administrators at the start, with their names
    Keys,       \* primary keys of api_keys rows, each used once
    Issued,     \* keys that exist at the start, with their owners
    Models,     \* model names
    Catalogs,   \* the names in fixtures/catalog.json, per release
    Release,    \* the catalogue of the release at the start
    MaxCalls,   \* bound on API calls
    MaxReqs,    \* bound on gateway requests
    MaxClock,   \* bound on time, in units of LAST_USED_UPDATE_SECONDS
    MaxFaults   \* bound on database errors, shutdowns and crashes

ASSUME AccessAssumption ==
    /\ DOMAIN Founders \subseteq Ids /\ DOMAIN Founders # {}
    /\ \A i \in DOMAIN Founders : Founders[i] \in Names
    /\ \A i, j \in DOMAIN Founders : i # j => Founders[i] # Founders[j]
    /\ IsFiniteSet(Ids) /\ IsFiniteSet(Keys) /\ Keys # {} /\ Models # {}
    /\ DOMAIN Issued \subseteq Keys
    /\ \A k \in DOMAIN Issued : Issued[k] \in DOMAIN Founders
    /\ Catalogs \subseteq SUBSET Models /\ Release \in Catalogs
    /\ MaxCalls \in Nat /\ MaxReqs \in Nat
    /\ MaxClock \in Nat \ {0}
    /\ MaxFaults \in Nat

\* Calls and requests are numbered as they begin.
Calls == 1 .. MaxCalls
Reqs == 1 .. MaxReqs

\* Who has the lock of a row, when it is no request.
Nobody == 0
Flush == -1

VARIABLES
    mode,     \* the server process: "up", "stopping" or "down"
    user,     \* the users table
    key,      \* the api_keys table
    model,    \* the models table, by name
    catalog,  \* the catalogue of the release that runs
    lock,     \* who has the lock of a key's row
    call,     \* the API calls
    req,      \* the gateway requests
    clock,    \* utcnow()
    dirty,    \* _last_used_dirty; 0 is an absent key
    pending,  \* the snapshot of the flush in progress; 0 is an absent key
    todo,     \* keys that flush has still to update
    flushing, \* flush_last_used_stamps is between its snapshot and its end
    faults,   \* faults so far
    latest,   \* history: the newest stamp of each key that no process took to its grave
    raced     \* history: an administrator was deleted while the deletion of
              \* another one had already counted the administrators

accessVars == <<mode, user, key, model, catalog, lock, call, req, clock, dirty, pending, todo, flushing,
                faults, latest, raced>>

Times == 0 .. MaxClock
Stamps == [Keys -> Times]
NoStamps == [k \in Keys |-> 0]
Newest(s, t) == IF s > t THEN s ELSE t

\* Rows are "unborn", "live" or "gone": an identifier is never reused.
User(l, n, r) == [life |-> l, name |-> n, role |-> r]
Key(l, o, rv, t) == [life |-> l, owner |-> o, revoked |-> rv, stamp |-> t]
Live(i) == user[i].life = "live"
KeyLive(k) == key[k].life = "live"
Admins == {i \in Ids : Live(i) /\ user[i].role = "admin"}
NameFree(n) == \A i \in Ids : Live(i) => user[i].name # n

\* life is "none", "custom" or "builtin"; row tells two rows of one name apart.
Model(l, n, d) == [life |-> l, row |-> n, deployed |-> d]
NoModel == Model("none", 0, FALSE)

AnyId == CHOOSE i \in Ids : TRUE
AnyName == CHOOSE n \in Names : TRUE
AnyKey == CHOOSE k \in Keys : TRUE
AnyModel == CHOOSE m \in Models : TRUE
Unborn == User("unborn", AnyName, "user")
NoKey == Key("unborn", AnyId, FALSE, 0)
NewCall == [phase |-> "new", op |-> "create", who |-> AnyId, id |-> AnyId, key |-> AnyKey,
            name |-> AnyName, role |-> "user", model |-> AnyModel, row |-> 0]
NewReq == [phase |-> "new", key |-> AnyKey, wrote |-> FALSE]
DoneCall == [NewCall EXCEPT !.phase = "done"]
DoneReq == [NewReq EXCEPT !.phase = "done"]

UserType == [life : {"unborn", "live", "gone"}, name : Names, role : {"admin", "user"}]
KeyType == [life : {"unborn", "live", "gone"}, owner : Ids, revoked : BOOLEAN, stamp : Times]
ModelType == [life : {"none", "custom", "builtin"}, row : Nat, deployed : BOOLEAN]
CallType == [phase : {"new", "read", "counted", "done"},
             op : {"create", "delete", "issue", "revoke", "add", "drop"},
             who : Ids, id : Ids, key : Keys, name : Names, role : {"admin", "user"},
             model : Models, row : Nat]
ReqType == [phase : {"new", "authed", "open", "done"}, key : Keys, wrote : BOOLEAN]

\* The rows and the sessions have their types; no two live users share a name
\* (users.username is unique) and every live key has a live owner (the foreign key
\* of api_keys.user_id) and every deployment a model, whatever calls overlap.
AccessTypeOK ==
    /\ mode \in {"up", "stopping", "down"}
    /\ user \in [Ids -> UserType] /\ key \in [Keys -> KeyType]
    /\ model \in [Models -> ModelType] /\ catalog \in Catalogs
    /\ lock \in [Keys -> Reqs \cup {Nobody, Flush}]
    /\ call \in [Calls -> CallType] /\ req \in [Reqs -> ReqType]
    /\ clock \in Times
    /\ dirty \in Stamps /\ pending \in Stamps /\ latest \in Stamps
    /\ todo \subseteq Keys
    /\ flushing \in BOOLEAN /\ raced \in BOOLEAN
    /\ faults \in 0 .. MaxFaults
    /\ \A i, j \in Ids : Live(i) /\ Live(j) /\ user[i].name = user[j].name => i = j
    /\ \A k \in Keys : KeyLive(k) => Live(key[k].owner)
    /\ \A m \in Models : model[m].deployed => model[m].life # "none"

\* seed_catalog: entries of the catalogue are inserted, or take over the row that has
\* their name.
Seeded(table, names) ==
    [m \in Models |-> IF m \notin names THEN table[m]
                     ELSE IF table[m].life = "none" THEN Model("builtin", table[m].row + 1, FALSE)
                     ELSE [table[m] EXCEPT !.life = "builtin"]]

AccessInit ==
    /\ mode = "up"
    /\ user = [i \in Ids |-> IF i \in DOMAIN Founders THEN User("live", Founders[i], "admin")
                             ELSE Unborn]
    /\ key = [k \in Keys |-> IF k \in DOMAIN Issued THEN Key("live", Issued[k], FALSE, 0)
                             ELSE NoKey]
    /\ catalog = Release
    /\ model = Seeded([m \in Models |-> NoModel], catalog)
    /\ lock = [k \in Keys |-> Nobody]
    /\ call = [c \in Calls |-> NewCall]
    /\ req = [r \in Reqs |-> NewReq]
    /\ clock = 1
    /\ dirty = NoStamps /\ pending = NoStamps /\ todo = {} /\ flushing = FALSE
    /\ faults = 0
    /\ latest = NoStamps /\ raced = FALSE

Fault == faults < MaxFaults /\ faults' = faults + 1

ClockTicks ==
    /\ clock < MaxClock
    /\ clock' = clock + 1
    /\ UNCHANGED <<mode, user, key, model, catalog, lock, call, req, dirty, pending, todo, flushing, faults,
                   latest, raced>>

(***************************************************************************)
(* API calls.                                                              *)
(***************************************************************************)
catalogVars == <<model, catalog>>
stampVars == <<lock, req, clock, dirty, pending, todo, flushing, latest>>

\* get_current_user: a token is good while the row it names exists; require_admin.
Authenticated(i) == mode = "up" /\ Live(i)
IsAdmin(i) == Authenticated(i) /\ user[i].role = "admin"

Fresh(c) == call[c].phase = "new" /\ \A d \in 1 .. c - 1 : call[d].phase # "new"
CallIs(c, ph, o) == mode = "up" /\ call[c].phase = ph /\ call[c].op = o
CallMoves(c, ph) == call' = [call EXCEPT ![c] = [call[c] EXCEPT !.phase = ph]]
CallEnds(c) == call' = [call EXCEPT ![c] = DoneCall]

\* Bounds: a call that will insert a row begins while there is an identifier for it.
FreshIds == {i \in Ids : user[i].life = "unborn"}
FreshKeys == {k \in Keys : key[k].life = "unborn"}
FreshId == CHOOSE i \in FreshIds : TRUE
FreshKey == CHOOSE k \in FreshKeys : TRUE
Inserting(o) == {c \in Calls : call[c].phase = "read" /\ call[c].op = o}
RoomForUser == Cardinality(FreshIds) > Cardinality(Inserting("create")) + 1
RoomForKey == Cardinality(FreshKeys) > Cardinality(Inserting("issue"))

\* create_user up to its look for the name.
CreateUser(c, i, n, r) ==
    /\ Fresh(c) /\ IsAdmin(i) /\ NameFree(n) /\ RoomForUser
    /\ call' = [call EXCEPT ![c] = [NewCall EXCEPT !.phase = "read", !.op = "create",
                                                   !.name = n, !.role = r]]
    /\ UNCHANGED <<mode, user, key, faults, raced, stampVars, catalogVars>>

\* Mutant: usernames are not unique in the table.
NameInsertableAnyway(n) == TRUE

NameInsertable(n) == NameFree(n)

\* The commit of create_user: a new row, or an IntegrityError if the name was taken
\* meanwhile.
InsertUser(c) ==
    /\ CallIs(c, "read", "create")
    /\ CallEnds(c)
    /\ IF NameInsertable(call[c].name)
         THEN user' = [user EXCEPT ![FreshId] = User("live", call[c].name, call[c].role)]
         ELSE UNCHANGED user
    /\ UNCHANGED <<mode, key, faults, raced, stampVars, catalogVars>>

\* delete_user up to its read of the row.
DeleteUser(c, i, j) ==
    /\ Fresh(c) /\ IsAdmin(i)
    /\ i # j /\ Live(j)
    /\ call' = [call EXCEPT ![c] = [NewCall EXCEPT !.phase = "read", !.op = "delete",
                                                   !.id = j]]
    /\ UNCHANGED <<mode, user, key, faults, raced, stampVars, catalogVars>>

\* Mutant: the last administrator is not looked for.
CountIgnored(c) == CallIs(c, "read", "delete") /\ CallMoves(c, "counted")
                   /\ UNCHANGED <<mode, user, key, faults, raced, stampVars, catalogVars>>

\* Its count of the administrators.
CountAdmins(c) ==
    /\ CallIs(c, "read", "delete")
    /\ IF user[call[c].id].role = "admin" /\ Cardinality(Admins) <= 1
         THEN CallEnds(c) ELSE CallMoves(c, "counted")
    /\ UNCHANGED <<mode, user, key, faults, raced, stampVars, catalogVars>>

KeysOf(i) == {k \in Keys : KeyLive(k) /\ key[k].owner = i}

\* Its commit.  The keys of the user go with the row, and their locks are needed.
RemoveUser(c) ==
    LET i == call[c].id
    IN  /\ CallIs(c, "counted", "delete")
        /\ \A k \in KeysOf(i) : lock[k] = Nobody
        /\ CallEnds(c)
        /\ user' = [user EXCEPT ![i] = User("gone", AnyName, "user")]
        /\ key' = [k \in Keys |-> IF k \in KeysOf(i) THEN Key("gone", AnyId, FALSE, 0)
                                  ELSE key[k]]
        /\ raced' = (raced \/ /\ i \in Admins
                              /\ \E d \in Calls \ {c} :
                                    CallIs(d, "counted", "delete") /\ call[d].id \in Admins \ {i})
        /\ UNCHANGED <<mode, faults, stampVars, catalogVars>>

\* create_key up to its insert.
CreateKey(c, i) ==
    /\ Fresh(c) /\ Authenticated(i) /\ RoomForKey
    /\ call' = [call EXCEPT ![c] = [NewCall EXCEPT !.phase = "read", !.op = "issue", !.who = i]]
    /\ UNCHANGED <<mode, user, key, faults, raced, stampVars, catalogVars>>

\* The commit of create_key: an IntegrityError if the user was deleted meanwhile.
InsertKey(c) ==
    /\ CallIs(c, "read", "issue")
    /\ CallEnds(c)
    /\ IF Live(call[c].who)
         THEN key' = [key EXCEPT ![FreshKey] = Key("live", call[c].who, FALSE, 0)]
         ELSE UNCHANGED key
    /\ UNCHANGED <<mode, user, faults, raced, stampVars, catalogVars>>

\* revoke_key up to its update: nothing is left to do for a revoked key.
RevokeKey(c, i, k) ==
    /\ Fresh(c) /\ Authenticated(i)
    /\ KeyLive(k) /\ ~key[k].revoked
    /\ user[i].role = "admin" \/ key[k].owner = i
    /\ call' = [call EXCEPT ![c] = [NewCall EXCEPT !.phase = "read", !.op = "revoke",
                                                   !.key = k]]
    /\ UNCHANGED <<mode, user, key, faults, raced, stampVars, catalogVars>>

\* Its update and commit, which wait for the row; a row deleted meanwhile is an error.
StoreRevocation(c) ==
    LET k == call[c].key
    IN  /\ CallIs(c, "read", "revoke")
        /\ lock[k] = Nobody
        /\ CallEnds(c)
        /\ key' = IF KeyLive(k) THEN [key EXCEPT ![k] = [key[k] EXCEPT !.revoked = TRUE]]
                  ELSE key
        /\ UNCHANGED <<mode, user, faults, raced, stampVars, catalogVars>>

\* create_model up to its look for the name.
CreateModel(c, i, m) ==
    /\ Fresh(c) /\ IsAdmin(i) /\ model[m].life = "none"
    /\ call' = [call EXCEPT ![c] = [NewCall EXCEPT !.phase = "read", !.op = "add", !.model = m]]
    /\ UNCHANGED <<mode, user, key, faults, raced, stampVars, catalogVars>>

\* Its commit; the unique index turns a row that came first into a 409.
InsertModel(c) ==
    LET m == call[c].model
    IN  /\ CallIs(c, "read", "add")
        /\ CallEnds(c)
        /\ model' = IF model[m].life # "none" THEN model
                    ELSE [model EXCEPT ![m] = Model("custom", model[m].row + 1, FALSE)]
        /\ UNCHANGED <<mode, user, key, catalog, faults, raced, stampVars>>

\* Mutant: builtin models can be deleted.
DeletableAny(m) == model[m].life # "none" /\ ~model[m].deployed

\* delete_model up to its look for deployments.
Deletable(m) == model[m].life = "custom" /\ ~model[m].deployed
DeleteModel(c, i, m) ==
    /\ Fresh(c) /\ IsAdmin(i) /\ Deletable(m)
    /\ call' = [call EXCEPT ![c] = [NewCall EXCEPT !.phase = "read", !.op = "drop", !.model = m,
                                                   !.row = model[m].row]]
    /\ UNCHANGED <<mode, user, key, faults, raced, stampVars, catalogVars>>

\* Its commit: refused by the foreign key if a deployment came meanwhile, without effect
\* if the row is gone.
RemoveModel(c) ==
    LET m == call[c].model
    IN  /\ CallIs(c, "read", "drop")
        /\ CallEnds(c)
        /\ model' = IF model[m].row # call[c].row \/ model[m].deployed THEN model
                    ELSE [model EXCEPT ![m] = Model("none", model[m].row, FALSE)]
        /\ UNCHANGED <<mode, user, key, catalog, faults, raced, stampVars>>

\* A deployment of the model comes, or the last one goes (module Scaling).  Its read of the
\* model and its commit are one step: a model deleted in between makes it fail on the same
\* foreign key that refuses the deletion in the other order.
DeployModel(c, i, m) ==
    /\ Fresh(c) /\ Authenticated(i) /\ model[m].life # "none"
    /\ CallEnds(c)
    /\ model' = [model EXCEPT ![m] = [model[m] EXCEPT !.deployed = ~model[m].deployed]]
    /\ UNCHANGED <<mode, user, key, catalog, faults, raced, stampVars>>

(***************************************************************************)
(* Gateway requests.                                                       *)
(***************************************************************************)
callVars == <<mode, user, model, catalog, call, faults, raced>>

Due(k) == key[k].stamp = 0 \/ clock - key[k].stamp >= 1

\* get_api_key.  The stamp compared is the stored one, so every request is due until
\* the flush has stored the first of them.
GetApiKey(r, k) ==
    /\ mode = "up" /\ req[r].phase = "new" /\ \A q \in 1 .. r - 1 : req[q].phase # "new"
    /\ key[k].life # "unborn"
    /\ LET good == KeyLive(k) /\ ~key[k].revoked
           due == good /\ Due(k)
       IN  /\ req' = [req EXCEPT ![r] = IF good THEN [phase |-> "authed", key |-> k, wrote |-> due]
                                        ELSE DoneReq]
           /\ dirty' = IF due THEN [dirty EXCEPT ![k] = clock] ELSE dirty
           /\ latest' = IF due THEN [latest EXCEPT ![k] = clock] ELSE latest
    /\ UNCHANGED <<key, lock, clock, pending, todo, flushing, callVars>>

\* _read_body_limited and _extract_model: the body is too large, malformed or names no
\* model, or the client goes away.  Nothing was sent to the database; the stamp stays noted.
RefuseBody(r) ==
    /\ mode = "up" /\ req[r].phase = "authed"
    /\ req' = [req EXCEPT ![r] = DoneReq]
    /\ UNCHANGED <<key, lock, clock, dirty, pending, todo, flushing, latest, callVars>>

\* The first query of the request, after its body was read: the session flushes the
\* stamp, which takes the lock, or fails if the row is gone.
FirstQuery(r) ==
    LET k == req[r].key
    IN  /\ mode = "up" /\ req[r].phase = "authed"
        /\ req[r].wrote => lock[k] = Nobody
        /\ req' = [req EXCEPT ![r] = IF req[r].wrote /\ ~KeyLive(k) THEN DoneReq
                                     ELSE [req[r] EXCEPT !.phase = "open"]]
        /\ lock' = IF req[r].wrote /\ KeyLive(k) THEN [lock EXCEPT ![k] = r] ELSE lock
        /\ UNCHANGED <<key, clock, dirty, pending, todo, flushing, latest, callVars>>

\* Mutant: the session is not closed with the request.
EndRequestInTransaction(r) ==
    /\ mode = "up" /\ req[r].phase = "open"
    /\ req' = [req EXCEPT ![r] = DoneReq]
    /\ UNCHANGED <<key, lock, clock, dirty, pending, todo, flushing, latest, callVars>>

Unlocked(who) == [k \in Keys |-> IF lock[k] = who THEN Nobody ELSE lock[k]]

\* The answer is complete, or the request failed or was abandoned (module Gateway): get_db
\* closes the session, which rolls back.
EndRequest(r) ==
    /\ mode = "up" /\ req[r].phase = "open"
    /\ req' = [req EXCEPT ![r] = DoneReq]
    /\ lock' = Unlocked(r)
    /\ UNCHANGED <<key, clock, dirty, pending, todo, flushing, latest, callVars>>

(***************************************************************************)
(* flush_last_used_stamps, called by last_used_flush_loop and once more at *)
(* shutdown.                                                               *)
(***************************************************************************)
Noted(f) == {k \in Keys : f[k] > 0}

\* After the final flush the process ends, and what is still noted is lost.
AfterFlush(left, stored) ==
    /\ flushing' = FALSE /\ pending' = NoStamps /\ todo' = {}
    /\ lock' = Unlocked(Flush)
    /\ mode' = IF mode = "stopping" THEN "down" ELSE mode
    /\ dirty' = IF mode = "stopping" THEN NoStamps ELSE left
    /\ latest' = IF mode = "stopping" THEN [k \in Keys |-> stored[k].stamp] ELSE latest
    /\ key' = stored
    /\ UNCHANGED <<user, model, catalog, call, raced, req, clock>>

FlushStart ==
    /\ mode \in {"up", "stopping"} /\ ~flushing /\ dirty # NoStamps
    /\ flushing' = TRUE
    /\ pending' = dirty /\ dirty' = NoStamps
    /\ todo' = Noted(dirty)
    /\ UNCHANGED <<key, lock, req, clock, latest, callVars>>

\* One UPDATE; it matches nothing if the row is gone.
FlushWrite(k) ==
    /\ flushing /\ k \in todo /\ lock[k] = Nobody
    /\ todo' = todo \ {k}
    /\ lock' = IF KeyLive(k) THEN [lock EXCEPT ![k] = Flush] ELSE lock
    /\ UNCHANGED <<key, req, clock, dirty, pending, flushing, latest, callVars>>


FlushCommit ==
    /\ flushing /\ todo = {}
    /\ AfterFlush(dirty, [k \in Keys |-> IF pending[k] > 0 /\ KeyLive(k)
                                           THEN [key[k] EXCEPT !.stamp = pending[k]] ELSE key[k]])
    /\ UNCHANGED faults

\* Mutant: the snapshot replaces newer stamps.
RequeueOverwrites == [k \in Keys |-> IF pending[k] > 0 THEN pending[k] ELSE dirty[k]]

\* Mutant: the snapshot of a failed flush is dropped.
RequeueNothing == dirty

\* setdefault: a stamp noted meanwhile stays.
Requeue == [k \in Keys |-> IF dirty[k] > 0 THEN dirty[k] ELSE pending[k]]

FlushFails ==
    /\ flushing /\ Fault
    /\ AfterFlush(Requeue, key)

(***************************************************************************)
(* The server process.                                                     *)
(***************************************************************************)

\* The memory of a process ends: what was noted and not stored is forgotten.
Forget ==
    /\ flushing' = FALSE /\ pending' = NoStamps /\ todo' = {}
    /\ lock' = [k \in Keys |-> Nobody]

\* lifespan after its yield, when the requests are over: a flush in progress is
\* cancelled without a merge back (CancelledError is no Exception), and the final
\* flush follows.  The stamps of a cancelled snapshot are lost: from here on the newest
\* stamp is the newest one that is left.
ShutDown ==
    /\ mode = "up" /\ Fault
    /\ \A r \in Reqs : req[r].phase \in {"new", "done"}
    /\ \A c \in Calls : call[c].phase \in {"new", "done"}
    /\ mode' = IF dirty = NoStamps THEN "down" ELSE "stopping"
    /\ Forget
    /\ latest' = [k \in Keys |-> Newest(key[k].stamp, dirty[k])]
    /\ UNCHANGED <<user, key, model, catalog, call, req, clock, dirty, raced>>

Crash ==
    /\ mode # "down" /\ Fault
    /\ mode' = "down"
    /\ Forget
    /\ dirty' = NoStamps
    /\ latest' = [k \in Keys |-> key[k].stamp]
    /\ req' = [r \in Reqs |-> IF req[r].phase = "new" THEN NewReq ELSE DoneReq]
    /\ call' = [c \in Calls |-> IF call[c].phase = "new" THEN NewCall ELSE DoneCall]
    /\ UNCHANGED <<user, key, model, catalog, clock, raced>>

\* lifespan before its yield: _seed makes an administrator if there is no user at all,
\* and brings in the catalogue of the release, which may be another one than before.
Boot ==
    /\ mode = "down"
    /\ mode' = "up"
    /\ user' = IF \E i \in Ids : Live(i) THEN user
               ELSE [user EXCEPT ![FreshId] = User("live", AnyName, "admin")]
    /\ catalog' \in Catalogs
    /\ model' = Seeded(model, catalog')
    /\ UNCHANGED <<key, call, faults, raced, stampVars>>

(***************************************************************************)
(* The specification.                                                      *)
(***************************************************************************)
CallBegins(c) ==
    \E i \in Ids : \/ \E n \in Names, r \in {"admin", "user"} : CreateUser(c, i, n, r)
                   \/ \E j \in Ids : DeleteUser(c, i, j)
                   \/ CreateKey(c, i)
                   \/ \E k \in Keys : RevokeKey(c, i, k)
                   \/ \E m \in Models : CreateModel(c, i, m) \/ DeleteModel(c, i, m)
                                         \/ DeployModel(c, i, m)

CallGoesOn(c) ==
    \/ InsertUser(c) \/ CountAdmins(c) \/ RemoveUser(c)
    \/ InsertKey(c) \/ StoreRevocation(c)
    \/ InsertModel(c) \/ RemoveModel(c)

FlushGoesOn == FlushCommit \/ FlushFails \/ \E k \in Keys : FlushWrite(k)

AccessNext ==
    \/ ClockTicks
    \/ \E c \in Calls : CallBegins(c) \/ CallGoesOn(c)
    \/ \E r \in Reqs : \/ RefuseBody(r) \/ FirstQuery(r) \/ EndRequest(r)
                     \/ \E k \in Keys : GetApiKey(r, k)
    \/ FlushStart \/ FlushGoesOn
    \/ ShutDown \/ Crash \/ Boot

AccessSpec == AccessInit /\ [][AccessNext]_accessVars

\* The server does not stop while it has something to do: a call that can go on, a
\* request that can end or a step of the flush.  Nothing says which comes first; each
\* happens a bounded number of times.  That an answer ends is an assumption about its two
\* ends, which the code bounds only in part: an upstream that falls silent is cut off
\* (STREAM_IDLE_TIMEOUT_SECONDS), one that goes on for ever is not, and a client that stops
\* reading is cut off by the nginx in front of the server, not on the server's own port.
Progress ==
    \/ \E c \in Calls : CallGoesOn(c)
    \/ \E r \in Reqs : EndRequest(r)
    \/ FlushStart \/ FlushCommit \/ \E k \in Keys : FlushWrite(k)

AccessFairness == WF_accessVars(Progress)

AccessFairSpec == AccessSpec /\ AccessFairness

(***************************************************************************)
(* Properties.                                                             *)
(***************************************************************************)

\* The newest stamp of a key is stored, in the flush in progress or still noted,
\* whatever requests stamp while a flush waits, fails and is put back
\* (flush_last_used_stamps: "newer stamps win via setdefault").  What is lost by a death of
\* the process or by a flush cancelled at shutdown does not count as the newest any more.
NewestStampKept ==
    \A k \in Keys : KeyLive(k) =>
        latest[k] = Newest(key[k].stamp, Newest(pending[k], dirty[k]))

\* The system keeps an administrator (delete_user: "cannot delete the last admin"),
\* unless two administrators were deleted by calls of which each had counted before
\* the other committed.  The count takes no lock, so that case exists.
AdminKept == mode = "up" => Admins # {} \/ raced

\* A stamp reaches the table, although the flush waits for rows that streaming
\* requests hold, unless the process dies or a shutdown cancels its flush (the stamp is
\* forgotten then) or the key is deleted.  It rests on answers that end (Progress).
StampsArrive ==
    \A k \in Keys : latest[k] > key[k].stamp ~> ~KeyLive(k) \/ key[k].stamp = latest[k]

\* "a custom model must not reuse a builtin name": no sequence of calls and restarts puts
\* a custom row under a name of the running catalogue, or leaves an entry without a row,
\* so the next start of the same release overwrites nobody's model.
BuiltinNamesReserved == mode = "up" => \A m \in catalog : model[m].life = "builtin"

\* Every API call returns: a revocation and a deletion wait for the rows that streaming
\* requests and the flush hold, and get them once those answers end (Progress).
CallsReturn == \A c \in Calls : call[c].phase # "new" ~> call[c].phase = "done"

\* No two sessions wait for each other, which is why they return: a request has the lock
\* of a row only while it relays, when it waits for no row any more, and only that of its
\* own key; the flush, which collects locks one by one, never waits for one that it has.
\* (The cascade of a user's deletion, which needs the rows of all its keys, is one step.)
NoWaitCycle ==
    \A k \in Keys :
        /\ lock[k] \in Reqs => mode = "up" /\ req[lock[k]].phase = "open" /\ req[lock[k]].key = k
        /\ lock[k] = Flush => flushing /\ k \notin todo

\* Nothing is left to be done for a stamp that is not stored: with no flush in progress and
\* nothing noted for the next one, every live key has its newest stamp in the table.
QuietMeansStored ==
    ~flushing /\ dirty = NoStamps => \A k \in Keys : KeyLive(k) => key[k].stamp = latest[k]

(***************************************************************************)
(* The inductive invariant.                                                *)
(***************************************************************************)

\* A process that is not up serves no call.
CallsOnlyUp == mode # "up" => \A c \in Calls : call[c].phase \in {"new", "done"}

\* Every insert that is under way finds an identifier (a bound of the model).
RoomIsKept ==
    /\ Inserting("create") = {} \/ Cardinality(FreshIds) > Cardinality(Inserting("create"))
    /\ Cardinality(FreshKeys) >= Cardinality(Inserting("issue"))

\* Stored, in flight and noted stamps of a key follow each other in time; a key that is
\* not issued yet has none.
StampsInOrder ==
    \A k \in Keys :
        /\ key[k].stamp <= clock /\ pending[k] <= clock /\ dirty[k] <= clock
        /\ key[k].life = "unborn" =>
             key[k].stamp = 0 /\ pending[k] = 0 /\ dirty[k] = 0 /\ latest[k] = 0
        /\ KeyLive(k) /\ pending[k] > 0 => key[k].stamp <= pending[k]
        /\ KeyLive(k) /\ dirty[k] > 0 => key[k].stamp <= dirty[k] /\ pending[k] <= dirty[k]
        /\ ~flushing => pending[k] = 0

\* A deletion that has counted leaves another administrator behind.
DeletesCounted ==
    \A c \in Calls : call[c].op = "delete" /\ call[c].phase \in {"read", "counted"} =>
        /\ user[call[c].id].life # "unborn"
        /\ call[c].phase = "counted" /\ ~raced /\ call[c].id \in Admins =>
             Admins \ {call[c].id} # {}

\* A deletion of a model that is under way is not about a builtin row.
DropsCustom ==
    \A c \in Calls : call[c].op = "drop" /\ call[c].phase = "read" =>
        /\ call[c].row <= model[call[c].model].row
        /\ call[c].row = model[call[c].model].row => model[call[c].model].life # "builtin"

AccessInv ==
    /\ AccessTypeOK /\ CallsOnlyUp /\ RoomIsKept
    /\ NewestStampKept /\ StampsInOrder
    /\ Admins # {} \/ raced
    /\ DeletesCounted
    /\ BuiltinNamesReserved /\ DropsCustom
=============================================================================
