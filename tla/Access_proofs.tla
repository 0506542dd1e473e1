---------------------------- MODULE Access_proofs --------------------------
(***************************************************************************)
(* Proofs about Access: the stamps of keys, the administrators and the     *)
(* builtin models are kept, for any number of users, keys, models, calls   *)
(* and requests, and any number of faults.                                 *)
(***************************************************************************)
EXTENDS Access, FiniteSetTheorems, TLAPS

(***************************************************************************)
(* Data.                                                                   *)
(***************************************************************************)

\* The default records are records.
LEMMA Defaults ==
    /\ AnyId \in Ids /\ AnyName \in Names /\ AnyKey \in Keys /\ AnyModel \in Models
    /\ 0 \in Times /\ 1 \in Times /\ Times \subseteq Nat
    /\ NewCall \in CallType /\ DoneCall \in CallType
    /\ NewReq \in ReqType /\ DoneReq \in ReqType
    /\ Unborn \in UserType /\ NoKey \in KeyType
    /\ NoStamps \in Stamps
<1>1. AnyId \in Ids
  BY AccessAssumption DEF AnyId
<1>2. AnyName \in Names
  BY AccessAssumption DEF AnyName
<1>3. AnyKey \in Keys /\ AnyModel \in Models
  BY AccessAssumption DEF AnyKey, AnyModel
<1>4. 0 \in Times /\ 1 \in Times /\ Times \subseteq Nat
  BY AccessAssumption DEF Times
<1>5. NewCall \in CallType
  BY <1>1, <1>2, <1>3 DEF NewCall, CallType
<1>6. DoneCall \in CallType
  BY <1>5 DEF DoneCall, CallType
<1>7. NewReq \in ReqType
  BY <1>3 DEF NewReq, ReqType
<1>8. DoneReq \in ReqType
  BY <1>7 DEF DoneReq, ReqType
<1>9. Unborn \in UserType /\ NoKey \in KeyType
  BY <1>1, <1>2, <1>4 DEF Unborn, User, UserType, NoKey, Key, KeyType
<1> QED BY <1>1, <1>2, <1>3, <1>4, <1>5, <1>6, <1>7, <1>8, <1>9 DEF NoStamps, Stamps

\* Reads off the records the actions build.
LEMMA Reads ==
    /\ NewCall.phase = "new" /\ DoneCall.phase = "done"
    /\ \A l, n, r : /\ User(l, n, r).life = l /\ User(l, n, r).name = n /\ User(l, n, r).role = r
  BY DEF NewCall, DoneCall, User

\* What the actions write is a row.
LEMMA Writes ==
    /\ \A l \in {"unborn", "live", "gone"}, n \in Names, r \in {"admin", "user"} :
         User(l, n, r) \in UserType
    /\ \A l \in {"unborn", "live", "gone"}, o \in Ids, v \in BOOLEAN, t \in Times :
         Key(l, o, v, t) \in KeyType
    /\ \A l \in {"none", "custom", "builtin"}, n \in Nat, d \in BOOLEAN : Model(l, n, d) \in ModelType
  BY DEF User, UserType, Key, KeyType, Model, ModelType

(***************************************************************************)
(* What the steps leave alone.                                             *)
(***************************************************************************)

\* The record a call begins with: what it has read is still so.
Begun(c, x) ==
    /\ call[c].phase = "new" /\ call' = [call EXCEPT ![c] = x]
    /\ x.phase = "read"
    /\ x.op = "create" => RoomForUser
    /\ x.op = "issue" => RoomForKey
    /\ x.op = "delete" => Live(x.id)
    /\ x.op = "drop" => Deletable(x.model) /\ x.row = model[x.model].row

\* A call begins by reading, except that a deployment is taken as one step.
LEMMA Beginning ==
    ASSUME AccessTypeOK, NEW c \in Calls, CallBegins(c)
    PROVE  /\ mode = "up" /\ UNCHANGED <<mode, user, key, catalog, faults, raced, stampVars>>
           /\ \/ model' = model /\ \E x \in CallType : Begun(c, x)
              \/ \E i \in Ids, m \in Models : DeployModel(c, i, m)
<1>0. ASSUME NEW x, call[c].phase = "new", call' = [call EXCEPT ![c] = x], x \in CallType,
             x.phase = "read",
             x.op = "create" => RoomForUser, x.op = "issue" => RoomForKey,
             x.op = "delete" => Live(x.id),
             x.op = "drop" => Deletable(x.model) /\ x.row = model[x.model].row
      PROVE  \E y \in CallType : Begun(c, y)
  BY <1>0 DEF Begun
<1> USE DEF Fresh, IsAdmin, Authenticated, catalogVars
<1>1. ASSUME NEW i \in Ids, NEW n \in Names, NEW r \in {"admin", "user"}, CreateUser(c, i, n, r)
      PROVE  \E x \in CallType : Begun(c, x)
  <2> DEFINE x == [NewCall EXCEPT !.phase = "read", !.op = "create", !.name = n, !.role = r]
  <2>1. x \in CallType /\ x.phase = "read" /\ x.op = "create"
    BY Defaults DEF CallType
  <2>2. call[c].phase = "new" /\ call' = [call EXCEPT ![c] = x] /\ RoomForUser
    BY <1>1 DEF CreateUser
  <2> QED BY <1>0, <2>1, <2>2
<1>2. ASSUME NEW i \in Ids, NEW j \in Ids, DeleteUser(c, i, j)
      PROVE  \E x \in CallType : Begun(c, x)
  <2> DEFINE x == [NewCall EXCEPT !.phase = "read", !.op = "delete", !.id = j]
  <2>1. x \in CallType /\ x.phase = "read" /\ x.op = "delete" /\ x.id = j
    BY Defaults DEF CallType
  <2>2. call[c].phase = "new" /\ call' = [call EXCEPT ![c] = x] /\ Live(j)
    BY <1>2 DEF DeleteUser
  <2> HIDE DEF x
  <2> QED BY <1>0, <2>1, <2>2
<1>3. ASSUME NEW i \in Ids, CreateKey(c, i)
      PROVE  \E x \in CallType : Begun(c, x)
  <2> DEFINE x == [NewCall EXCEPT !.phase = "read", !.op = "issue", !.who = i]
  <2>1. x \in CallType /\ x.phase = "read" /\ x.op = "issue"
    BY Defaults DEF CallType
  <2>2. call[c].phase = "new" /\ call' = [call EXCEPT ![c] = x] /\ RoomForKey
    BY <1>3 DEF CreateKey
  <2> HIDE DEF x
  <2> QED BY <1>0, <2>1, <2>2
<1>4. ASSUME NEW i \in Ids, NEW k \in Keys, RevokeKey(c, i, k)
      PROVE  \E x \in CallType : Begun(c, x)
  <2> DEFINE x == [NewCall EXCEPT !.phase = "read", !.op = "revoke", !.key = k]
  <2>1. x \in CallType /\ x.phase = "read" /\ x.op = "revoke"
    BY Defaults DEF CallType
  <2>2. call[c].phase = "new" /\ call' = [call EXCEPT ![c] = x]
    BY <1>4 DEF RevokeKey
  <2> HIDE DEF x
  <2> QED BY <1>0, <2>1, <2>2
<1>5. ASSUME NEW i \in Ids, NEW m \in Models, CreateModel(c, i, m)
      PROVE  \E x \in CallType : Begun(c, x)
  <2> DEFINE x == [NewCall EXCEPT !.phase = "read", !.op = "add", !.model = m]
  <2>1. x \in CallType /\ x.phase = "read" /\ x.op = "add"
    BY Defaults DEF CallType
  <2>2. call[c].phase = "new" /\ call' = [call EXCEPT ![c] = x]
    BY <1>5 DEF CreateModel
  <2> HIDE DEF x
  <2> QED BY <1>0, <2>1, <2>2
<1>6. ASSUME NEW i \in Ids, NEW m \in Models, DeleteModel(c, i, m)
      PROVE  \E x \in CallType : Begun(c, x)
  <2> DEFINE x == [NewCall EXCEPT !.phase = "read", !.op = "drop", !.model = m, !.row = model[m].row]
  <2>0. model[m].row \in Nat
    BY DEF AccessTypeOK, ModelType
  <2>1. /\ x \in CallType /\ x.phase = "read" /\ x.op = "drop" /\ x.model = m
        /\ x.row = model[m].row
    BY <2>0, Defaults DEF CallType
  <2>2. call[c].phase = "new" /\ call' = [call EXCEPT ![c] = x] /\ Deletable(m)
    BY <1>6 DEF DeleteModel
  <2> HIDE DEF x
  <2> QED BY <1>0, <2>1, <2>2
<1>7. PICK i \in Ids : \/ \E n \in Names, r \in {"admin", "user"} : CreateUser(c, i, n, r)
                       \/ \E j \in Ids : DeleteUser(c, i, j)
                       \/ CreateKey(c, i)
                       \/ \E k \in Keys : RevokeKey(c, i, k)
                       \/ \E m \in Models : CreateModel(c, i, m) \/ DeleteModel(c, i, m)
                       \/ \E m \in Models : DeployModel(c, i, m)
  BY DEF CallBegins
<1>8. /\ mode = "up" /\ UNCHANGED <<mode, user, key, catalog, faults, raced, stampVars>>
      /\ model' = model \/ \E m \in Models : DeployModel(c, i, m)
  BY <1>7 DEF CreateUser, DeleteUser, CreateKey, RevokeKey, CreateModel, DeleteModel, DeployModel
<1> QED BY <1>1, <1>2, <1>3, <1>4, <1>5, <1>6, <1>7, <1>8

\* The commit of a call ends it, except for the count of a deletion.
LEMMA GoingOn ==
    ASSUME NEW c \in Calls, CallGoesOn(c)
    PROVE  /\ mode = "up" /\ UNCHANGED <<mode, catalog, faults, stampVars>>
           /\ call[c].phase \in {"read", "counted"}
           /\ CallEnds(c) \/ (CountAdmins(c) /\ CallMoves(c, "counted"))
           /\ user' = user \/ InsertUser(c) \/ RemoveUser(c)
           /\ key' = key \/ RemoveUser(c) \/ InsertKey(c) \/ StoreRevocation(c)
           /\ model' = model \/ InsertModel(c) \/ RemoveModel(c)
           /\ raced' = raced \/ RemoveUser(c)
  BY DEF CallGoesOn, CallIs, InsertUser, CountAdmins, RemoveUser, InsertKey, StoreRevocation,
         InsertModel, RemoveModel, catalogVars

\* Requests, the flush and the clock leave calls, users and models alone.
LEMMA Background ==
    ASSUME AccessNext, ~(\E c \in Calls : CallBegins(c) \/ CallGoesOn(c)), ~Crash, ~Boot
    PROVE  UNCHANGED <<user, model, catalog, call, raced>>
  BY DEF AccessNext, ClockTicks, RefuseBody, FirstQuery, EndRequest, GetApiKey, FlushStart,
         FlushGoesOn, FlushCommit, FlushFails, FlushWrite, AfterFlush, ShutDown, callVars

\* The process leaves "up" only by a shutdown or a crash.
LEMMA ModeFrame ==
    ASSUME AccessTypeOK, [AccessNext]_accessVars, mode = "up", mode' # "up"
    PROVE  Crash \/ ShutDown
<1>1. CASE \E c \in Calls : CallBegins(c) \/ CallGoesOn(c)
  BY <1>1, Beginning, GoingOn
<1>2. CASE AccessNext /\ ~(\E c \in Calls : CallBegins(c) \/ CallGoesOn(c))
  BY <1>2 DEF AccessNext, ClockTicks, RefuseBody, FirstQuery, EndRequest, GetApiKey, FlushStart,
         FlushGoesOn, FlushCommit, FlushFails, FlushWrite, AfterFlush, Boot, callVars
<1>3. CASE UNCHANGED accessVars
  BY <1>3 DEF accessVars
<1> QED BY <1>1, <1>2, <1>3

(***************************************************************************)
(* Calls.                                                                  *)
(***************************************************************************)

\* A call stays as it is, ends, is forgotten, begins, or has counted.
CallMoved(c) ==
    \/ call'[c] = call[c]
    \/ call'[c].phase \in {"new", "done"}
    \/ Begun(c, call'[c]) /\ mode' = "up" /\ UNCHANGED <<user, key, model, raced>>
    \/ /\ CountAdmins(c) /\ mode' = "up"
       /\ call'[c] = [call[c] EXCEPT !.phase = "counted"]

\* Every step moves every call in one of these ways, and keeps its type.
LEMMA CallStep ==
    ASSUME AccessInv, [AccessNext]_accessVars
    PROVE  /\ call' \in [Calls -> CallType] /\ CallsOnlyUp'
           /\ \A d \in Calls : CallMoved(d)
<1>0. AccessTypeOK /\ CallsOnlyUp /\ call \in [Calls -> CallType]
  BY DEF AccessInv, AccessTypeOK
<1>1. ASSUME NEW c \in Calls, CallBegins(c)
      PROVE  call' \in [Calls -> CallType] /\ CallsOnlyUp' /\ \A d \in Calls : CallMoved(d)
  <2>0. mode' = "up" /\ UNCHANGED <<user, key, raced>>
    BY <1>0, <1>1, Beginning
  <2>1. CASE \E x \in CallType : model' = model /\ Begun(c, x)
    <3>1. PICK x \in CallType : model' = model /\ Begun(c, x)
      BY <2>1
    <3>2. call' = [call EXCEPT ![c] = x]
      BY <3>1 DEF Begun
    <3>3. call' \in [Calls -> CallType] /\ call'[c] = x /\ \A d \in Calls \ {c} : call'[d] = call[d]
      BY <1>0, <3>2
    <3> QED BY <2>0, <3>1, <3>3 DEF CallsOnlyUp, CallMoved
  <2>2. CASE \E i \in Ids, m \in Models : DeployModel(c, i, m)
    <3>1. call' = [call EXCEPT ![c] = DoneCall]
      BY <2>2 DEF DeployModel, CallEnds
    <3>2. call' \in [Calls -> CallType] /\ call'[c] = DoneCall /\ \A d \in Calls \ {c} : call'[d] = call[d]
      BY <1>0, <3>1, Defaults
    <3> QED BY <2>0, <3>2, Reads DEF CallsOnlyUp, CallMoved
  <2> QED BY <1>0, <1>1, <2>1, <2>2, Beginning
<1>2. ASSUME NEW c \in Calls, CallGoesOn(c)
      PROVE  call' \in [Calls -> CallType] /\ CallsOnlyUp' /\ \A d \in Calls : CallMoved(d)
  <2>0. mode' = "up"
    BY <1>2, GoingOn
  <2>1. CASE CallEnds(c)
    <3>1. call' \in [Calls -> CallType] /\ call'[c] = DoneCall /\ \A d \in Calls \ {c} : call'[d] = call[d]
      BY <1>0, <2>1, Defaults DEF CallEnds
    <3> QED BY <2>0, <3>1, Reads DEF CallsOnlyUp, CallMoved
  <2>2. CASE CountAdmins(c) /\ CallMoves(c, "counted")
    <3>0. [call[c] EXCEPT !.phase = "counted"] \in CallType
      BY <1>0 DEF CallType
    <3>1. /\ call' \in [Calls -> CallType] /\ call'[c] = [call[c] EXCEPT !.phase = "counted"]
          /\ \A d \in Calls \ {c} : call'[d] = call[d]
      BY <1>0, <2>2, <3>0 DEF CallMoves
    <3> QED BY <2>0, <2>2, <3>1 DEF CallsOnlyUp, CallMoved
  <2> QED BY <1>2, <2>1, <2>2, GoingOn
<1>3. CASE Crash
  <2>1. call' = [c \in Calls |-> IF call[c].phase = "new" THEN NewCall ELSE DoneCall]
    BY <1>3 DEF Crash
  <2>2. call' \in [Calls -> CallType] /\ \A d \in Calls : call'[d].phase \in {"new", "done"}
    BY <2>1, Defaults, Reads
  <2> QED BY <2>2 DEF CallsOnlyUp, CallMoved
<1>4. CASE call' = call
  <2>1. CASE mode' # "up" /\ mode = "up"
    <3>1. Crash \/ ShutDown
      BY <1>0, <2>1, ModeFrame
    <3> QED BY <1>0, <1>3, <1>4, <3>1 DEF CallsOnlyUp, CallMoved, ShutDown
  <2>2. CASE mode' = "up" \/ mode # "up"
    BY <1>0, <1>4, <2>2 DEF CallsOnlyUp, CallMoved
  <2> QED BY <2>1, <2>2
<1>5. call' = call \/ Crash \/ \E c \in Calls : CallBegins(c) \/ CallGoesOn(c)
  BY Background DEF accessVars, Boot
<1> QED BY <1>1, <1>2, <1>3, <1>4, <1>5

(***************************************************************************)
(* Room for the inserts under way.                                         *)
(***************************************************************************)

\* The sets that are counted are finite.
LEMMA Counted ==
    /\ IsFiniteSet(FreshIds) /\ Cardinality(FreshIds) \in Nat
    /\ IsFiniteSet(FreshKeys) /\ Cardinality(FreshKeys) \in Nat
    /\ IsFiniteSet(Admins) /\ Cardinality(Admins) \in Nat
    /\ \A o : IsFiniteSet(Inserting(o)) /\ Cardinality(Inserting(o)) \in Nat
<1>1. IsFiniteSet(Calls)
  BY AccessAssumption, FS_Interval DEF Calls
<1>2. /\ FreshIds \subseteq Ids /\ FreshKeys \subseteq Keys /\ Admins \subseteq Ids
      /\ \A o : Inserting(o) \subseteq Calls
  BY DEF FreshIds, FreshKeys, Admins, Inserting
<1> QED BY <1>1, <1>2, AccessAssumption, FS_Subset, FS_CardinalityType

\* An insert under way finds an identifier that was never used.
LEMMA FreshIdFound ==
    ASSUME RoomIsKept, NEW c \in Calls, CallIs(c, "read", "create")
    PROVE  FreshId \in FreshIds
<1>1. c \in Inserting("create")
  BY DEF CallIs, Inserting
<1>2. Cardinality(FreshIds) > 0
  BY <1>1, Counted DEF RoomIsKept
<1>3. FreshIds # {}
  BY <1>2, FS_EmptySet
<1> QED BY <1>3 DEF FreshId

LEMMA FreshKeyFound ==
    ASSUME RoomIsKept, NEW c \in Calls, CallIs(c, "read", "issue")
    PROVE  FreshKey \in FreshKeys
<1>1. c \in Inserting("issue")
  BY DEF CallIs, Inserting
<1>2. Inserting("issue") # {}
  BY <1>1
<1>3. Cardinality(Inserting("issue")) # 0
  BY <1>2, Counted, FS_EmptySet
<1>4. Cardinality(FreshKeys) > 0
  BY <1>3, Counted DEF RoomIsKept
<1>5. FreshKeys # {}
  BY <1>4, FS_EmptySet
<1> QED BY <1>5 DEF FreshKey

(***************************************************************************)
(* Users.                                                                  *)
(***************************************************************************)

\* The users table moves by an insert of an unused identifier, by a deletion, or at a
\* start that finds no user.
UserMoved ==
    \/ user' = user /\ raced' = raced
    \/ \E c \in Calls : /\ InsertUser(c) /\ FreshId \in FreshIds /\ NameFree(call[c].name)
                        /\ user' = [user EXCEPT ![FreshId] = User("live", call[c].name, call[c].role)]
                        /\ raced' = raced
    \/ \E c \in Calls : RemoveUser(c)
    \/ /\ Boot /\ \A i \in Ids : ~Live(i)
       /\ user' = [user EXCEPT ![FreshId] = User("live", AnyName, "admin")]
       /\ raced' = raced

LEMMA UserFrame ==
    ASSUME AccessInv, [AccessNext]_accessVars
    PROVE  UserMoved
<1>0. AccessTypeOK /\ RoomIsKept
  BY DEF AccessInv
<1>1. ASSUME NEW c \in Calls, CallBegins(c) PROVE UserMoved
  BY <1>0, <1>1, Beginning DEF UserMoved
<1>2. ASSUME NEW c \in Calls, CallGoesOn(c) PROVE UserMoved
  <2>1. CASE InsertUser(c)
    <3>1. FreshId \in FreshIds /\ raced' = raced
      BY <1>0, <2>1, FreshIdFound DEF InsertUser
    <3> QED BY <2>1, <3>1 DEF InsertUser, NameInsertable, UserMoved
  <2>2. CASE RemoveUser(c)
    BY <2>2 DEF UserMoved
  <2> QED BY <1>2, <2>1, <2>2, GoingOn DEF UserMoved
<1>3. CASE Boot
  BY <1>3 DEF Boot, UserMoved
<1>4. CASE Crash \/ UNCHANGED accessVars
  BY <1>4 DEF Crash, accessVars, UserMoved
<1>5. CASE AccessNext /\ ~(\E c \in Calls : CallBegins(c) \/ CallGoesOn(c)) /\ ~Crash /\ ~Boot
  BY <1>5, Background DEF UserMoved
<1> QED BY <1>1, <1>2, <1>3, <1>4, <1>5

\* The table stays typed, names stay unique.
LEMMA UserStep ==
    ASSUME AccessInv, [AccessNext]_accessVars
    PROVE  /\ user' \in [Ids -> UserType] /\ raced' \in BOOLEAN
           /\ \A i, j \in Ids : Live(i)' /\ Live(j)' /\ user'[i].name = user'[j].name => i = j
<1> USE DEF Live
<1>0. /\ user \in [Ids -> UserType] /\ raced \in BOOLEAN /\ call \in [Calls -> CallType]
      /\ \A i, j \in Ids : Live(i) /\ Live(j) /\ user[i].name = user[j].name => i = j
  BY DEF AccessInv, AccessTypeOK
<1>1. CASE user' = user /\ raced' = raced
  BY <1>0, <1>1
<1>2. ASSUME NEW c \in Calls, FreshId \in FreshIds, NameFree(call[c].name), raced' = raced,
             user' = [user EXCEPT ![FreshId] = User("live", call[c].name, call[c].role)]
      PROVE  /\ user' \in [Ids -> UserType] /\ raced' \in BOOLEAN
             /\ \A i, j \in Ids : Live(i)' /\ Live(j)' /\ user'[i].name = user'[j].name => i = j
  <2>1. call[c].name \in Names /\ call[c].role \in {"admin", "user"} /\ FreshId \in Ids
    BY <1>0, <1>2 DEF CallType, FreshIds
  <2>2. User("live", call[c].name, call[c].role) \in UserType
    BY <2>1, Writes
  <2>3. user'[FreshId].name = call[c].name /\ \A i \in Ids \ {FreshId} : user'[i] = user[i]
    BY <1>0, <1>2, <2>1, Reads
  <2>4. \A i \in Ids \ {FreshId} : Live(i)' => user'[i].name # call[c].name
    BY <1>2, <2>3 DEF NameFree
  <2>5. user' \in [Ids -> UserType]
    BY <1>0, <1>2, <2>2
  <2> QED BY <1>0, <1>2, <2>3, <2>4, <2>5
<1>3. ASSUME NEW c \in Calls, RemoveUser(c)
      PROVE  /\ user' \in [Ids -> UserType] /\ raced' \in BOOLEAN
             /\ \A i, j \in Ids : Live(i)' /\ Live(j)' /\ user'[i].name = user'[j].name => i = j
  <2>1. user' = [user EXCEPT ![call[c].id] = User("gone", AnyName, "user")] /\ raced' \in BOOLEAN
    BY <1>0, <1>3 DEF RemoveUser
  <2>2. User("gone", AnyName, "user") \in UserType
    BY Writes, Defaults
  <2>3. \A i \in Ids : user'[i] = user[i] \/ user'[i].life = "gone"
    BY <1>0, <2>1, Reads
  <2>4. user' \in [Ids -> UserType]
    BY <1>0, <2>1, <2>2
  <2>5. \A i \in Ids : Live(i)' => Live(i) /\ user'[i] = user[i]
    BY <2>3
  <2> QED BY <1>0, <2>1, <2>4, <2>5
<1>4. ASSUME \A i \in Ids : ~Live(i), raced' = raced,
             user' = [user EXCEPT ![FreshId] = User("live", AnyName, "admin")]
      PROVE  /\ user' \in [Ids -> UserType] /\ raced' \in BOOLEAN
             /\ \A i, j \in Ids : Live(i)' /\ Live(j)' /\ user'[i].name = user'[j].name => i = j
  <2>1. User("live", AnyName, "admin") \in UserType
    BY Writes, Defaults
  <2>2. \A i \in Ids : i # FreshId => user'[i] = user[i]
    BY <1>0, <1>4
  <2> QED BY <1>0, <1>4, <2>1, <2>2
<1> QED BY <1>1, <1>2, <1>3, <1>4, UserFrame DEF UserMoved

\* What a deletion does to the set of administrators.
LEMMA RemoveAdmins ==
    ASSUME AccessTypeOK, NEW c \in Calls, RemoveUser(c)
    PROVE  /\ Admins' = Admins \ {call[c].id}
           /\ \A i \in Ids \ {call[c].id} : user'[i] = user[i]
           /\ call[c].id \in Ids /\ user'[call[c].id].life = "gone"
           /\ call'[c] = DoneCall /\ \A d \in Calls \ {c} : call'[d] = call[d]
<1>1. call[c].id \in Ids /\ user \in [Ids -> UserType] /\ call \in [Calls -> CallType]
  BY DEF AccessTypeOK, CallType
<1>2. /\ user' = [user EXCEPT ![call[c].id] = User("gone", AnyName, "user")]
      /\ call' = [call EXCEPT ![c] = DoneCall]
  BY DEF RemoveUser, CallEnds
<1>3. /\ user'[call[c].id].life = "gone"
      /\ \A i \in Ids \ {call[c].id} : user'[i] = user[i]
  BY <1>1, <1>2, Reads
<1>4. call'[c] = DoneCall /\ \A d \in Calls \ {c} : call'[d] = call[d]
  BY <1>1, <1>2
<1> QED BY <1>1, <1>3, <1>4 DEF Admins, Live

\* Without a race, a deletion of an administrator leaves another one, and leaves one to
\* every other deletion that has counted.
LEMMA RemoveKeepsAdmins ==
    ASSUME AccessInv, NEW c \in Calls, RemoveUser(c)
    PROVE  (Admins # {} \/ raced)' /\ DeletesCounted'
<1>0. AccessTypeOK /\ DeletesCounted /\ (Admins # {} \/ raced) /\ mode = "up"
  BY DEF AccessInv, RemoveUser, CallIs
<1> DEFINE i == call[c].id
<1>1. /\ Admins' = Admins \ {i} /\ call'[c] = DoneCall /\ \A d \in Calls \ {c} : call'[d] = call[d]
      /\ \A j \in Ids \ {i} : user'[j] = user[j]
      /\ i \in Ids /\ user'[i].life = "gone"
  BY <1>0, RemoveAdmins
<1>2. call[c].op = "delete" /\ call[c].phase = "counted"
  BY DEF RemoveUser, CallIs
<1>3. raced' = (raced \/ (i \in Admins /\ \E d \in Calls \ {c} :
                            CallIs(d, "counted", "delete") /\ call[d].id \in Admins \ {i}))
  BY DEF RemoveUser
<1>4. (Admins # {} \/ raced)'
  <2>1. CASE i \in Admins
    BY <1>0, <1>1, <1>2, <1>3, <2>1 DEF DeletesCounted
  <2>2. CASE i \notin Admins
    BY <1>0, <1>1, <1>3, <2>2
  <2> QED BY <2>1, <2>2
<1>5. DeletesCounted'
  <2> SUFFICES ASSUME NEW d \in Calls, call'[d].op = "delete", call'[d].phase \in {"read", "counted"}
               PROVE  /\ user'[call'[d].id].life # "unborn"
                      /\ call'[d].phase = "counted" /\ ~raced' /\ call'[d].id \in Admins' =>
                           Admins' \ {call'[d].id} # {}
    BY DEF DeletesCounted
  <2>1. d # c /\ call'[d] = call[d]
    BY <1>1, Reads
  <2>2. call[d].id \in Ids
    BY <1>0 DEF AccessTypeOK, CallType
  <2>3. user'[call'[d].id].life # "unborn"
    BY <1>0, <1>1, <2>1, <2>2 DEF DeletesCounted
  <2>4. ASSUME call'[d].phase = "counted", ~raced', call'[d].id \in Admins'
        PROVE  Admins' \ {call'[d].id} # {}
    <3>1. CallIs(d, "counted", "delete") /\ call[d].id \in Admins \ {i}
      BY <1>0, <1>1, <2>1, <2>4 DEF CallIs
    <3>2. i \notin Admins /\ ~raced
      BY <1>3, <2>1, <2>4, <3>1
    <3>3. Admins \ {call[d].id} # {}
      BY <1>0, <2>1, <2>4, <3>1, <3>2 DEF DeletesCounted
    <3> QED BY <1>1, <2>1, <3>2, <3>3
  <2> QED BY <2>3, <2>4
<1> QED BY <1>4, <1>5

\* A count that goes on has seen two administrators, if it is about one.
LEMMA CountSees ==
    ASSUME AccessTypeOK, NEW c \in Calls, CountAdmins(c),
           call'[c] = [call[c] EXCEPT !.phase = "counted"]
    PROVE  call[c].id \in Admins => Admins \ {call[c].id} # {}
<1>1. call[c] \in CallType /\ call \in [Calls -> CallType]
  BY DEF AccessTypeOK
<1>2. call'[c].phase = "counted"
  BY <1>1 DEF CallType
<1>3. ASSUME CallEnds(c) PROVE FALSE
  BY <1>1, <1>2, <1>3, Reads DEF CallEnds
<1>4. ~(user[call[c].id].role = "admin" /\ Cardinality(Admins) <= 1)
  BY <1>3 DEF CountAdmins
<1>5. ASSUME call[c].id \in Admins, Admins \ {call[c].id} = {} PROVE FALSE
  <2>1. Admins = {call[c].id}
    BY <1>5
  <2>2. Cardinality(Admins) = 1
    BY <2>1, FS_Singleton
  <2> QED BY <1>4, <1>5, <2>2 DEF Admins
<1> QED BY <1>5

\* The system keeps an administrator, and deletions under way are sound.
LEMMA AdminStep ==
    ASSUME AccessInv, [AccessNext]_accessVars
    PROVE  (Admins # {} \/ raced)' /\ DeletesCounted'
<1>0. /\ AccessTypeOK /\ DeletesCounted /\ (Admins # {} \/ raced) /\ CallsOnlyUp
      /\ user \in [Ids -> UserType] /\ call \in [Calls -> CallType]
  BY DEF AccessInv, AccessTypeOK
<1>1. CASE \E c \in Calls : RemoveUser(c)
  BY <1>1, RemoveKeepsAdmins
<1>2. ASSUME raced' = raced, Admins \subseteq Admins',
             \A i \in Ids : user[i].life # "unborn" => user'[i].life # "unborn",
             \A c \in Calls : call[c].op = "delete" /\ call[c].phase \in {"read", "counted"}
               => (call[c].id \in Admins' => call[c].id \in Admins)
      PROVE  (Admins # {} \/ raced)' /\ DeletesCounted'
  <2>1. (Admins # {} \/ raced)'
    BY <1>0, <1>2
  <2>2. ASSUME NEW c \in Calls, call'[c].op = "delete", call'[c].phase \in {"read", "counted"}
        PROVE  /\ user'[call'[c].id].life # "unborn"
               /\ call'[c].phase = "counted" /\ ~raced' /\ call'[c].id \in Admins' =>
                    Admins' \ {call'[c].id} # {}
    <3>0. CallMoved(c) /\ call[c] \in CallType /\ call'[c] \in CallType
      BY <1>0, CallStep
    <3>1. CASE call'[c] = call[c]
      <4>1. call[c].id \in Ids
        BY <3>0 DEF CallType
      <4> QED BY <1>0, <1>2, <2>2, <3>1, <4>1 DEF DeletesCounted
    <3>2. CASE Begun(c, call'[c]) /\ user' = user
      BY <2>2, <3>2 DEF Begun, Live
    <3>3. CASE CountAdmins(c) /\ call'[c] = [call[c] EXCEPT !.phase = "counted"]
      <4>1. call'[c].id = call[c].id /\ call[c].op = "delete" /\ call[c].phase = "read" /\ call[c].id \in Ids
        BY <3>0, <3>3 DEF CallType, CountAdmins, CallIs
      <4>2. user[call[c].id].life # "unborn"
        BY <1>0, <4>1 DEF DeletesCounted
      <4>3. call[c].id \in Admins => Admins \ {call[c].id} # {}
        BY <1>0, <3>3, CountSees
      <4> QED BY <1>2, <4>1, <4>2, <4>3
    <3> QED BY <2>2, <3>0, <3>1, <3>2, <3>3 DEF CallMoved
  <2> QED BY <2>1, <2>2 DEF DeletesCounted
<1>3. CASE user' = user /\ raced' = raced
  <2>1. Admins' = Admins
    BY <1>3 DEF Admins, Live
  <2> QED BY <1>2, <1>3, <2>1
<1>4. ASSUME NEW c \in Calls, FreshId \in FreshIds, raced' = raced,
             user' = [user EXCEPT ![FreshId] = User("live", call[c].name, call[c].role)]
      PROVE  (Admins # {} \/ raced)' /\ DeletesCounted'
  <2>1. /\ FreshId \in Ids /\ user[FreshId].life = "unborn"
        /\ user'[FreshId].life = "live" /\ \A i \in Ids \ {FreshId} : user'[i] = user[i]
    BY <1>0, <1>4, Reads DEF FreshIds
  <2>2. Admins \subseteq Admins' /\ Admins' \subseteq Admins \cup {FreshId}
    BY <2>1 DEF Admins, Live
  <2>3. \A d \in Calls : call[d].op = "delete" /\ call[d].phase \in {"read", "counted"}
          => call[d].id # FreshId
    BY <1>0, <2>1 DEF DeletesCounted
  <2> QED BY <1>2, <1>4, <2>1, <2>2, <2>3
<1>5. ASSUME Boot, \A i \in Ids : ~Live(i), raced' = raced PROVE (Admins # {} \/ raced)' /\ DeletesCounted'
  <2>1. Admins = {} /\ raced
    BY <1>0, <1>5 DEF Admins
  <2>2. \A c \in Calls : call'[c].phase \in {"new", "done"}
    BY <1>0, <1>5 DEF Boot, CallsOnlyUp
  <2> QED BY <1>5, <2>1, <2>2 DEF DeletesCounted
<1> QED BY <1>1, <1>3, <1>4, <1>5, UserFrame DEF UserMoved

(***************************************************************************)
(* Keys and their stamps.                                                  *)
(***************************************************************************)

\* The rows of the keys after a commit of the flush.
Stored == [k \in Keys |-> IF pending[k] > 0 /\ KeyLive(k)
                            THEN [key[k] EXCEPT !.stamp = pending[k]] ELSE key[k]]

\* The table of keys moves by an insert of an unused identifier, by a deletion of the
\* owner, by a revocation, or by a commit of the flush.
KeyMoved ==
    \/ key' = key
    \/ \E c \in Calls : RemoveUser(c)
    \/ \E c \in Calls : /\ InsertKey(c) /\ FreshKey \in FreshKeys /\ Live(call[c].who)
                        /\ key' = [key EXCEPT ![FreshKey] = Key("live", call[c].who, FALSE, 0)]
    \/ \E c \in Calls : /\ StoreRevocation(c)
                        /\ key' = [key EXCEPT ![call[c].key] = [key[call[c].key] EXCEPT !.revoked = TRUE]]
    \/ FlushCommit

LEMMA KeyFrame ==
    ASSUME AccessInv, [AccessNext]_accessVars
    PROVE  KeyMoved
<1>0. AccessTypeOK /\ RoomIsKept
  BY DEF AccessInv
<1>1. ASSUME NEW c \in Calls, CallBegins(c) PROVE KeyMoved
  BY <1>0, <1>1, Beginning DEF KeyMoved
<1>2. ASSUME NEW c \in Calls, CallGoesOn(c) PROVE KeyMoved
  <2>1. CASE InsertKey(c)
    <3>1. FreshKey \in FreshKeys
      BY <1>0, <2>1, FreshKeyFound DEF InsertKey
    <3> QED BY <2>1, <3>1 DEF InsertKey, KeyMoved
  <2>2. CASE StoreRevocation(c)
    BY <2>2 DEF StoreRevocation, KeyMoved
  <2> QED BY <1>2, <2>1, <2>2, GoingOn DEF KeyMoved
<1>3. CASE AccessNext /\ ~(\E c \in Calls : CallBegins(c) \/ CallGoesOn(c))
  BY <1>3 DEF AccessNext, ClockTicks, RefuseBody, FirstQuery, EndRequest, GetApiKey, FlushStart,
         FlushGoesOn, FlushFails, FlushWrite, AfterFlush, ShutDown, Crash, Boot, KeyMoved
<1>4. CASE UNCHANGED accessVars
  BY <1>4 DEF accessVars, KeyMoved
<1> QED BY <1>1, <1>2, <1>3, <1>4

\* A row of the table of keys stays, is inserted unused, is deleted with its owner, is
\* revoked, or gets the stamp of the flush; only a commit touches stamps of live rows.
RowOfKey(k) ==
    \/ key'[k] = key[k]
    \/ /\ key[k].life = "unborn" /\ key'[k].life = "live" /\ key'[k].stamp = 0
       /\ user'[key'[k].owner].life = "live"
    \/ key[k].life = "live" /\ key'[k].life = "gone" /\ key'[k].stamp = 0
    \/ /\ key'[k].life = key[k].life /\ key'[k].owner = key[k].owner
       /\ key'[k].stamp = key[k].stamp
    \/ /\ FlushCommit /\ pending[k] > 0 /\ KeyLive(k)
       /\ key'[k].life = key[k].life /\ key'[k].owner = key[k].owner
       /\ key'[k].stamp = pending[k]

\* The types of keys and where their rows come from.
LEMMA KeyStep ==
    ASSUME AccessInv, [AccessNext]_accessVars
    PROVE  /\ key' \in [Keys -> KeyType]
           /\ \A k \in Keys : RowOfKey(k)
           /\ ~FlushCommit => \A k \in Keys : KeyLive(k) /\ KeyLive(k)' => key'[k].stamp = key[k].stamp
<1>0. /\ AccessTypeOK /\ key \in [Keys -> KeyType] /\ call \in [Calls -> CallType]
      /\ pending \in [Keys -> Times]
  BY DEF AccessInv, AccessTypeOK, Stamps
<1> DEFINE Goal == /\ key' \in [Keys -> KeyType]
                   /\ \A k \in Keys : RowOfKey(k)
                   /\ ~FlushCommit => \A k \in Keys : KeyLive(k) /\ KeyLive(k)' => key'[k].stamp = key[k].stamp
<1>1. CASE key' = key
  BY <1>0, <1>1 DEF RowOfKey
<1>2. ASSUME NEW c \in Calls, RemoveUser(c) PROVE Goal
  <2>1. key' = [k \in Keys |-> IF k \in KeysOf(call[c].id) THEN Key("gone", AnyId, FALSE, 0) ELSE key[k]]
    BY <1>2 DEF RemoveUser
  <2>2. Key("gone", AnyId, FALSE, 0) \in KeyType
    BY Writes, Defaults
  <2>3. \A k \in Keys : \/ key'[k] = key[k]
                        \/ KeyLive(k) /\ key'[k].life = "gone" /\ key'[k].stamp = 0
    BY <2>1 DEF KeysOf, Key
  <2>4. key' \in [Keys -> KeyType]
    BY <1>0, <2>1, <2>2
  <2> QED BY <2>3, <2>4 DEF RowOfKey, KeyLive
<1>3. ASSUME NEW c \in Calls, InsertKey(c), FreshKey \in FreshKeys, Live(call[c].who),
             key' = [key EXCEPT ![FreshKey] = Key("live", call[c].who, FALSE, 0)]
      PROVE  Goal
  <2>1. call[c].who \in Ids /\ FreshKey \in Keys /\ key[FreshKey].life = "unborn" /\ user' = user
    BY <1>0, <1>3 DEF CallType, FreshKeys, InsertKey
  <2>2. Key("live", call[c].who, FALSE, 0) \in KeyType
    BY <2>1, Writes, Defaults
  <2>3. /\ key'[FreshKey].life = "live" /\ key'[FreshKey].stamp = 0 /\ key'[FreshKey].owner = call[c].who
        /\ \A k \in Keys \ {FreshKey} : key'[k] = key[k]
    BY <1>0, <1>3, <2>1 DEF Key
  <2>4. key' \in [Keys -> KeyType]
    BY <1>0, <1>3, <2>2
  <2> QED BY <1>3, <2>1, <2>3, <2>4 DEF RowOfKey, KeyLive, Live
<1>4. ASSUME NEW c \in Calls,
             key' = [key EXCEPT ![call[c].key] = [key[call[c].key] EXCEPT !.revoked = TRUE]]
      PROVE  Goal
  <2>1. call[c].key \in Keys /\ key[call[c].key] \in KeyType
    BY <1>0 DEF CallType
  <2>2. LET x == [key[call[c].key] EXCEPT !.revoked = TRUE]
        IN  /\ x \in KeyType /\ x.life = key[call[c].key].life /\ x.stamp = key[call[c].key].stamp
            /\ x.owner = key[call[c].key].owner
    BY <2>1 DEF KeyType
  <2>3. /\ key' \in [Keys -> KeyType]
        /\ \A k \in Keys : /\ key'[k].life = key[k].life /\ key'[k].stamp = key[k].stamp
                           /\ key'[k].owner = key[k].owner
    BY <1>0, <1>4, <2>1, <2>2
  <2> QED BY <2>3 DEF RowOfKey
<1>5. CASE FlushCommit
  <2>1. key' = Stored
    BY <1>5 DEF FlushCommit, AfterFlush, Stored
  <2>2. ASSUME NEW k \in Keys PROVE key'[k] \in KeyType /\ RowOfKey(k)
    <3>1. key[k] \in KeyType /\ pending[k] \in Times
      BY <1>0
    <3>2. CASE pending[k] > 0 /\ KeyLive(k)
      <4>1. key'[k] = [key[k] EXCEPT !.stamp = pending[k]]
        BY <2>1, <3>2 DEF Stored
      <4>2. /\ key'[k] \in KeyType /\ key'[k].life = key[k].life /\ key'[k].owner = key[k].owner
            /\ key'[k].stamp = pending[k]
        BY <3>1, <4>1 DEF KeyType
      <4> QED BY <1>5, <3>2, <4>2 DEF RowOfKey
    <3>3. CASE ~(pending[k] > 0 /\ KeyLive(k))
      <4>1. key'[k] = key[k]
        BY <2>1, <3>3 DEF Stored
      <4> QED BY <3>1, <4>1 DEF RowOfKey
    <3> QED BY <3>2, <3>3
  <2>3. key' \in [Keys -> KeyType]
    BY <2>1, <2>2 DEF Stored
  <2> QED BY <1>5, <2>2, <2>3
<1> QED BY <1>1, <1>2, <1>3, <1>4, <1>5, KeyFrame DEF KeyMoved

\* A live key keeps a live owner: whoever deletes the owner takes the keys along.
LEMMA OwnerStep ==
    ASSUME AccessInv, [AccessNext]_accessVars, NEW k \in Keys, KeyLive(k)'
    PROVE  Live(key[k].owner)'
<1>0. /\ AccessTypeOK /\ user \in [Ids -> UserType] /\ key \in [Keys -> KeyType]
      /\ KeyLive(k) => Live(key[k].owner)
      /\ key[k].owner \in Ids
  BY DEF AccessInv, AccessTypeOK, KeyType
<1>1. RowOfKey(k)
  BY KeyStep
<1>2. CASE user'[key'[k].owner].life = "live"
  BY <1>2 DEF Live
<1>3. CASE key'[k].owner = key[k].owner /\ KeyLive(k)
  <2>0. Live(key[k].owner)
    BY <1>0, <1>3
  <2>1. ASSUME NEW c \in Calls, RemoveUser(c) PROVE Live(key[k].owner)'
    <3>1. key'[k] = IF k \in KeysOf(call[c].id) THEN Key("gone", AnyId, FALSE, 0) ELSE key[k]
      BY <2>1 DEF RemoveUser
    <3>2. k \notin KeysOf(call[c].id)
      BY <3>1 DEF KeyLive, Key
    <3>3. key[k].owner # call[c].id
      BY <1>3, <3>2 DEF KeysOf
    <3> QED BY <1>0, <1>3, <2>0, <2>1, <3>3, RemoveAdmins DEF Live
  <2>2. ASSUME NEW x, NEW y, user' = [user EXCEPT ![x] = User("live", y, "admin")] \/
                              user' = [user EXCEPT ![x] = User("live", y, "user")]
        PROVE  Live(key[k].owner)'
    BY <1>0, <1>3, <2>0, <2>2, Reads DEF Live
  <2>3. CASE user' = user
    BY <1>3, <2>0, <2>3 DEF Live
  <2>4. \A c \in Calls : call[c].role \in {"admin", "user"}
    BY <1>0 DEF AccessTypeOK, CallType
  <2> QED BY <2>1, <2>2, <2>3, <2>4, UserFrame DEF UserMoved
<1> QED BY <1>1, <1>2, <1>3 DEF RowOfKey, KeyLive

(***************************************************************************)
(* Room is kept: whatever takes an identifier had it counted.              *)
(***************************************************************************)

\* A finite set without one of its elements, and with a new one.
LEMMA OneLess ==
    ASSUME NEW S, IsFiniteSet(S), NEW x \in S
    PROVE  Cardinality(S \ {x}) = Cardinality(S) - 1
  BY FS_RemoveElement
LEMMA OneMore ==
    ASSUME NEW S, IsFiniteSet(S), NEW x, x \notin S
    PROVE  Cardinality(S \cup {x}) = Cardinality(S) + 1
  BY FS_AddElement

\* The identifiers and keys that were never used: one fewer after an insert.
LEMMA FreshStep ==
    ASSUME AccessInv, [AccessNext]_accessVars
    PROVE  /\ \/ FreshIds' = FreshIds
              \/ \E c \in Calls : InsertUser(c) /\ FreshId \in FreshIds /\ FreshIds' = FreshIds \ {FreshId}
              \/ Boot
           /\ \/ FreshKeys' = FreshKeys
              \/ \E c \in Calls : InsertKey(c) /\ FreshKey \in FreshKeys /\ FreshKeys' = FreshKeys \ {FreshKey}
<1>0. /\ AccessTypeOK /\ DeletesCounted /\ user \in [Ids -> UserType] /\ key \in [Keys -> KeyType]
      /\ call \in [Calls -> CallType]
  BY DEF AccessInv, AccessTypeOK
<1>1. \/ FreshIds' = FreshIds
      \/ \E c \in Calls : InsertUser(c) /\ FreshId \in FreshIds /\ FreshIds' = FreshIds \ {FreshId}
      \/ Boot
  <2>1. ASSUME NEW c \in Calls, RemoveUser(c) PROVE FreshIds' = FreshIds
    <3>1. user[call[c].id].life # "unborn"
      BY <1>0, <2>1 DEF RemoveUser, CallIs, DeletesCounted
    <3> QED BY <1>0, <2>1, <3>1, RemoveAdmins DEF FreshIds
  <2>2. ASSUME NEW c \in Calls, InsertUser(c), FreshId \in FreshIds,
               user' = [user EXCEPT ![FreshId] = User("live", call[c].name, call[c].role)]
        PROVE  FreshIds' = FreshIds \ {FreshId}
    BY <1>0, <2>2, Reads DEF FreshIds
  <2>3. CASE user' = user
    BY <2>3 DEF FreshIds
  <2> QED BY <2>1, <2>2, <2>3, UserFrame DEF UserMoved
<1>2. \/ FreshKeys' = FreshKeys
      \/ \E c \in Calls : InsertKey(c) /\ FreshKey \in FreshKeys /\ FreshKeys' = FreshKeys \ {FreshKey}
  <2>1. ASSUME NEW c \in Calls, InsertKey(c), FreshKey \in FreshKeys,
               key' = [key EXCEPT ![FreshKey] = Key("live", call[c].who, FALSE, 0)]
        PROVE  FreshKeys' = FreshKeys \ {FreshKey}
    BY <1>0, <2>1 DEF FreshKeys, Key
  <2>2. ASSUME \A k \in Keys : ~(key[k].life = "unborn" /\ key'[k].life = "live")
        PROVE  FreshKeys' = FreshKeys
    <3>1. ASSUME NEW k \in Keys PROVE key'[k].life = "unborn" <=> key[k].life = "unborn"
      <4>1. RowOfKey(k)
        BY KeyStep
      <4> QED BY <2>2, <4>1 DEF RowOfKey
    <3> QED BY <3>1 DEF FreshKeys
  <2>3. CASE key' = key
    BY <2>3 DEF FreshKeys
  <2>4. ASSUME NEW c \in Calls, RemoveUser(c) PROVE FreshKeys' = FreshKeys
    <3>1. \A k \in Keys : key'[k] = key[k] \/ key'[k].life = "gone"
      BY <2>4 DEF RemoveUser, Key
    <3> QED BY <2>2, <3>1
  <2>5. ASSUME NEW c \in Calls,
               key' = [key EXCEPT ![call[c].key] = [key[call[c].key] EXCEPT !.revoked = TRUE]]
        PROVE  FreshKeys' = FreshKeys
    <3>1. call[c].key \in Keys /\ \A k \in Keys : key[k] \in KeyType
      BY <1>0 DEF CallType
    <3>2. \A k \in Keys : key'[k].life = key[k].life
      BY <1>0, <2>5, <3>1 DEF KeyType
    <3> QED BY <2>2, <3>2
  <2>6. CASE FlushCommit
    <3>1. ASSUME NEW k \in Keys PROVE key'[k].life = key[k].life
      <4>0. key[k] \in KeyType
        BY <1>0
      <4>1. key'[k] = key[k] \/ key'[k] = [key[k] EXCEPT !.stamp = pending[k]]
        BY <2>6 DEF FlushCommit, AfterFlush
      <4> QED BY <4>0, <4>1 DEF KeyType
    <3> QED BY <2>2, <3>1
  <2> QED BY <2>1, <2>3, <2>4, <2>5, <2>6, KeyFrame DEF KeyMoved
<1> QED BY <1>1, <1>2

\* The inserts under way: one more when a call begins, none more otherwise.
LEMMA InsertingStep ==
    ASSUME AccessInv, [AccessNext]_accessVars, NEW o \in {"create", "issue"}
    PROVE  \/ Inserting(o)' \subseteq Inserting(o)
           \/ \E c \in Calls : /\ c \notin Inserting(o) /\ Inserting(o)' = Inserting(o) \cup {c}
                               /\ Begun(c, call'[c]) /\ call'[c].op = o
                               /\ UNCHANGED <<user, key>>
<1>0. AccessTypeOK /\ call \in [Calls -> CallType] /\ \A c \in Calls : CallMoved(c)
  BY CallStep DEF AccessInv, AccessTypeOK
<1>1. CASE Inserting(o)' \subseteq Inserting(o)
  BY <1>1
<1>2. CASE ~(Inserting(o)' \subseteq Inserting(o))
  <2>1. PICK c \in Calls : call'[c].phase = "read" /\ call'[c].op = o /\ c \notin Inserting(o)
    BY <1>2 DEF Inserting
  <2>2. ~(CountAdmins(c) /\ call'[c] = [call[c] EXCEPT !.phase = "counted"])
    BY <1>0, <2>1 DEF CallType
  <2>3. call'[c] # call[c]
    BY <2>1 DEF Inserting
  <2>4. Begun(c, call'[c]) /\ UNCHANGED <<user, key>>
    BY <1>0, <2>1, <2>2, <2>3 DEF CallMoved
  <2>5. \A d \in Calls \ {c} : call'[d] = call[d]
    BY <1>0, <2>4 DEF Begun
  <2>6. Inserting(o)' = Inserting(o) \cup {c}
    BY <2>1, <2>5 DEF Inserting
  <2> QED BY <2>1, <2>4, <2>6
<1> QED BY <1>1, <1>2

LEMMA RoomStep ==
    ASSUME AccessInv, [AccessNext]_accessVars
    PROVE  RoomIsKept'
<1>0. AccessTypeOK /\ RoomIsKept /\ CallsOnlyUp /\ call \in [Calls -> CallType]
  BY DEF AccessInv, AccessTypeOK
<1> DEFINE Ins == Inserting("create")
           Iss == Inserting("issue")
<1>a. /\ IsFiniteSet(FreshIds) /\ Cardinality(FreshIds) \in Nat
      /\ IsFiniteSet(FreshKeys) /\ Cardinality(FreshKeys) \in Nat
      /\ IsFiniteSet(Ins) /\ Cardinality(Ins) \in Nat
      /\ IsFiniteSet(Iss) /\ Cardinality(Iss) \in Nat
  BY Counted
<1>b. ASSUME NEW c \in Calls, CallIs(c, "read", "create"), CallEnds(c)
      PROVE  Ins' = Ins \ {c} /\ c \in Ins
  BY <1>0, <1>b, Reads DEF CallEnds, Inserting, CallIs
<1>c. ASSUME NEW c \in Calls, CallIs(c, "read", "issue"), CallEnds(c)
      PROVE  Iss' = Iss \ {c} /\ c \in Iss
  BY <1>0, <1>c, Reads DEF CallEnds, Inserting, CallIs
<1>1. Ins' = {} \/ Cardinality(FreshIds') > Cardinality(Ins')
  <2>1. CASE Boot
    <3>1. \A c \in Calls : call'[c].phase \in {"new", "done"}
      BY <1>0, <2>1 DEF Boot, CallsOnlyUp
    <3> QED BY <3>1 DEF Inserting
  <2>2. ASSUME NEW c \in Calls, InsertUser(c), FreshId \in FreshIds, FreshIds' = FreshIds \ {FreshId}
        PROVE  Cardinality(FreshIds') > Cardinality(Ins')
    <3>1. Ins' = Ins \ {c} /\ c \in Ins
      BY <1>b, <2>2 DEF InsertUser
    <3>2. Cardinality(FreshIds') = Cardinality(FreshIds) - 1 /\ Cardinality(Ins') = Cardinality(Ins) - 1
      BY <1>a, <2>2, <3>1, OneLess
    <3> QED BY <1>0, <1>a, <3>1, <3>2 DEF RoomIsKept
  <2>3. CASE FreshIds' = FreshIds /\ Ins' \subseteq Ins
    <3>1. Cardinality(Ins') <= Cardinality(Ins) /\ Cardinality(Ins') \in Nat
      BY <1>a, <2>3, FS_Subset, FS_CardinalityType
    <3> QED BY <1>0, <1>a, <2>3, <3>1 DEF RoomIsKept
  <2>4. ASSUME NEW c \in Calls, c \notin Ins, Ins' = Ins \cup {c}, Begun(c, call'[c]),
               call'[c].op = "create", UNCHANGED <<user, key>>
        PROVE  Cardinality(FreshIds') > Cardinality(Ins')
    <3>1. Cardinality(FreshIds) > Cardinality(Ins) + 1
      BY <2>4 DEF Begun, RoomForUser
    <3>2. Cardinality(Ins') = Cardinality(Ins) + 1
      BY <1>a, <2>4, OneMore
    <3>3. FreshIds' = FreshIds
      BY <2>4 DEF FreshIds
    <3> QED BY <1>a, <3>1, <3>2, <3>3
  <2>5. \/ Ins' \subseteq Ins
        \/ \E c \in Calls : /\ c \notin Ins /\ Ins' = Ins \cup {c}
                            /\ Begun(c, call'[c]) /\ call'[c].op = "create"
                            /\ UNCHANGED <<user, key>>
    BY InsertingStep
  <2> QED BY <2>1, <2>2, <2>3, <2>4, <2>5, FreshStep
<1>2. Cardinality(FreshKeys') >= Cardinality(Iss')
  <2>1. ASSUME NEW c \in Calls, InsertKey(c), FreshKey \in FreshKeys, FreshKeys' = FreshKeys \ {FreshKey}
        PROVE  Cardinality(FreshKeys') >= Cardinality(Iss')
    <3>1. Iss' = Iss \ {c} /\ c \in Iss
      BY <1>c, <2>1 DEF InsertKey
    <3>2. Cardinality(FreshKeys') = Cardinality(FreshKeys) - 1 /\ Cardinality(Iss') = Cardinality(Iss) - 1
      BY <1>a, <2>1, <3>1, OneLess
    <3> QED BY <1>0, <1>a, <3>2 DEF RoomIsKept
  <2>2. CASE FreshKeys' = FreshKeys /\ Iss' \subseteq Iss
    <3>1. Cardinality(Iss') <= Cardinality(Iss) /\ Cardinality(Iss') \in Nat
      BY <1>a, <2>2, FS_Subset, FS_CardinalityType
    <3> QED BY <1>0, <1>a, <2>2, <3>1 DEF RoomIsKept
  <2>3. ASSUME NEW c \in Calls, c \notin Iss, Iss' = Iss \cup {c}, Begun(c, call'[c]),
               call'[c].op = "issue", UNCHANGED <<user, key>>
        PROVE  Cardinality(FreshKeys') >= Cardinality(Iss')
    <3>1. Cardinality(FreshKeys) > Cardinality(Iss)
      BY <2>3 DEF Begun, RoomForKey
    <3>2. Cardinality(Iss') = Cardinality(Iss) + 1
      BY <1>a, <2>3, OneMore
    <3>3. FreshKeys' = FreshKeys
      BY <2>3 DEF FreshKeys
    <3> QED BY <1>a, <3>1, <3>2, <3>3
  <2>4. \/ Iss' \subseteq Iss
        \/ \E c \in Calls : /\ c \notin Iss /\ Iss' = Iss \cup {c}
                            /\ Begun(c, call'[c]) /\ call'[c].op = "issue"
                            /\ UNCHANGED <<user, key>>
    BY InsertingStep
  <2> QED BY <2>1, <2>2, <2>3, <2>4, FreshStep
<1> QED BY <1>1, <1>2 DEF RoomIsKept

(***************************************************************************)
(* Stamps.                                                                 *)
(***************************************************************************)

\* What a step does to the clock and to the stamps of key k.
Quiet(k) == UNCHANGED <<clock, flushing>> /\ dirty'[k] = dirty[k] /\ pending'[k] = pending[k]
            /\ latest'[k] = latest[k]
Ticks(k) == /\ clock' = clock + 1 /\ key' = key /\ flushing' = flushing
            /\ dirty'[k] = dirty[k] /\ pending'[k] = pending[k] /\ latest'[k] = latest[k]
Noting(k) == /\ UNCHANGED <<clock, flushing, key>> /\ KeyLive(k) /\ pending'[k] = pending[k]
             /\ dirty'[k] = clock /\ latest'[k] = clock
Snapshot(k) == /\ UNCHANGED <<clock, key>> /\ ~flushing
               /\ pending'[k] = dirty[k] /\ dirty'[k] = 0 /\ latest'[k] = latest[k]
Storing(k) == /\ FlushCommit /\ clock' = clock /\ pending'[k] = 0
              /\ dirty'[k] = dirty[k] /\ latest'[k] = latest[k]
PutBack(k) == /\ UNCHANGED <<clock, key>> /\ pending'[k] = 0
              /\ dirty'[k] = Requeue[k] /\ latest'[k] = latest[k]
Forgotten(k) == /\ clock' = clock /\ pending'[k] = 0 /\ dirty'[k] = 0
                /\ latest'[k] = key'[k].stamp
Cancelled(k) == /\ UNCHANGED <<clock, key>> /\ pending'[k] = 0 /\ dirty'[k] = dirty[k]
                /\ latest'[k] = Newest(key[k].stamp, dirty[k])
StampMoved(k) ==
    \/ (Quiet(k) /\ ~FlushCommit) \/ Ticks(k) \/ Noting(k) \/ Snapshot(k)
    \/ Storing(k) \/ PutBack(k) \/ Forgotten(k) \/ Cancelled(k)

\* The tables of stamps stay tables, and every step is one of these for every key.
LEMMA StampFrame ==
    ASSUME AccessInv, [AccessNext]_accessVars
    PROVE  /\ dirty' \in Stamps /\ pending' \in Stamps /\ latest' \in Stamps
           /\ clock' \in Times /\ flushing' \in BOOLEAN
           /\ \A k \in Keys : StampMoved(k)
<1>0. /\ AccessTypeOK /\ clock \in Times /\ flushing \in BOOLEAN
      /\ dirty \in [Keys -> Times] /\ pending \in [Keys -> Times] /\ latest \in [Keys -> Times]
      /\ key \in [Keys -> KeyType] /\ \A k \in Keys : key[k].stamp \in Times
  BY DEF AccessInv, AccessTypeOK, Stamps, KeyType
<1> USE DEF Stamps
<1>a. /\ NoStamps \in [Keys -> Times] /\ \A k \in Keys : NoStamps[k] = 0
      /\ Requeue \in [Keys -> Times]
  BY <1>0, Defaults DEF NoStamps, Requeue
<1>b. key' \in [Keys -> KeyType] /\ \A k \in Keys : key'[k].stamp \in Times
  BY KeyStep DEF KeyType
<1> DEFINE Goal == /\ dirty' \in [Keys -> Times] /\ pending' \in [Keys -> Times] /\ latest' \in [Keys -> Times]
                   /\ clock' \in Times /\ flushing' \in BOOLEAN
                   /\ \A k \in Keys : StampMoved(k)
<1>1. ASSUME UNCHANGED <<clock, dirty, pending, latest, flushing>>, ~FlushCommit PROVE Goal
  BY <1>0, <1>1 DEF StampMoved, Quiet
<1>2. CASE ClockTicks
  <2>1. clock' = clock + 1 /\ UNCHANGED <<key, dirty, pending, latest, flushing>> /\ clock < MaxClock
    BY <1>2 DEF ClockTicks
  <2>2. clock' \in Times
    BY <1>0, <2>1, AccessAssumption DEF Times
  <2> QED BY <1>0, <2>1, <2>2 DEF StampMoved, Ticks
<1>3. ASSUME NEW r \in Reqs, NEW k \in Keys, GetApiKey(r, k) PROVE Goal
  <2>1. UNCHANGED <<clock, flushing, key, pending>>
    BY <1>3 DEF GetApiKey
  <2>2. \/ UNCHANGED <<dirty, latest>>
        \/ /\ KeyLive(k) /\ dirty' = [dirty EXCEPT ![k] = clock] /\ latest' = [latest EXCEPT ![k] = clock]
    BY <1>3 DEF GetApiKey
  <2>3. CASE UNCHANGED <<dirty, latest>>
    <3>1. FlushCommit => flushing' = FALSE /\ flushing
      BY DEF FlushCommit, AfterFlush
    <3> QED BY <1>0, <1>1, <2>1, <2>3, <3>1
  <2>4. CASE KeyLive(k) /\ dirty' = [dirty EXCEPT ![k] = clock] /\ latest' = [latest EXCEPT ![k] = clock]
    <3>1. FlushCommit => flushing' = FALSE /\ flushing
      BY DEF FlushCommit, AfterFlush
    <3>2. ASSUME NEW j \in Keys PROVE StampMoved(j)
      <4>1. CASE j = k
        BY <1>0, <2>1, <2>4, <4>1 DEF StampMoved, Noting
      <4>2. CASE j # k
        BY <1>0, <2>1, <2>4, <3>1, <4>2 DEF StampMoved, Quiet
      <4> QED BY <4>1, <4>2
    <3> QED BY <1>0, <2>1, <2>4, <3>2
  <2> QED BY <2>2, <2>3, <2>4
<1>4. CASE FlushStart
  <2>1. /\ ~flushing /\ flushing' = TRUE /\ pending' = dirty /\ dirty' = NoStamps
        /\ UNCHANGED <<clock, key, latest>>
    BY <1>4 DEF FlushStart
  <2> QED BY <1>0, <1>a, <2>1 DEF StampMoved, Snapshot
<1>5. CASE FlushCommit
  <2>1. /\ flushing' = FALSE /\ pending' = NoStamps /\ clock' = clock
        /\ key' = Stored
    BY <1>5 DEF FlushCommit, AfterFlush, Stored
  <2>2. \/ dirty' = dirty /\ latest' = latest
        \/ dirty' = NoStamps /\ latest' = [k \in Keys |-> Stored[k].stamp]
    BY <1>5 DEF FlushCommit, AfterFlush, Stored
  <2>3. CASE dirty' = dirty /\ latest' = latest
    BY <1>0, <1>5, <1>a, <2>1, <2>3 DEF StampMoved, Storing
  <2>4. CASE dirty' = NoStamps /\ latest' = [k \in Keys |-> Stored[k].stamp]
    <3>1. latest' = [k \in Keys |-> key'[k].stamp]
      BY <2>1, <2>4
    <3> QED BY <1>0, <1>a, <1>b, <2>1, <2>4, <3>1 DEF StampMoved, Forgotten
  <2> QED BY <2>2, <2>3, <2>4
<1>6. CASE FlushFails
  <2>1. /\ flushing' = FALSE /\ pending' = NoStamps /\ clock' = clock /\ key' = key
    BY <1>6 DEF FlushFails, AfterFlush
  <2>2. \/ dirty' = Requeue /\ latest' = latest
        \/ dirty' = NoStamps /\ latest' = [k \in Keys |-> key[k].stamp]
    BY <1>6 DEF FlushFails, AfterFlush
  <2>3. CASE dirty' = Requeue /\ latest' = latest
    BY <1>0, <1>a, <2>1, <2>3 DEF StampMoved, PutBack
  <2>4. CASE dirty' = NoStamps /\ latest' = [k \in Keys |-> key[k].stamp]
    BY <1>0, <1>a, <2>1, <2>4 DEF StampMoved, Forgotten
  <2> QED BY <2>2, <2>3, <2>4
<1>7. CASE ShutDown
  <2>1. /\ flushing' = FALSE /\ pending' = NoStamps /\ UNCHANGED <<clock, key, dirty>>
        /\ latest' = [k \in Keys |-> Newest(key[k].stamp, dirty[k])]
    BY <1>7 DEF ShutDown, Forget
  <2> QED BY <1>0, <1>a, <2>1 DEF StampMoved, Cancelled, Newest
<1>8. CASE Crash
  <2>1. /\ flushing' = FALSE /\ pending' = NoStamps /\ UNCHANGED <<clock, key>>
        /\ dirty' = NoStamps /\ latest' = [k \in Keys |-> key[k].stamp]
    BY <1>8 DEF Crash, Forget
  <2> QED BY <1>0, <1>a, <2>1 DEF StampMoved, Forgotten
<1>9. ASSUME UNCHANGED <<clock, dirty, pending, latest, flushing>> PROVE Goal
  <2>1. FlushCommit => flushing' = FALSE /\ flushing
    BY DEF FlushCommit, AfterFlush
  <2> QED BY <1>1, <1>9, <2>1
<1>10. ASSUME NEW r \in Reqs, RefuseBody(r) \/ FirstQuery(r) \/ EndRequest(r) PROVE Goal
  BY <1>9, <1>10 DEF RefuseBody, FirstQuery, EndRequest
<1>11. ASSUME NEW c \in Calls, CallBegins(c) \/ CallGoesOn(c) PROVE Goal
  <2>1. UNCHANGED stampVars
    BY <1>0, <1>11, Beginning, GoingOn
  <2> QED BY <1>9, <2>1 DEF stampVars
<1>12. ASSUME NEW k \in Keys, FlushWrite(k) PROVE Goal
  BY <1>9, <1>12 DEF FlushWrite
<1>13. CASE Boot \/ UNCHANGED accessVars
  BY <1>9, <1>13 DEF Boot, stampVars, accessVars
<1> QED
  BY <1>2, <1>3, <1>4, <1>5, <1>6, <1>7, <1>8, <1>10, <1>11, <1>12, <1>13
     DEF AccessNext, FlushGoesOn

\* The order of the stamps and the newest one, key by key.
StampKept(k) == KeyLive(k) => latest[k] = Newest(key[k].stamp, Newest(pending[k], dirty[k]))
InTime(k) ==
    /\ key[k].stamp <= clock /\ pending[k] <= clock /\ dirty[k] <= clock
    /\ key[k].life = "unborn" =>
         key[k].stamp = 0 /\ pending[k] = 0 /\ dirty[k] = 0 /\ latest[k] = 0
    /\ KeyLive(k) /\ pending[k] > 0 => key[k].stamp <= pending[k]
    /\ KeyLive(k) /\ dirty[k] > 0 => key[k].stamp <= dirty[k] /\ pending[k] <= dirty[k]

\* One key, one step.
LEMMA StampStep ==
    ASSUME AccessInv, [AccessNext]_accessVars, NEW k \in Keys
    PROVE  StampKept(k)' /\ InTime(k)'
<1>0. /\ clock \in Nat /\ pending[k] \in Nat /\ dirty[k] \in Nat /\ latest[k] \in Nat
      /\ key[k].stamp \in Nat
  BY Defaults DEF AccessInv, AccessTypeOK, Stamps, KeyType
<1>1. StampKept(k) /\ InTime(k) /\ (~flushing => pending[k] = 0)
  BY DEF AccessInv, NewestStampKept, StampsInOrder, StampKept, InTime
<1>2. RowOfKey(k) /\ (~FlushCommit /\ KeyLive(k) /\ KeyLive(k)' => key'[k].stamp = key[k].stamp)
  BY KeyStep
<1> USE DEF StampKept, InTime, KeyLive, Newest
<1>3. CASE Quiet(k) /\ ~FlushCommit
  BY <1>0, <1>1, <1>2, <1>3 DEF Quiet, RowOfKey
<1>4. CASE Ticks(k)
  BY <1>0, <1>1, <1>4 DEF Ticks
<1>5. CASE Noting(k)
  BY <1>0, <1>1, <1>5 DEF Noting
<1>6. CASE Snapshot(k)
  BY <1>0, <1>1, <1>6 DEF Snapshot
<1>7. CASE Storing(k)
  <2>1. key'[k] = Stored[k]
    BY <1>7 DEF Storing, FlushCommit, AfterFlush, Stored
  <2>2. key[k] \in KeyType
    BY DEF AccessInv, AccessTypeOK
  <2>3. CASE pending[k] > 0 /\ KeyLive(k)
    <3>1. key'[k].stamp = pending[k] /\ key'[k].life = key[k].life
      BY <2>1, <2>2, <2>3 DEF Stored, KeyType
    <3> QED BY <1>0, <1>1, <1>7, <2>3, <3>1 DEF Storing
  <2>4. CASE ~(pending[k] > 0 /\ KeyLive(k))
    <3>1. key'[k] = key[k]
      BY <2>1, <2>4 DEF Stored
    <3> QED BY <1>0, <1>1, <1>7, <2>4, <3>1 DEF Storing
  <2> QED BY <2>3, <2>4
<1>8. CASE PutBack(k)
  <2>1. Requeue[k] = IF dirty[k] > 0 THEN dirty[k] ELSE pending[k]
    BY DEF Requeue
  <2> QED BY <1>0, <1>1, <1>8, <2>1 DEF PutBack
<1>9. CASE Forgotten(k)
  <2>1. key'[k].stamp \in Nat
    BY KeyStep, Defaults DEF KeyType
  <2> QED BY <1>0, <1>1, <1>2, <1>9, <2>1 DEF Forgotten, RowOfKey
<1>10. CASE Cancelled(k)
  BY <1>0, <1>1, <1>10 DEF Cancelled
<1> QED
  BY <1>3, <1>4, <1>5, <1>6, <1>7, <1>8, <1>9, <1>10, StampFrame DEF StampMoved

\* A snapshot exists only while a flush is under way.
LEMMA SnapshotStep ==
    ASSUME AccessInv, [AccessNext]_accessVars, NEW k \in Keys, ~flushing'
    PROVE  pending'[k] = 0
<1>0. ~flushing => pending[k] = 0
  BY DEF AccessInv, StampsInOrder
<1>1. CASE pending' = NoStamps
  BY <1>1 DEF NoStamps
<1>2. CASE UNCHANGED <<pending, flushing>>
  BY <1>0, <1>2
<1>3. ~FlushStart
  BY DEF FlushStart
<1>4. ASSUME NEW c \in Calls, CallBegins(c) \/ CallGoesOn(c) PROVE UNCHANGED <<pending, flushing>>
  BY <1>4, Beginning, GoingOn DEF AccessInv, stampVars
<1>5. CASE \E c \in Calls : CallBegins(c) \/ CallGoesOn(c)
  BY <1>2, <1>4, <1>5
<1>6. CASE AccessNext /\ ~(\E c \in Calls : CallBegins(c) \/ CallGoesOn(c))
  <2>1. pending' = NoStamps \/ UNCHANGED <<pending, flushing>>
    BY <1>3, <1>6 DEF AccessNext, ClockTicks, RefuseBody, FirstQuery, EndRequest, GetApiKey,
         FlushGoesOn, FlushCommit, FlushFails, FlushWrite, AfterFlush, ShutDown, Crash, Forget, Boot, stampVars
  <2> QED BY <1>1, <1>2, <2>1
<1>7. CASE UNCHANGED accessVars
  BY <1>2, <1>7 DEF accessVars
<1> QED BY <1>5, <1>6, <1>7

(***************************************************************************)
(* Models.                                                                 *)
(***************************************************************************)

\* The process comes up only by a start.
LEMMA UpByBoot ==
    ASSUME AccessTypeOK, [AccessNext]_accessVars, mode # "up", mode' = "up"
    PROVE  Boot
<1>1. CASE \E c \in Calls : CallBegins(c) \/ CallGoesOn(c)
  BY <1>1, Beginning, GoingOn
<1>2. CASE AccessNext /\ ~(\E c \in Calls : CallBegins(c) \/ CallGoesOn(c))
  BY <1>2 DEF AccessNext, ClockTicks, RefuseBody, FirstQuery, EndRequest, GetApiKey, FlushStart,
         FlushGoesOn, FlushCommit, FlushFails, FlushWrite, AfterFlush, ShutDown, Crash, callVars
<1>3. CASE UNCHANGED accessVars
  BY <1>3 DEF accessVars
<1> QED BY <1>1, <1>2, <1>3

\* What a step of a running process does to the row of a name: nothing, a new custom row
\* in place of none, the end of a custom row, or another number of deployments.
RowOfModel(m) ==
    \/ model'[m] = model[m]
    \/ /\ model[m].life = "none" /\ model'[m].life = "custom"
       /\ model'[m].row = model[m].row + 1 /\ ~model'[m].deployed
    \/ /\ model[m].life # "builtin" /\ model'[m].life = "none"
       /\ model'[m].row = model[m].row /\ ~model'[m].deployed
    \/ /\ model[m].life # "none" /\ model'[m].life = model[m].life /\ model'[m].row = model[m].row

\* The catalogue takes its names, and types the table.
LEMMA SeededType ==
    ASSUME NEW t \in [Models -> ModelType], NEW names \in Catalogs
    PROVE  /\ Seeded(t, names) \in [Models -> ModelType]
           /\ \A m \in names : m \in Models /\ Seeded(t, names)[m].life = "builtin"
           /\ \A m \in Models : (t[m].deployed => t[m].life # "none")
                => (Seeded(t, names)[m].deployed => Seeded(t, names)[m].life # "none")
<1>1. names \subseteq Models
  BY AccessAssumption
<1>2. ASSUME NEW m \in Models
      PROVE  /\ Seeded(t, names)[m] \in ModelType
             /\ m \in names => Seeded(t, names)[m].life = "builtin"
             /\ m \notin names => Seeded(t, names)[m] = t[m]
  <2>0. t[m] \in ModelType
    OBVIOUS
  <2>1. CASE m \notin names
    BY <2>0, <2>1 DEF Seeded
  <2>2. CASE m \in names /\ t[m].life = "none"
    <3>1. Seeded(t, names)[m] = Model("builtin", t[m].row + 1, FALSE)
      BY <2>2 DEF Seeded
    <3>2. t[m].row + 1 \in Nat
      BY <2>0 DEF ModelType
    <3> QED BY <2>2, <3>1, <3>2 DEF Model, ModelType
  <2>3. CASE m \in names /\ t[m].life # "none"
    <3>1. Seeded(t, names)[m] = [t[m] EXCEPT !.life = "builtin"]
      BY <2>3 DEF Seeded
    <3> QED BY <2>0, <2>3, <3>1 DEF ModelType
  <2> QED BY <2>1, <2>2, <2>3
<1>3. Seeded(t, names) \in [Models -> ModelType]
  BY <1>2 DEF Seeded
<1> QED BY <1>1, <1>2, <1>3

LEMMA ModelFrame ==
    ASSUME AccessInv, [AccessNext]_accessVars, ~Boot
    PROVE  /\ model' \in [Models -> ModelType] /\ catalog' = catalog
           /\ \A m \in Models : RowOfModel(m)
           /\ \A m \in Models : model'[m].deployed => model'[m].life # "none"
<1>0. /\ AccessTypeOK /\ model \in [Models -> ModelType] /\ call \in [Calls -> CallType] /\ DropsCustom
      /\ \A m \in Models : model[m].deployed => model[m].life # "none"
      /\ \A m \in Models : model[m] \in ModelType /\ model[m].row \in Nat
  BY DEF AccessInv, AccessTypeOK, ModelType
<1> DEFINE Goal == /\ model' \in [Models -> ModelType] /\ catalog' = catalog
                   /\ \A m \in Models : RowOfModel(m)
                   /\ \A m \in Models : model'[m].deployed => model'[m].life # "none"
<1>1. CASE model' = model /\ catalog' = catalog
  BY <1>0, <1>1 DEF RowOfModel
<1>2. ASSUME NEW c \in Calls, InsertModel(c) PROVE Goal
  <2> DEFINE m == call[c].model
  <2>1. m \in Models /\ catalog' = catalog
    BY <1>0, <1>2 DEF CallType, InsertModel
  <2>2. CASE model[m].life # "none"
    BY <1>1, <1>2, <2>1, <2>2 DEF InsertModel
  <2>3. CASE model[m].life = "none"
    <3>1. model' = [model EXCEPT ![m] = Model("custom", model[m].row + 1, FALSE)]
      BY <1>2, <2>3 DEF InsertModel
    <3>2. Model("custom", model[m].row + 1, FALSE) \in ModelType
      <4>1. model[m].row + 1 \in Nat
        BY <1>0, <2>1
      <4> QED BY <4>1 DEF Model, ModelType
    <3>3. /\ model'[m] = Model("custom", model[m].row + 1, FALSE)
          /\ \A n \in Models \ {m} : model'[n] = model[n]
          /\ model' \in [Models -> ModelType]
      BY <1>0, <2>1, <3>1, <3>2
    <3> QED BY <1>0, <2>1, <2>3, <3>3 DEF RowOfModel, Model
  <2> QED BY <2>2, <2>3
<1>3. ASSUME NEW c \in Calls, RemoveModel(c) PROVE Goal
  <2> DEFINE m == call[c].model
  <2>1. m \in Models /\ catalog' = catalog /\ call[c].op = "drop" /\ call[c].phase = "read"
    BY <1>0, <1>3 DEF CallType, RemoveModel, CallIs
  <2>2. CASE model[m].row # call[c].row \/ model[m].deployed
    BY <1>1, <1>3, <2>1, <2>2 DEF RemoveModel
  <2>3. CASE ~(model[m].row # call[c].row \/ model[m].deployed)
    <3>1. model' = [model EXCEPT ![m] = Model("none", model[m].row, FALSE)]
      BY <1>3, <2>3 DEF RemoveModel
    <3>2. Model("none", model[m].row, FALSE) \in ModelType
      BY <1>0, <2>1, Writes
    <3>3. /\ model'[m] = Model("none", model[m].row, FALSE)
          /\ \A n \in Models \ {m} : model'[n] = model[n]
          /\ model' \in [Models -> ModelType]
      BY <1>0, <2>1, <3>1, <3>2
    <3>4. model[m].life # "builtin"
      BY <1>0, <2>1, <2>3 DEF DropsCustom
    <3> QED BY <1>0, <2>1, <2>3, <3>3, <3>4 DEF RowOfModel, Model
  <2> QED BY <2>2, <2>3
<1>4. ASSUME NEW c \in Calls, NEW i \in Ids, NEW m \in Models, DeployModel(c, i, m) PROVE Goal
  <2>1. /\ model' = [model EXCEPT ![m] = [model[m] EXCEPT !.deployed = ~model[m].deployed]]
        /\ model[m].life # "none" /\ catalog' = catalog
    BY <1>4 DEF DeployModel
  <2>2. LET x == [model[m] EXCEPT !.deployed = ~model[m].deployed]
        IN  x \in ModelType /\ x.life = model[m].life /\ x.row = model[m].row
    BY <1>0 DEF ModelType
  <2>3. /\ model'[m] = [model[m] EXCEPT !.deployed = ~model[m].deployed]
        /\ \A n \in Models \ {m} : model'[n] = model[n]
        /\ model' \in [Models -> ModelType]
    BY <1>0, <2>1, <2>2
  <2>4. model'[m].life = model[m].life /\ model'[m].row = model[m].row
    BY <2>2, <2>3
  <2> QED BY <1>0, <2>1, <2>3, <2>4 DEF RowOfModel
<1>5. ASSUME NEW c \in Calls, CallBegins(c) PROVE Goal
  BY <1>0, <1>1, <1>4, <1>5, Beginning
<1>6. ASSUME NEW c \in Calls, CallGoesOn(c) PROVE Goal
  BY <1>1, <1>2, <1>3, <1>6, GoingOn
<1>7. CASE Crash \/ UNCHANGED accessVars
  BY <1>1, <1>7 DEF Crash, accessVars
<1> QED BY <1>1, <1>5, <1>6, <1>7, Background

\* The table of models stays typed, the names of the catalogue stay builtin, and a
\* deletion under way is about a custom row.
LEMMA ModelStep ==
    ASSUME AccessInv, [AccessNext]_accessVars
    PROVE  /\ model' \in [Models -> ModelType] /\ catalog' \in Catalogs
           /\ \A m \in Models : model'[m].deployed => model'[m].life # "none"
           /\ BuiltinNamesReserved' /\ DropsCustom'
<1>0. /\ AccessTypeOK /\ model \in [Models -> ModelType] /\ call \in [Calls -> CallType] /\ DropsCustom
      /\ \A m \in Models : model[m].deployed => model[m].life # "none"
      /\ catalog \in Catalogs /\ catalog \subseteq Models /\ CallsOnlyUp /\ BuiltinNamesReserved
  BY AccessAssumption DEF AccessInv, AccessTypeOK
<1>1. CASE Boot
  <2>1. catalog' \in Catalogs /\ model' = Seeded(model, catalog') /\ call' = call /\ mode = "down"
    BY <1>1 DEF Boot
  <2> PICK names \in Catalogs : names = catalog' /\ model' = Seeded(model, names)
    BY <2>1
  <2>a. /\ Seeded(model, names) \in [Models -> ModelType]
        /\ \A m \in names : m \in Models /\ Seeded(model, names)[m].life = "builtin"
        /\ \A m \in Models : (model[m].deployed => model[m].life # "none")
             => (Seeded(model, names)[m].deployed => Seeded(model, names)[m].life # "none")
    BY <1>0, SeededType
  <2>2. BuiltinNamesReserved'
    BY <2>a DEF BuiltinNamesReserved
  <2>3. DropsCustom'
    <3>1. \A c \in Calls : call'[c].phase # "read"
      BY <1>0, <2>1 DEF CallsOnlyUp
    <3> QED BY <3>1 DEF DropsCustom
  <2>4. \A m \in Models : model'[m].deployed => model'[m].life # "none"
    BY <1>0, <2>a
  <2> QED BY <2>1, <2>2, <2>3, <2>4, <2>a
<1>2. CASE ~Boot
  <2>1. /\ model' \in [Models -> ModelType] /\ catalog' = catalog
        /\ \A m \in Models : RowOfModel(m)
        /\ \A m \in Models : model'[m].deployed => model'[m].life # "none"
    BY <1>2, ModelFrame
  <2>2. BuiltinNamesReserved'
    <3>1. mode' = "up" => mode = "up"
      BY <1>0, <1>2, UpByBoot
    <3> QED BY <1>0, <2>1, <3>1 DEF BuiltinNamesReserved, RowOfModel
  <2>3. ASSUME NEW c \in Calls, call'[c].op = "drop", call'[c].phase = "read"
        PROVE  /\ call'[c].row <= model'[call'[c].model].row
               /\ call'[c].row = model'[call'[c].model].row => model'[call'[c].model].life # "builtin"
    <3>0. CallMoved(c) /\ call[c] \in CallType /\ call'[c] \in CallType
      BY <1>0, CallStep
    <3>1. CASE call'[c] = call[c]
      <4> DEFINE m == call[c].model
      <4>1. m \in Models /\ call[c].row \in Nat /\ model[m].row \in Nat
        BY <1>0, <3>0 DEF CallType, ModelType
      <4>2. call[c].row <= model[m].row /\ (call[c].row = model[m].row => model[m].life # "builtin")
        BY <1>0, <2>3, <3>1 DEF DropsCustom
      <4>3. RowOfModel(m)
        BY <2>1, <4>1
      <4>4. /\ call[c].row <= model'[m].row
            /\ call[c].row = model'[m].row => model'[m].life # "builtin"
        BY <4>1, <4>2, <4>3 DEF RowOfModel
      <4> QED BY <3>1, <4>4
    <3>2. CASE Begun(c, call'[c]) /\ model' = model
      <4>1. call'[c].row \in Nat
        BY <3>0 DEF CallType
      <4> QED BY <2>3, <3>2, <4>1 DEF Begun, Deletable
    <3>3. ~(call'[c] = [call[c] EXCEPT !.phase = "counted"])
      BY <2>3, <3>0 DEF CallType
    <3> QED BY <2>3, <3>0, <3>1, <3>2, <3>3 DEF CallMoved
  <2> QED BY <1>0, <2>1, <2>2, <2>3 DEF DropsCustom
<1> QED BY <1>1, <1>2

(***************************************************************************)
(* Requests, locks and the process.                                        *)
(***************************************************************************)

\* The rest of the state keeps its type.
RestType ==
    /\ mode \in {"up", "stopping", "down"}
    /\ lock \in [Keys -> Reqs \cup {Nobody, Flush}]
    /\ req \in [Reqs -> ReqType]
    /\ todo \subseteq Keys /\ faults \in 0 .. MaxFaults

LEMMA RestStep ==
    ASSUME AccessInv, [AccessNext]_accessVars
    PROVE  RestType'
<1>0. RestType /\ AccessTypeOK
  BY DEF AccessInv, AccessTypeOK, RestType
<1>1. \A w : Unlocked(w) \in [Keys -> Reqs \cup {Nobody, Flush}]
  <2> TAKE w
  <2>1. \A k \in Keys : lock[k] \in Reqs \cup {Nobody, Flush}
    BY <1>0 DEF RestType
  <2> QED BY <2>1 DEF Unlocked
<1>2. ASSUME Fault PROVE faults' \in 0 .. MaxFaults
  BY <1>0, <1>2, AccessAssumption DEF RestType, Fault
<1>3. CASE UNCHANGED <<mode, lock, req, todo, faults>>
  BY <1>0, <1>3 DEF RestType
<1>4. ASSUME NEW r \in Reqs, UNCHANGED <<mode, todo, faults>>,
             lock' \in [Keys -> Reqs \cup {Nobody, Flush}],
             NEW x \in ReqType, req' = [req EXCEPT ![r] = x]
      PROVE  RestType'
  <2>1. req' \in [Reqs -> ReqType]
    BY <1>0, <1>4 DEF RestType
  <2> QED BY <1>0, <1>4, <2>1 DEF RestType
<1>5. ASSUME NEW r \in Reqs, RefuseBody(r) PROVE RestType'
  <2>1. req' = [req EXCEPT ![r] = DoneReq] /\ UNCHANGED <<mode, lock, todo, faults>>
    BY <1>5 DEF RefuseBody, callVars
  <2>2. lock' \in [Keys -> Reqs \cup {Nobody, Flush}]
    BY <1>0, <2>1 DEF RestType
  <2> QED BY <1>4, <2>1, <2>2, Defaults
<1>6. ASSUME NEW r \in Reqs, FirstQuery(r) PROVE RestType'
  <2> DEFINE k == req[r].key
             x == IF req[r].wrote /\ ~KeyLive(k) THEN DoneReq ELSE [req[r] EXCEPT !.phase = "open"]
  <2>1. /\ req' = [req EXCEPT ![r] = x] /\ UNCHANGED <<mode, todo, faults>>
        /\ lock' = [lock EXCEPT ![k] = r] \/ lock' = lock
    BY <1>6 DEF FirstQuery, callVars
  <2>2. req[r] \in ReqType /\ k \in Keys
    BY <1>0 DEF RestType, ReqType
  <2>3. x \in ReqType
    BY <2>2, Defaults DEF ReqType
  <2>4. lock' \in [Keys -> Reqs \cup {Nobody, Flush}]
    BY <1>0, <2>1, <2>2 DEF RestType
  <2> QED BY <1>4, <2>1, <2>3, <2>4
<1>7. ASSUME NEW r \in Reqs, EndRequest(r) PROVE RestType'
  <2>1. /\ req' = [req EXCEPT ![r] = DoneReq] /\ lock' = Unlocked(r)
        /\ UNCHANGED <<mode, todo, faults>>
    BY <1>7 DEF EndRequest, callVars
  <2> QED BY <1>1, <1>4, <2>1, Defaults
<1>8. ASSUME NEW r \in Reqs, NEW k \in Keys, GetApiKey(r, k) PROVE RestType'
  <2> PICK good \in BOOLEAN, due \in BOOLEAN :
        req' = [req EXCEPT ![r] = IF good THEN [phase |-> "authed", key |-> k, wrote |-> due]
                                   ELSE DoneReq]
    BY <1>8 DEF GetApiKey
  <2> DEFINE x == IF good THEN [phase |-> "authed", key |-> k, wrote |-> due] ELSE DoneReq
  <2>1. x \in ReqType
    BY Defaults DEF ReqType
  <2>2. UNCHANGED <<mode, lock, todo, faults>>
    BY <1>8 DEF GetApiKey, callVars
  <2>3. lock' \in [Keys -> Reqs \cup {Nobody, Flush}]
    BY <1>0, <2>2 DEF RestType
  <2> QED BY <1>4, <2>1, <2>2, <2>3
<1>9. CASE FlushStart
  BY <1>0, <1>9 DEF FlushStart, Noted, RestType, callVars
<1>10. ASSUME NEW k \in Keys, FlushWrite(k) PROVE RestType'
  <2>1. /\ todo' = todo \ {k} /\ UNCHANGED <<mode, req, faults>>
        /\ lock' = [lock EXCEPT ![k] = Flush] \/ lock' = lock
    BY <1>10 DEF FlushWrite, callVars
  <2> QED BY <1>0, <2>1 DEF RestType
<1>11. CASE FlushCommit
  <2>1. /\ todo' = {} /\ lock' = Unlocked(Flush) /\ req' = req /\ faults' = faults
        /\ mode' = IF mode = "stopping" THEN "down" ELSE mode
    BY <1>11 DEF FlushCommit, AfterFlush
  <2> QED BY <1>0, <1>1, <2>1 DEF RestType
<1>12. CASE FlushFails
  <2>1. /\ todo' = {} /\ lock' = Unlocked(Flush) /\ req' = req /\ Fault
        /\ mode' = IF mode = "stopping" THEN "down" ELSE mode
    BY <1>12 DEF FlushFails, AfterFlush
  <2> QED BY <1>0, <1>1, <1>2, <2>1 DEF RestType
<1>13. CASE ShutDown
  <2>1. /\ todo' = {} /\ lock' = [k \in Keys |-> Nobody] /\ req' = req /\ Fault
        /\ mode' \in {"up", "stopping", "down"}
    BY <1>13 DEF ShutDown, Forget
  <2> QED BY <1>0, <1>2, <2>1 DEF RestType
<1>14. CASE Crash
  <2>1. /\ todo' = {} /\ lock' = [k \in Keys |-> Nobody] /\ Fault /\ mode' = "down"
        /\ req' = [r \in Reqs |-> IF req[r].phase = "new" THEN NewReq ELSE DoneReq]
    BY <1>14 DEF Crash, Forget
  <2>2. req' \in [Reqs -> ReqType]
    BY <2>1, Defaults
  <2> QED BY <1>0, <1>2, <2>1, <2>2 DEF RestType
<1>15. CASE Boot
  BY <1>0, <1>15 DEF Boot, RestType, stampVars
<1>16. CASE ClockTicks \/ UNCHANGED accessVars
  BY <1>3, <1>16 DEF ClockTicks, accessVars
<1>17. ASSUME NEW c \in Calls, CallBegins(c) \/ CallGoesOn(c) PROVE RestType'
  <2>1. UNCHANGED <<mode, faults, stampVars>>
    BY <1>0, <1>17, Beginning, GoingOn
  <2> QED BY <1>3, <2>1 DEF stampVars
<1> QED BY <1>5, <1>6, <1>7, <1>8, <1>9, <1>10, <1>11, <1>12, <1>13, <1>14, <1>15, <1>16, <1>17
     DEF AccessNext, FlushGoesOn

\* Who has a lock can give it back.
LEMMA LockStep ==
    ASSUME AccessInv, NoWaitCycle, [AccessNext]_accessVars
    PROVE  NoWaitCycle'
<1>0. /\ AccessTypeOK /\ lock \in [Keys -> Reqs \cup {Nobody, Flush}] /\ req \in [Reqs -> ReqType]
      /\ Nobody \notin Reqs /\ Flush \notin Reqs /\ Nobody # Flush
  BY AccessAssumption DEF AccessInv, AccessTypeOK, Reqs, Nobody, Flush
<1>h. \A k \in Keys :
        /\ lock[k] \in Reqs => mode = "up" /\ req[lock[k]].phase = "open" /\ req[lock[k]].key = k
        /\ lock[k] = Flush => flushing /\ k \notin todo
  BY DEF NoWaitCycle
<1>1. ASSUME UNCHANGED <<lock, req, flushing, todo>>, mode' = mode \/ mode # "up"
      PROVE  NoWaitCycle'
  BY <1>1, <1>h DEF NoWaitCycle
<1>2. ASSUME NEW r \in Reqs, req[r].phase # "open", NEW x, req' = [req EXCEPT ![r] = x],
             UNCHANGED <<lock, mode, flushing, todo>>
      PROVE  NoWaitCycle'
  <2>1. \A k \in Keys : lock[k] \in Reqs => req'[lock[k]] = req[lock[k]]
    BY <1>0, <1>2, <1>h
  <2> QED BY <1>2, <1>h, <2>1 DEF NoWaitCycle
<1>3. ASSUME NEW r \in Reqs, RefuseBody(r) PROVE NoWaitCycle'
  <2>1. /\ req[r].phase = "authed" /\ req' = [req EXCEPT ![r] = DoneReq]
        /\ UNCHANGED <<lock, mode, flushing, todo>>
    BY <1>3 DEF RefuseBody, callVars
  <2> QED BY <1>2, <2>1
<1>4. ASSUME NEW r \in Reqs, NEW k \in Keys, GetApiKey(r, k) PROVE NoWaitCycle'
  <2>1. req[r].phase = "new" /\ UNCHANGED <<lock, mode, flushing, todo>>
    BY <1>4 DEF GetApiKey, callVars
  <2>2. PICK x : req' = [req EXCEPT ![r] = x]
    BY <1>4 DEF GetApiKey
  <2> QED BY <1>2, <2>1, <2>2
<1>5. ASSUME NEW r \in Reqs, FirstQuery(r) PROVE NoWaitCycle'
  <2> DEFINE k == req[r].key
  <2>1. mode = "up" /\ req[r].phase = "authed" /\ UNCHANGED <<mode, flushing, todo>>
    BY <1>5 DEF FirstQuery, callVars
  <2>2. CASE ~(req[r].wrote /\ KeyLive(k))
    <3>1. lock' = lock
      BY <1>5, <2>2 DEF FirstQuery
    <3>2. PICK x : req' = [req EXCEPT ![r] = x]
      BY <1>5 DEF FirstQuery
    <3> QED BY <1>2, <2>1, <3>1, <3>2
  <2>3. CASE req[r].wrote /\ KeyLive(k)
    <3>1. lock' = [lock EXCEPT ![k] = r] /\ req' = [req EXCEPT ![r] = [req[r] EXCEPT !.phase = "open"]]
      BY <1>5, <2>3 DEF FirstQuery
    <3>2. req[r] \in ReqType /\ k \in Keys
      BY <1>0 DEF ReqType
    <3>3. req'[r].phase = "open" /\ req'[r].key = k
      BY <1>0, <3>1, <3>2 DEF ReqType
    <3>4. lock'[k] = r /\ \A j \in Keys \ {k} : lock'[j] = lock[j]
      BY <1>0, <3>1, <3>2
    <3>5. \A j \in Keys : lock[j] \in Reqs => req'[lock[j]] = req[lock[j]]
      BY <1>0, <1>h, <2>1, <3>1
    <3> HIDE DEF k
    <3>6. ASSUME NEW j \in Keys
          PROVE  /\ lock'[j] \in Reqs => mode' = "up" /\ req'[lock'[j]].phase = "open" /\ req'[lock'[j]].key = j
                 /\ lock'[j] = Flush => flushing' /\ j \notin todo'
      <4>1. CASE j = k
        BY <1>0, <2>1, <3>3, <3>4, <4>1
      <4>2. CASE j # k
        BY <1>h, <2>1, <3>4, <3>5, <4>2
      <4> QED BY <4>1, <4>2
    <3> QED BY <3>6 DEF NoWaitCycle
  <2> QED BY <2>2, <2>3
<1>6. ASSUME NEW w \in Reqs \cup {Flush}, lock' = Unlocked(w)
      PROVE  \A k \in Keys : lock'[k] # w /\ (lock'[k] = Nobody \/ lock'[k] = lock[k])
  BY <1>0, <1>6 DEF Unlocked
<1>7. ASSUME NEW r \in Reqs, EndRequest(r) PROVE NoWaitCycle'
  <2>1. /\ req' = [req EXCEPT ![r] = DoneReq] /\ lock' = Unlocked(r)
        /\ UNCHANGED <<mode, flushing, todo>>
    BY <1>7 DEF EndRequest, callVars
  <2>2. \A k \in Keys : lock'[k] # r /\ (lock'[k] = Nobody \/ lock'[k] = lock[k])
    BY <1>6, <2>1
  <2>3. \A q \in Reqs \ {r} : req'[q] = req[q]
    BY <1>0, <2>1
  <2> QED BY <1>0, <1>h, <2>1, <2>2, <2>3 DEF NoWaitCycle
<1>8. CASE FlushStart
  <2>1. ~flushing /\ UNCHANGED <<lock, req, mode>>
    BY <1>8 DEF FlushStart, callVars
  <2> QED BY <1>h, <2>1 DEF NoWaitCycle
<1>9. ASSUME NEW k \in Keys, FlushWrite(k) PROVE NoWaitCycle'
  <2>1. /\ flushing /\ todo' = todo \ {k} /\ UNCHANGED <<req, mode, flushing>>
        /\ lock' = [lock EXCEPT ![k] = Flush] \/ lock' = lock
    BY <1>9 DEF FlushWrite, callVars
  <2>2. \A j \in Keys : lock'[j] = lock[j] \/ (j = k /\ lock'[j] = Flush)
    BY <1>0, <2>1
  <2> QED BY <1>0, <1>h, <2>1, <2>2 DEF NoWaitCycle
<1>10. ASSUME FlushCommit \/ FlushFails PROVE NoWaitCycle'
  <2>1. /\ lock' = Unlocked(Flush) /\ req' = req
        /\ mode' = IF mode = "stopping" THEN "down" ELSE mode
    BY <1>10 DEF FlushCommit, FlushFails, AfterFlush
  <2>2. \A k \in Keys : lock'[k] # Flush /\ (lock'[k] = Nobody \/ lock'[k] = lock[k])
    BY <1>6, <2>1
  <2> QED BY <1>0, <1>h, <2>1, <2>2 DEF NoWaitCycle
<1>11. ASSUME ShutDown \/ Crash PROVE NoWaitCycle'
  <2>1. lock' = [k \in Keys |-> Nobody]
    BY <1>11 DEF ShutDown, Crash, Forget
  <2> QED BY <1>0, <2>1 DEF NoWaitCycle
<1>12. ASSUME Boot PROVE NoWaitCycle'
  BY <1>1, <1>12 DEF Boot, stampVars
<1>13. ASSUME ClockTicks \/ UNCHANGED accessVars PROVE NoWaitCycle'
  BY <1>1, <1>13 DEF ClockTicks, accessVars
<1>14. ASSUME NEW c \in Calls, CallBegins(c) \/ CallGoesOn(c) PROVE NoWaitCycle'
  <2>1. UNCHANGED <<mode, stampVars>>
    BY <1>0, <1>14, Beginning, GoingOn
  <2> QED BY <1>1, <2>1 DEF stampVars
<1> QED BY <1>3, <1>4, <1>5, <1>7, <1>8, <1>9, <1>10, <1>11, <1>12, <1>13, <1>14
     DEF AccessNext, FlushGoesOn

(***************************************************************************)
(* The invariant.                                                          *)
(***************************************************************************)

LEMMA AccessStart ==
    ASSUME AccessInit
    PROVE  AccessInv
<1>1. /\ user \in [Ids -> UserType] /\ \A i \in DOMAIN Founders : user[i] = User("live", Founders[i], "admin")
      /\ \A i \in Ids \ DOMAIN Founders : user[i] = Unborn
  <2>1. user = [i \in Ids |-> IF i \in DOMAIN Founders THEN User("live", Founders[i], "admin") ELSE Unborn]
    BY DEF AccessInit
  <2>2. \A i \in DOMAIN Founders : User("live", Founders[i], "admin") \in UserType
    BY AccessAssumption, Writes
  <2> QED BY <2>1, <2>2, Defaults, AccessAssumption
<1>2. \A i \in Ids : Live(i) => i \in DOMAIN Founders /\ user[i].name = Founders[i]
  BY <1>1, Reads DEF Live, Unborn
<1>3. \A i, j \in Ids : Live(i) /\ Live(j) /\ user[i].name = user[j].name => i = j
  BY <1>2, AccessAssumption
<1>4. Admins # {}
  <2> PICK i \in DOMAIN Founders : i \in Ids
    BY AccessAssumption
  <2>1. user[i].life = "live" /\ user[i].role = "admin"
    BY <1>1, Reads
  <2> QED BY <2>1 DEF Admins, Live
<1>5. /\ key \in [Keys -> KeyType]
      /\ \A k \in Keys : key[k].stamp = 0
      /\ \A k \in Keys : KeyLive(k) => k \in DOMAIN Issued /\ key[k].owner = Issued[k]
  <2>1. key = [k \in Keys |-> IF k \in DOMAIN Issued THEN Key("live", Issued[k], FALSE, 0) ELSE NoKey]
    BY DEF AccessInit
  <2>2. ASSUME NEW k \in Keys
        PROVE  /\ key[k] \in KeyType /\ key[k].stamp = 0
               /\ KeyLive(k) => k \in DOMAIN Issued /\ key[k].owner = Issued[k]
    <3>1. CASE k \in DOMAIN Issued
      <4>1. key[k] = Key("live", Issued[k], FALSE, 0) /\ Issued[k] \in Ids
        BY <2>1, <3>1, AccessAssumption
      <4>2. Key("live", Issued[k], FALSE, 0) \in KeyType
        BY <4>1, Defaults DEF Key, KeyType
      <4> QED BY <3>1, <4>1, <4>2 DEF Key
    <3>2. CASE k \notin DOMAIN Issued
      <4>1. key[k] = NoKey
        BY <2>1, <3>2
      <4> QED BY <4>1, Defaults DEF NoKey, Key, KeyLive
    <3> QED BY <3>1, <3>2
  <2> QED BY <2>1, <2>2
<1>6. \A k \in Keys : KeyLive(k) => Live(key[k].owner)
  <2> TAKE k \in Keys
  <2> HAVE KeyLive(k)
  <2>1. key[k].owner \in DOMAIN Founders
    BY <1>5, AccessAssumption
  <2> QED BY <1>1, <2>1, Reads DEF Live
<1>7. /\ model \in [Models -> ModelType] /\ catalog \in Catalogs
      /\ \A m \in catalog : model[m].life = "builtin"
      /\ \A m \in Models : model[m].deployed => model[m].life # "none"
  <2> DEFINE none == [m \in Models |-> NoModel]
  <2>1. catalog \in Catalogs /\ model = Seeded(none, catalog)
    BY AccessAssumption DEF AccessInit
  <2>2. NoModel \in ModelType /\ ~NoModel.deployed
    BY DEF NoModel, Model, ModelType
  <2>3. none \in [Models -> ModelType] /\ \A m \in Models : ~none[m].deployed
    BY <2>2
  <2> HIDE DEF none
  <2> QED BY <2>1, <2>3, SeededType
<1>8. RestType
  BY AccessAssumption, Defaults DEF AccessInit, RestType
<1>9. /\ call = [c \in Calls |-> NewCall] /\ \A c \in Calls : call[c].phase = "new"
      /\ call \in [Calls -> CallType]
  BY Defaults, Reads DEF AccessInit
<1>10. /\ clock = 1 /\ dirty = NoStamps /\ pending = NoStamps /\ latest = NoStamps
       /\ flushing = FALSE /\ raced = FALSE /\ clock \in Times
       /\ \A k \in Keys : NoStamps[k] = 0
  BY Defaults DEF AccessInit, NoStamps
<1>11. AccessTypeOK
  BY <1>1, <1>3, <1>5, <1>6, <1>7, <1>8, <1>9, <1>10, Defaults DEF AccessTypeOK, RestType
<1>12. RoomIsKept
  <2>1. Inserting("create") = {} /\ Inserting("issue") = {}
    BY <1>9 DEF Inserting
  <2> QED BY <2>1, Counted, FS_EmptySet DEF RoomIsKept
<1>13. NewestStampKept /\ StampsInOrder
  BY <1>5, <1>10 DEF NewestStampKept, StampsInOrder, Newest
<1>14. CallsOnlyUp /\ DeletesCounted /\ DropsCustom
  BY <1>9 DEF CallsOnlyUp, DeletesCounted, DropsCustom
<1> QED BY <1>4, <1>7, <1>11, <1>12, <1>13, <1>14 DEF AccessInv, BuiltinNamesReserved

LEMMA AccessStep ==
    ASSUME AccessInv, [AccessNext]_accessVars
    PROVE  AccessInv'
<1>1. AccessTypeOK'
  <2>1. \A k \in Keys : KeyLive(k)' => Live(key[k].owner)'
    BY OwnerStep
  <2>2. RestType'
    BY RestStep
  <2> QED BY <2>1, <2>2, UserStep, KeyStep, CallStep, ModelStep, StampFrame
       DEF AccessTypeOK, RestType
<1>2. NewestStampKept' /\ StampsInOrder'
  <2>1. \A k \in Keys : StampKept(k)' /\ InTime(k)'
    BY StampStep
  <2>2. \A k \in Keys : ~flushing' => pending'[k] = 0
    BY SnapshotStep
  <2> QED BY <2>1, <2>2 DEF NewestStampKept, StampsInOrder, StampKept, InTime
<1> QED BY <1>1, <1>2, CallStep, RoomStep, AdminStep, ModelStep DEF AccessInv

(***************************************************************************)
(* The theorems.                                                           *)
(***************************************************************************)

\* Whatever calls, requests, flushes, restarts and releases overlap, the tables, the
\* sessions and the memory of the server satisfy the inductive invariant.
THEOREM AccessInvariant == AccessSpec => []AccessInv
<1>1. AccessInit => AccessInv
  BY AccessStart
<1>2. AccessInv /\ [AccessNext]_accessVars => AccessInv'
  BY AccessStep
<1> QED BY <1>1, <1>2, PTL DEF AccessSpec

\* The unique index on usernames and the foreign keys of api_keys and of deployments hold
\* for the tables as create_user, delete_user, create_key, delete_model and the seeding
\* of a start write them, and every row and session keeps its type.
THEOREM AccessTyping == AccessSpec => []AccessTypeOK
<1>1. AccessInv => AccessTypeOK
  BY DEF AccessInv
<1> QED BY <1>1, AccessInvariant, PTL

\* flush_last_used_stamps loses no stamp that the process lives to store: the newest one of
\* a live key is stored, in the snapshot of the flush or noted, however many keys, requests
\* and failed flushes there are.
THEOREM StampsNeverLost == AccessSpec => []NewestStampKept
<1>1. AccessInv => NewestStampKept
  BY DEF AccessInv
<1> QED BY <1>1, AccessInvariant, PTL

\* flush_last_used_stamps leaves nothing behind: when it has ended and no request has noted
\* a stamp since, every live key's row has its newest stamp, whatever failed in between.
THEOREM QuietAlwaysStored == AccessSpec => []QuietMeansStored
<1>1. AccessInv => QuietMeansStored
  <2> SUFFICES ASSUME AccessInv, ~flushing, dirty = NoStamps, NEW k \in Keys, KeyLive(k)
               PROVE  key[k].stamp = latest[k]
    BY DEF QuietMeansStored
  <2>1. latest[k] = Newest(key[k].stamp, Newest(pending[k], dirty[k]))
    BY DEF AccessInv, NewestStampKept
  <2>2. pending[k] = 0 /\ dirty[k] = 0
    BY DEF AccessInv, StampsInOrder, NoStamps
  <2>3. key[k].stamp \in Nat
    BY Defaults DEF AccessInv, AccessTypeOK, KeyType
  <2> QED BY <2>1, <2>2, <2>3 DEF Newest
<1> QED BY <1>1, AccessInvariant, PTL

\* A revocation, a deletion, a request and the flush that wait for the row of a key wait for
\* a request that relays or for a flush that waits for none of its own rows, for any number
\* of keys and requests: the locks that autoflush takes admit no circle.
THEOREM LocksNeverCycle == AccessSpec => []NoWaitCycle
<1>1. AccessInit => NoWaitCycle
  <2> SUFFICES ASSUME AccessInit PROVE NoWaitCycle
    OBVIOUS
  <2>1. \A k \in Keys : lock[k] = Nobody
    BY DEF AccessInit
  <2>2. Nobody \notin Reqs /\ Nobody # Flush
    BY AccessAssumption DEF Reqs, Nobody, Flush
  <2> QED BY <2>1, <2>2 DEF NoWaitCycle
<1>2. AccessInv /\ NoWaitCycle /\ [AccessNext]_accessVars => NoWaitCycle'
  BY LockStep
<1> QED BY <1>1, <1>2, AccessInvariant, PTL DEF AccessSpec

\* delete_user leaves an administrator, for any number of users and calls, unless two
\* deletions of administrators overlapped between count and commit.
THEOREM AdminsNeverRunOut == AccessSpec => []AdminKept
<1>1. AccessInv => AdminKept
  BY DEF AccessInv, AdminKept
<1> QED BY <1>1, AccessInvariant, PTL

\* create_model and delete_model never put a custom row, or none, under a name of the
\* running catalogue, whatever restarts and changes of release lie between.
THEOREM CatalogStaysBuiltin == AccessSpec => []BuiltinNamesReserved
<1>1. AccessInv => BuiltinNamesReserved
  BY DEF AccessInv
<1> QED BY <1>1, AccessInvariant, PTL
=============================================================================
