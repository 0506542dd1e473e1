------------------------- MODULE Registration_proofs ------------------------
(***************************************************************************)
(* Theorems about Registration, for any number of workers, rows, names and *)
(* policies: the two indexes, what an undisturbed registration may rely    *)
(* on, who loses a token to whom, and where the gateway connects to.       *)
(***************************************************************************)
EXTENDS Registration, WellFoundedInduction, TLAPS

\* A set of numbers has a least one.
LEMMA LeastOf ==
    ASSUME NEW S \in SUBSET Nat, S # {}
    PROVE  \E p \in S : \A q \in S : p <= q
<1>1. PICK p \in S : \A q \in S : ~(<<q, p>> \in OpToRel(<, Nat))
  BY NatLessThanWellFounded, WFMin
<1>2. \A q \in S : ~(q < p)
  BY <1>1 DEF OpToRel
<1> QED BY <1>2

(***************************************************************************)
(* The guard.                                                              *)
(***************************************************************************)

\* _prefer_ipv4 returns an address of the answer.
LEMMA Preferred ==
    ASSUME NEW ips \in Seq(IPs), ips # << >>
    PROVE  PreferIpv4(ips) \in IPs /\ PreferIpv4(ips) \in ToSet(ips)
<1> DEFINE v4 == {i \in DOMAIN ips : ips[i] \in V4}
<1>1. DOMAIN ips \subseteq Nat /\ 1 \in DOMAIN ips /\ \A i \in DOMAIN ips : ips[i] \in IPs
  OBVIOUS
<1>2. CASE v4 = {}
  <2>1. PreferIpv4(ips) = ips[1]
    BY <1>2 DEF PreferIpv4
  <2> QED BY <1>1, <2>1 DEF ToSet
<1>3. CASE v4 # {}
  <2>1. \E i \in v4 : \A j \in v4 : i <= j
    BY <1>1, <1>3, LeastOf
  <2> PICK i \in v4 : PreferIpv4(ips) = ips[i]
    BY <1>3, <2>1 DEF PreferIpv4
  <2> QED BY <1>1 DEF ToSet
<1> QED BY <1>2, <1>3

Pins == {Refusal} \cup {PinTo(x) : x \in Names \cup IPs}

\* Outside development the pin is an accepted address, unless the host is trusted by name.
Trusted(p, host, pin) ==
    pin.ok /\ p.env # "development" =>
        host \in p.names \/ (pin.to[1] \in IPs /\ IpAccepted(p, pin.to[1]))

\* What a pin says.
LEMMA PinReads ==
    /\ ~Refusal.ok
    /\ \A x : PinTo(x).ok /\ PinTo(x).to = <<x>> /\ PinTo(x).to[1] = x
  BY DEF Refusal, PinTo

\* resolve_and_validate: outside development, the address of the pin is accepted unless the
\* host is on the allowlist by name.
LEMMA Validated ==
    ASSUME NEW p \in Policies, NEW host \in Names \cup IPs, NEW d \in [Names -> Answers]
    PROVE  /\ resolve_and_validate(p, host, d) \in Pins
           /\ Trusted(p, host, resolve_and_validate(p, host, d))
<1> DEFINE pin == resolve_and_validate(p, host, d)
<1>1. CASE host \in IPs
  <2>1. pin = ValidateLiteral(p, host)
    BY <1>1 DEF resolve_and_validate
  <2>2. Mapped[host] \in IPs /\ Mapped[Mapped[host]] = Mapped[host]
    BY <1>1, GuardAssumption
  <2>3. CASE IpAccepted(p, host)
    <3>1. pin = PinTo(Mapped[host])
      BY <2>1, <2>3 DEF ValidateLiteral
    <3>2. IpAccepted(p, Mapped[host])
      BY <2>2, <2>3 DEF IpAccepted, Allowed, IpIsBlocked
    <3> QED BY <2>2, <3>1, <3>2, PinReads DEF Pins, Trusted
  <2>4. CASE ~IpAccepted(p, host)
    <3>1. pin = Refusal
      BY <2>1, <2>4 DEF ValidateLiteral
    <3> QED BY <3>1, PinReads DEF Pins, Trusted
  <2> QED BY <2>3, <2>4
<1>2. CASE host \notin IPs
  <2> DEFINE ips == d[host]
             passThrough == /\ ips = << >>
                            /\ \/ host \in p.names /\ p.env # "production"
                               \/ ~HasAllowlist(p) /\ p.env = "development"
             vouched == host \in p.names \/ \A ip \in ToSet(ips) : IpAccepted(p, ip)
  <2>1. pin = ValidateName(p, host, ips) /\ host \in Names /\ ips \in Seq(IPs)
    BY <1>2, RegistrationAssumption DEF resolve_and_validate
  <2>2. CASE passThrough
    <3>1. pin = PinTo(host)
      BY <2>1, <2>2 DEF ValidateName
    <3> QED BY <2>2, <3>1, PinReads DEF Pins, Trusted
  <2>3. CASE ~passThrough /\ ips # << >> /\ vouched
    <3>1. pin = PinTo(PreferIpv4(ips))
      BY <2>1, <2>3 DEF ValidateName
    <3>2. PreferIpv4(ips) \in IPs /\ PreferIpv4(ips) \in ToSet(ips)
      BY <2>1, <2>3, Preferred
    <3> QED BY <2>3, <3>1, <3>2, PinReads DEF Pins, Trusted
  <2>4. CASE ~passThrough /\ ~(ips # << >> /\ vouched)
    <3>1. pin = Refusal
      BY <2>1, <2>4 DEF ValidateName
    <3> QED BY <3>1, PinReads DEF Pins, Trusted
  <2> QED BY <2>2, <2>3, <2>4
<1> QED BY <1>1, <1>2

\* The rule for https lets the name through only where it is trusted.
LEMMA Ruled ==
    ASSUME NEW p \in Policies, NEW addr \in AddrType, addr.host \in Names \cup IPs, NEW pin \in Pins,
           Trusted(p, addr.host, pin)
    PROVE  /\ HttpsRule(p, addr, pin) \in Pins
           /\ Trusted(p, addr.host, HttpsRule(p, addr, pin))
<1> DEFINE same == pin.to = <<addr.host>> /\ (addr.host \in V4 \/ addr.host \in Names)
           out == HttpsRule(p, addr, pin)
<1>1. CASE ~pin.ok \/ addr.kind # "https" \/ same
  <2>1. out = pin
    BY <1>1 DEF HttpsRule
  <2> QED BY <2>1 DEF Trusted
<1>2. CASE pin.ok /\ addr.kind = "https" /\ ~same /\ (p.env = "development" \/ addr.host \in p.names)
  <2>1. out = PinTo(addr.host)
    BY <1>2 DEF HttpsRule
  <2> QED BY <1>2, <2>1, PinReads DEF Pins, Trusted
<1>3. CASE /\ ~(~pin.ok \/ addr.kind # "https" \/ same)
           /\ ~(pin.ok /\ addr.kind = "https" /\ ~same /\ (p.env = "development" \/ addr.host \in p.names))
  <2>1. out = Refusal
    BY <1>3 DEF HttpsRule
  <2> QED BY <2>1, PinReads DEF Pins, Trusted
<1> QED BY <1>1, <1>2, <1>3

(***************************************************************************)
(* What the steps leave alone.                                             *)
(***************************************************************************)

\* The row of a commit: one that was never used, or the one that was found.
LEMMA TargetRow ==
    ASSUME RgTypeOK, NEW a \in Agents, Stored(a)
    PROVE  /\ Target(a) \in Rids
           /\ look[a].row = 0 => rows[Target(a)].life = "unborn"
           /\ look[a].row # 0 => Target(a) = look[a].row /\ Target(a) \in Live
<1>1. CASE look[a].row = 0
  <2> DEFINE unborn == {r \in Rids : rows[r].life = "unborn"}
  <2>1. unborn # {} /\ unborn \subseteq Nat
    BY <1>1 DEF Stored, Rids
  <2>2. PICK r \in unborn : \A q \in unborn : r <= q
    BY <2>1, LeastOf
  <2>3. \A q \in 1 .. r - 1 : q \in Rids /\ ~(r <= q)
    BY RegistrationAssumption DEF Rids
  <2>4. r \in Rids /\ rows[r].life = "unborn" /\ \A q \in 1 .. r - 1 : rows[q].life # "unborn"
    BY <2>2, <2>3
  <2> QED BY <1>1, <2>4 DEF Target
<1>2. CASE look[a].row # 0
  BY <1>2 DEF Target, Stored, Storable, Live
<1> QED BY <1>1, <1>2

\* Only a commit, a Sync and a deletion write rows.
LEMMA RowsFrame ==
    ASSUME [RgNext]_rgVars
    PROVE  \/ UNCHANGED rows
           \/ \E a \in Agents : Stored(a) \/ Sync(a)
           \/ \E r \in Rids : DeleteWorker(r)
           \/ DropCluster
  BY DEF RgNext, rgVars, Register, StartProcess, LookupWorker, CheckNames, Registered, RegisterFails,
         ResponseLost, ProcessDies, Route, CountWorkers, LoadWorkers, CreateCluster,
         DnsChanges, Resolve, Connect

\* What a step does to the registration of worker a.
LookMoved(a) ==
    \/ rows' = rows /\ proc'[a] = proc[a] /\ look'[a] = look[a]
    \/ /\ proc'[a].phase \in {"down", "register", "syncing"} /\ proc'[a] \in ProcType
       /\ proc[a].phase = "syncing" => ProcessDies(a)
       /\ look'[a] = NoLook \/ look'[a] = look[a]
    \/ LookupWorker(a) \/ CheckNames(a)
    \/ proc'[a] = proc[a] /\ look'[a] = [look[a] EXCEPT !.calm = FALSE]

Tables == proc' = [b \in Agents |-> proc'[b]] /\ look' = [b \in Agents |-> look'[b]]

LEMMA TablesFrame ==
    ASSUME RgTypeOK, [RgNext]_rgVars
    PROVE  Tables
<1>1. /\ proc = [b \in Agents |-> proc[b]] /\ look = [b \in Agents |-> look[b]]
      /\ DOMAIN proc = Agents /\ DOMAIN look = Agents
  BY DEF RgTypeOK
<1>2. proc' = [b \in Agents |-> proc'[b]]
  BY <1>1 DEF RgNext, rgVars, Register, StartProcess, LookupWorker, CheckNames, Registered, RegisterFails,
         ResponseLost, Sync, ProcessDies, DeleteWorker, Route, CountWorkers, LoadWorkers, DropCluster,
         CreateCluster, DnsChanges, Resolve, Connect
<1>3. look' = [b \in Agents |-> look'[b]]
  BY <1>1 DEF RgNext, rgVars, Register, StartProcess, LookupWorker, CheckNames, Registered, RegisterFails,
         ResponseLost, Stored, Sync, ProcessDies, DeleteWorker, Route, CountWorkers, LoadWorkers,
         DropCluster, CreateCluster, DnsChanges, Resolve, Connect, Disturb
<1> QED BY <1>2, <1>3 DEF Tables

LEMMA LookFrame ==
    ASSUME RgTypeOK, [RgNext]_rgVars, NEW a \in Agents
    PROVE  LookMoved(a)
<1>0. /\ proc \in [Agents -> ProcType] /\ look \in [Agents -> LookType]
      /\ \A b \in Agents : proc[b] \in ProcType /\ proc[b].row \in Rids \cup {0}
  BY DEF RgTypeOK, ProcType
<1> DEFINE Goal == LookMoved(a)
<1>1. CASE UNCHANGED <<rows, proc, look>>
  BY <1>0, <1>1 DEF LookMoved
<1>2. ASSUME NEW b \in Agents, StartProcess(b) PROVE Goal
  <2>1. proc' = [proc EXCEPT ![b] = [phase |-> "register", row |-> 0]] /\ UNCHANGED <<rows, look>>
        /\ proc[b].phase = "down"
    BY <1>2 DEF StartProcess
  <2>2. CASE a = b
    BY <1>0, <2>1, <2>2 DEF LookMoved, ProcType
  <2>3. CASE a # b
    BY <1>0, <2>1, <2>3 DEF LookMoved
  <2> QED BY <2>2, <2>3
<1>3. ASSUME NEW b \in Agents, LookupWorker(b) PROVE Goal
  <2>1. /\ \E x : look' = [look EXCEPT ![b] = x]
        /\ proc' = [proc EXCEPT ![b].phase = "looked"] /\ UNCHANGED rows
    BY <1>3 DEF LookupWorker
  <2>2. CASE a = b
    BY <1>0, <1>3, <2>1, <2>2 DEF LookMoved
  <2>3. CASE a # b
    BY <1>0, <2>1, <2>3 DEF LookMoved
  <2> QED BY <2>2, <2>3
<1>4. ASSUME NEW b \in Agents, CheckNames(b) PROVE Goal
  <2>1. /\ \E x, y : look' = [look EXCEPT ![b].host = x, ![b].name = y]
        /\ proc' = [proc EXCEPT ![b].phase = "checked"] /\ UNCHANGED rows
    BY <1>4 DEF CheckNames
  <2>2. CASE a = b
    BY <1>0, <1>4, <2>1, <2>2 DEF LookMoved
  <2>3. CASE a # b
    BY <1>0, <2>1, <2>3 DEF LookMoved
  <2> QED BY <2>2, <2>3
<1>5. ASSUME NEW b \in Agents, Registered(b) \/ ResponseLost(b) PROVE Goal
  <2>1. /\ Stored(b) /\ proc[b].phase = "checked"
        /\ look' = [c \in Agents |-> IF c = b THEN NoLook ELSE [look[c] EXCEPT !.calm = FALSE]]
        /\ \/ proc' = [proc EXCEPT ![b] = [phase |-> "syncing", row |-> Target(b)]]
           \/ proc' = [proc EXCEPT ![b].phase = "register"]
    BY <1>5 DEF Registered, ResponseLost, Stored
  <2>2. Target(b) \in Rids
    BY <2>1, TargetRow
  <2>3. CASE a = b
    <3>1. look'[a] = NoLook
      BY <1>0, <2>1, <2>3
    <3>2. /\ proc'[a].phase \in {"down", "register", "syncing"} /\ proc'[a] \in ProcType
      BY <1>0, <2>1, <2>2, <2>3 DEF ProcType
    <3> QED BY <2>1, <2>3, <3>1, <3>2 DEF LookMoved
  <2>4. CASE a # b
    BY <1>0, <2>1, <2>4 DEF LookMoved
  <2> QED BY <2>3, <2>4
<1>6. ASSUME NEW b \in Agents, RegisterFails(b) PROVE Goal
  <2>1. /\ look' = [look EXCEPT ![b] = NoLook] /\ proc[b].phase = "checked"
        /\ proc' = [proc EXCEPT ![b].phase = "register"] /\ UNCHANGED rows
    BY <1>6 DEF RegisterFails
  <2>2. CASE a = b
    <3>1. /\ proc'[a].phase = "register" /\ proc'[a] \in ProcType /\ look'[a] = NoLook
         
      BY <1>0, <2>1, <2>2 DEF ProcType
    <3> QED BY <2>1, <2>2, <3>1 DEF LookMoved
  <2>3. CASE a # b
    BY <1>0, <2>1, <2>3 DEF LookMoved
  <2> QED BY <2>2, <2>3
<1>7. ASSUME NEW b \in Agents, ProcessDies(b) PROVE Goal
  <2>1. /\ look' = [look EXCEPT ![b] = NoLook]
        /\ proc' = [proc EXCEPT ![b] = [phase |-> "down", row |-> 0]] /\ UNCHANGED rows
    BY <1>7 DEF ProcessDies
  <2>2. CASE a = b
    BY <1>0, <1>7, <2>1, <2>2 DEF LookMoved, ProcType
  <2>3. CASE a # b
    BY <1>0, <2>1, <2>3 DEF LookMoved
  <2> QED BY <2>2, <2>3
<1>8. ASSUME Disturb(Agents), proc' = proc PROVE Goal
  BY <1>0, <1>8 DEF LookMoved, Disturb
<1>9. ASSUME NEW b \in Agents, Sync(b) PROVE Goal
  BY <1>8, <1>9 DEF Sync
<1>10. ASSUME NEW r \in Rids, DeleteWorker(r) PROVE Goal
  BY <1>8, <1>10 DEF DeleteWorker
<1>11. CASE DropCluster
  BY <1>8, <1>11 DEF DropCluster
<1>12. CASE \/ \E r \in Rids : Route(r)
            \/ CountWorkers \/ LoadWorkers \/ CreateCluster \/ DnsChanges \/ Resolve \/ Connect
            \/ UNCHANGED rgVars
  BY <1>1, <1>12 DEF Route, CountWorkers, LoadWorkers, CreateCluster, DnsChanges, Resolve, Connect, rgVars
<1> QED BY <1>2, <1>3, <1>4, <1>5, <1>6, <1>7, <1>9, <1>10, <1>11, <1>12 DEF RgNext, Register

(***************************************************************************)
(* Rows.                                                                   *)
(***************************************************************************)

\* A cluster and its rows: a live row has a name, a hostname and a cluster, and shares
\* neither name nor hostname with another.
RowsGood ==
    /\ cluster \in BOOLEAN /\ drop \in {"no", "counted", "loaded"}
    /\ rows \in [Rids -> RowType]
    /\ \A r \in Live : /\ cluster /\ rows[r].name \in Names /\ rows[r].host \in Names
                        /\ rows[r].addr.host \in Names \cup IPs
    /\ RowsUnique

LEMMA Blank ==
    /\ NoRow \in RowType /\ NoRow.life = "unborn"
    /\ \A r : Removed(r) \in RowType /\ Removed(r).life = "gone"
<1>1. NoRow \in RowType /\ NoRow.life = "unborn"
  BY DEF NoRow, RowType, AddrType, MaybeNames
<1>2. \A r : Removed(r) \in RowType /\ Removed(r).life = "gone"
  BY <1>1 DEF Removed, RowType
<1> QED BY <1>1, <1>2

\* One row that is written with a name and a hostname no other live row has.
LEMMA OneRow ==
    ASSUME RowsGood, cluster' = cluster, drop' = drop, cluster,
           NEW t \in Rids, NEW x \in RowType, x.name \in Names, x.host \in Names,
           x.addr.host \in Names \cup IPs,
           \A q \in Live \ {t} : rows[q].host # x.host /\ rows[q].name # x.name,
           rows' = [rows EXCEPT ![t] = x]
    PROVE  RowsGood'
<1>1. /\ rows' \in [Rids -> RowType] /\ rows'[t] = x
      /\ \A q \in Rids \ {t} : rows'[q] = rows[q]
  BY DEF RowsGood
<1>2. Live' \subseteq Live \cup {t}
  BY <1>1 DEF Live
<1>3. \A r \in Live' : /\ cluster' /\ rows'[r].name \in Names /\ rows'[r].host \in Names
                         /\ rows'[r].addr.host \in Names \cup IPs
  BY <1>1, <1>2 DEF RowsGood, Live
<1>4. ASSUME NEW q \in Live', NEW r \in Live', q # r
      PROVE  rows'[q].host # rows'[r].host /\ rows'[q].name # rows'[r].name
  <2>0. q \in Rids /\ r \in Rids
    BY DEF Live
  <2>1. CASE q = t
    BY <1>1, <1>2, <1>4, <2>0, <2>1
  <2>2. CASE r = t
    BY <1>1, <1>2, <1>4, <2>0, <2>2
  <2>3. CASE q # t /\ r # t
    BY <1>1, <1>2, <1>4, <2>0, <2>3 DEF RowsGood, RowsUnique
  <2> QED BY <2>1, <2>2, <2>3
<1>5. RowsUnique'
  BY <1>4 DEF RowsUnique
<1> QED BY <1>1, <1>3, <1>5 DEF RowsGood

\* Rows that only end.
LEMMA FewerRows ==
    ASSUME RowsGood, cluster' \in BOOLEAN, drop' \in {"no", "counted", "loaded"},
           rows' \in [Rids -> RowType],
           \A r \in Live' : r \in Live /\ rows'[r] = rows[r] /\ cluster' = cluster
    PROVE  RowsGood'
<1>1. \A r \in Live' : /\ cluster' /\ rows'[r].name \in Names /\ rows'[r].host \in Names
                         /\ rows'[r].addr.host \in Names \cup IPs
  BY DEF RowsGood
<1>2. RowsUnique'
  BY DEF RowsGood, RowsUnique
<1> QED BY <1>1, <1>2 DEF RowsGood

LEMMA RowsStep ==
    ASSUME RgInv, [RgNext]_rgVars
    PROVE  RowsGood'
<1>0. RgTypeOK /\ RowsGood /\ LooksHold
  BY DEF RgInv, RgTypeOK, RowsGood
<1>1. CASE UNCHANGED <<cluster, drop, rows>>
  BY <1>0, <1>1 DEF RowsGood, RowsUnique, Live
<1>2. ASSUME NEW a \in Agents, Stored(a) PROVE RowsGood'
  <2> DEFINE t == Target(a)
             x == [life |-> "live", name |-> look[a].name, host |-> look[a].host, token |-> {a},
                   addr |-> Conf[a].addr]
  <2>1. /\ rows' = [rows EXCEPT ![t] = x] /\ UNCHANGED <<cluster, drop>> /\ cluster /\ Unique(a)
        /\ proc[a].phase = "checked"
    BY <1>2 DEF Stored, Storable
  <2>2. t \in Rids /\ (look[a].row = 0 => t \notin Live) /\ (look[a].row # 0 => t = look[a].row)
    BY <1>0, <1>2, TargetRow DEF Live
  <2>3. look[a].host \in Names /\ look[a].name \in Names
    BY <1>0, <2>1 DEF LooksHold
  <2>4. Conf[a].addr \in AddrType /\ Conf[a].addr.host \in Names \cup IPs
    BY RegistrationAssumption DEF AddrType, MaybeNames
  <2>5. x \in RowType /\ x.name \in Names /\ x.host \in Names /\ x.addr = Conf[a].addr
    BY <2>3, <2>4 DEF RowType, MaybeNames
  <2>6. \A q \in Live \ {t} : rows[q].host # x.host /\ rows[q].name # x.name
    <3>1. \A q \in Live \ {look[a].row} : rows[q].host # look[a].host /\ rows[q].name # look[a].name
      BY <2>1 DEF Unique, Available
    <3>2. look[a].row = 0 => Live \ {look[a].row} = Live
      BY DEF Live, Rids
    <3> QED BY <2>2, <3>1, <3>2
  <2> QED BY <1>0, <2>1, <2>2, <2>4, <2>5, <2>6, OneRow
<1>3. ASSUME NEW a \in Agents, Sync(a) PROVE RowsGood'
  <2> DEFINE t == proc[a].row
             x == [rows[t] EXCEPT !.host = Conf[a].host]
  <2>1. /\ rows' = [rows EXCEPT ![t] = x] /\ UNCHANGED <<cluster, drop>> /\ t \in Live
        /\ \A q \in Live \ {t} : rows[q].host # Conf[a].host
    BY <1>3 DEF Sync, Holds, SyncFits, Available
  <2>2. /\ t \in Rids /\ rows[t] \in RowType /\ rows[t].name \in Names /\ Conf[a].host \in Names /\ cluster
        /\ rows[t].addr.host \in Names \cup IPs
    BY <1>0, <2>1, RegistrationAssumption DEF RowsGood, Live
  <2>3. x \in RowType /\ x.name = rows[t].name /\ x.host = Conf[a].host /\ x.addr = rows[t].addr
    BY <2>2 DEF RowType, MaybeNames
  <2>4. \A q \in Live \ {t} : rows[q].host # x.host /\ rows[q].name # x.name
    BY <1>0, <2>1, <2>3 DEF RowsGood, RowsUnique
  <2> QED BY <1>0, <2>1, <2>2, <2>3, <2>4, OneRow
<1>4. ASSUME NEW r \in Rids, DeleteWorker(r) PROVE RowsGood'
  <2>1. rows' = [rows EXCEPT ![r] = Removed(r)] /\ UNCHANGED <<cluster, drop>>
    BY <1>4 DEF DeleteWorker
  <2>2. /\ rows' \in [Rids -> RowType] /\ rows'[r].life = "gone"
        /\ \A q \in Rids \ {r} : rows'[q] = rows[q]
    BY <1>0, <2>1, Blank DEF RowsGood
  <2>3. \A q \in Live' : q \in Live /\ rows'[q] = rows[q]
    BY <2>2 DEF Live
  <2> QED BY <1>0, <2>1, <2>2, <2>3, FewerRows DEF RowsGood
<1>5. CASE DropCluster
  <2>1. /\ rows' = [r \in Rids |-> IF r \in Live THEN Removed(r) ELSE rows[r]]
        /\ cluster' = FALSE /\ drop' = "no"
    BY <1>5 DEF DropCluster
  <2>2. rows' \in [Rids -> RowType]
    BY <1>0, <2>1, Blank DEF RowsGood
  <2>3. Live' = {}
    BY <2>1, Blank DEF Live
  <2> QED BY <1>0, <2>1, <2>2, <2>3, FewerRows
<1>6. CASE CountWorkers \/ LoadWorkers
  <2>1. UNCHANGED <<cluster, rows>> /\ drop' \in {"no", "counted", "loaded"}
    BY <1>6 DEF CountWorkers, LoadWorkers
  <2> QED BY <1>0, <2>1, FewerRows DEF RowsGood, Live
<1>7. CASE CreateCluster
  <2>1. cluster' = TRUE /\ ~cluster /\ UNCHANGED <<drop, rows>>
    BY <1>7 DEF CreateCluster
  <2>2. Live' = {}
    BY <1>0, <2>1 DEF RowsGood, Live
  <2> QED BY <1>0, <2>1, <2>2, FewerRows DEF RowsGood
<1>8. ASSUME NEW a \in Agents, Register(a) \/ ResponseLost(a) \/ ProcessDies(a) PROVE RowsGood'
  BY <1>1, <1>2, <1>8
     DEF Register, StartProcess, LookupWorker, CheckNames, Registered, RegisterFails, ResponseLost,
         ProcessDies
<1>9. CASE (\E r \in Rids : Route(r)) \/ DnsChanges \/ Resolve \/ Connect \/ UNCHANGED rgVars
  BY <1>1, <1>9 DEF Route, DnsChanges, Resolve, Connect, rgVars
<1> QED BY <1>3, <1>4, <1>5, <1>6, <1>7, <1>8, <1>9 DEF RgNext

(***************************************************************************)
(* Registrations under way.                                                *)
(***************************************************************************)

\* The row that was found, by what it was found.
LEMMA MatchedRow ==
    ASSUME NEW a \in Agents, Matched(a) # "none"
    PROVE  /\ Matched(a) \in {"both", "hostname", "name"}
           /\ By(a, Matched(a)) # {}
           /\ Matched(a) = "name" => By(a, "hostname") = {}
  BY DEF Matched

\* What a lookup finds is so.
LEMMA LookupFinds ==
    ASSUME RgTypeOK, NEW a \in Agents, LookupWorker(a)
    PROVE  /\ look'[a] \in LookType /\ proc'[a] \in ProcType /\ proc'[a].phase = "looked"
           /\ Found(a)'
<1>0. look \in [Agents -> LookType] /\ proc \in [Agents -> ProcType] /\ rows \in [Rids -> RowType]
  BY DEF RgTypeOK
<1>1. rows' = rows /\ proc' = [proc EXCEPT ![a].phase = "looked"] /\ Live' = Live
  BY DEF LookupWorker, Live
<1>2. proc'[a] \in ProcType /\ proc'[a].phase = "looked"
  BY <1>0, <1>1 DEF ProcType
<1>3. CASE Matched(a) = "none"
  <2>1. look'[a] = NoLook
    BY <1>0, <1>3 DEF LookupWorker
  <2>2. NoLook \in LookType /\ NoLook.row = 0
    BY DEF NoLook, LookType, MaybeNames
  <2>3. By(a, "hostname") = {} /\ By(a, "name") = {}
    BY <1>3 DEF Matched
  <2>4. \A r \in Live : rows[r].host # Conf[a].host /\ rows[r].name # NameOf(a)
    BY <2>3 DEF By
  <2> QED BY <1>1, <1>2, <2>1, <2>2, <2>4 DEF Found
<1>4. CASE Matched(a) # "none"
  <2> DEFINE by == Matched(a)
  <2>1. PICK r \in By(a, by) : look'[a] = [NoLook EXCEPT !.by = by, !.row = r, !.name = rows[r].name]
    <3>1. (CHOOSE r \in By(a, by) : TRUE) \in By(a, by)
      BY <1>4, MatchedRow
    <3> QED BY <1>0, <1>4, <3>1 DEF LookupWorker
  <2>2. by \in {"both", "hostname", "name"} /\ (by = "name" => By(a, "hostname") = {})
    BY <1>4, MatchedRow
  <2>3. r \in Live /\ r \in Rids /\ r # 0 /\ rows[r].name \in MaybeNames
    BY <1>0 DEF By, Live, Rids, RowType
  <2>4. look'[a] \in LookType /\ look'[a].row = r /\ look'[a].by = by
    BY <2>1, <2>2, <2>3 DEF NoLook, LookType, MaybeNames
  <2>5. \/ by \in {"both", "hostname"} /\ rows[r].host = Conf[a].host
        \/ /\ by = "name" /\ rows[r].name = NameOf(a)
           /\ \A q \in Live : rows[q].host # Conf[a].host
    BY <2>1, <2>2 DEF By
  <2> QED BY <1>1, <1>2, <2>3, <2>4, <2>5 DEF Found
<1> QED BY <1>3, <1>4

\* The check decides on a name and a hostname, and a calm registration on ones that no
\* other row has.
LEMMA CheckDecides ==
    ASSUME RgInv, NEW a \in Agents, CheckNames(a)
    PROVE  /\ look'[a] \in LookType /\ proc'[a] \in ProcType /\ proc'[a].phase = "checked"
           /\ look'[a].host \in Names /\ look'[a].name \in Names
           /\ look'[a].calm => Found(a)' /\ Unique(a)'
<1>0. /\ look \in [Agents -> LookType] /\ proc \in [Agents -> ProcType] /\ rows \in [Rids -> RowType]
      /\ look[a] \in LookType /\ proc[a] \in ProcType
      /\ \A r \in Live : rows[r].name \in Names /\ rows[r].host \in Names
      /\ RowsUnique /\ (look[a].calm => Found(a))
  BY DEF RgInv, RgTypeOK, LooksHold, CheckNames
<1> DEFINE r == look[a].row
           new == r = 0 \/ r \notin Live
           h == IF new THEN Conf[a].host ELSE NewHost(a)
           n == IF new THEN NameOf(a) ELSE NewName(a)
<1>1. /\ rows' = rows /\ Live' = Live /\ proc' = [proc EXCEPT ![a].phase = "checked"]
      /\ look' = [look EXCEPT ![a].host = h, ![a].name = n]
  BY DEF CheckNames, Live
<1>2. /\ Conf[a].host \in Names /\ NameOf(a) \in Names
      /\ Conf[a].name # Unnamed => Conf[a].name \in Names /\ NameOf(a) = Conf[a].name
  BY RegistrationAssumption DEF NameOf
<1>3. /\ h \in Names /\ n \in Names
      /\ look[a].calm => \A q \in Live \ {r} : rows[q].host # h /\ rows[q].name # n
  <2>1. CASE ~new
    <3>1. (h = Conf[a].host /\ Available(r, "host", h)) \/ h = rows[r].host
      BY <2>1 DEF NewHost
    <3>2. (n = Conf[a].name /\ n # Unnamed /\ Available(r, "name", n)) \/ n = rows[r].name
      BY <2>1 DEF NewName
    <3>3. \A q \in Live \ {r} : rows[q].host # h
      BY <1>0, <2>1, <3>1 DEF Available, RowsUnique
    <3>4. \A q \in Live \ {r} : rows[q].name # n
      BY <1>0, <2>1, <3>2 DEF Available, RowsUnique
    <3>5. h \in Names /\ n \in Names
      BY <1>0, <1>2, <2>1, <3>1, <3>2
    <3> QED BY <3>3, <3>4, <3>5
  <2>2. CASE new
    <3>1. h = Conf[a].host /\ n = NameOf(a)
      BY <2>2
    <3>2. look[a].calm => \A q \in Live : rows[q].host # h /\ rows[q].name # n
      BY <1>0, <2>2, <3>1 DEF Found
    <3> QED BY <1>2, <3>1, <3>2
  <2> QED BY <2>1, <2>2
<1> HIDE DEF h, n
<1>4. /\ look'[a] = [look[a] EXCEPT !.host = h, !.name = n]
      /\ proc'[a] = [proc[a] EXCEPT !.phase = "checked"]
  BY <1>0, <1>1
<1>5. /\ look'[a] \in LookType /\ look'[a].row = look[a].row /\ look'[a].by = look[a].by
      /\ look'[a].host = h /\ look'[a].name = n /\ look'[a].calm = look[a].calm
  BY <1>0, <1>3, <1>4 DEF LookType, MaybeNames
<1>6. proc'[a] \in ProcType /\ proc'[a].phase = "checked"
  BY <1>0, <1>4 DEF ProcType
<1>7. look[a].calm => Found(a)'
  BY <1>0, <1>1, <1>5 DEF Found
<1>8. look[a].calm => Unique(a)'
  BY <1>1, <1>3, <1>5 DEF Unique, Available
<1> QED BY <1>3, <1>5, <1>6, <1>7, <1>8

\* Every registration under way keeps what it relies on.
LEMMA LookStep ==
    ASSUME RgInv, [RgNext]_rgVars, NEW a \in Agents
    PROVE  /\ look'[a] \in LookType /\ proc'[a] \in ProcType
           /\ proc'[a].phase \in {"looked", "checked"} /\ look'[a].calm => Found(a)'
           /\ proc'[a].phase = "checked" => look'[a].host \in Names /\ look'[a].name \in Names
           /\ proc'[a].phase = "checked" /\ look'[a].calm => Unique(a)'
<1>0. /\ RgTypeOK /\ look[a] \in LookType /\ proc[a] \in ProcType
      /\ proc[a].phase \in {"looked", "checked"} /\ look[a].calm => Found(a)
      /\ proc[a].phase = "checked" => look[a].host \in Names /\ look[a].name \in Names
      /\ proc[a].phase = "checked" /\ look[a].calm => Unique(a)
  BY DEF RgInv, RgTypeOK, LooksHold, AloneNeverConflicts
<1>1. LookMoved(a)
  BY <1>0, LookFrame
<1>2. CASE rows' = rows /\ proc'[a] = proc[a] /\ look'[a] = look[a]
  <2>1. Live' = Live /\ (Found(a)' <=> Found(a)) /\ (Unique(a)' <=> Unique(a))
    BY <1>2 DEF Live, Found, Unique, Available
  <2> QED BY <1>0, <1>2, <2>1
<1>3. CASE /\ proc'[a].phase \in {"down", "register", "syncing"} /\ proc'[a] \in ProcType
           /\ look'[a] = NoLook \/ look'[a] = look[a]
  <2>1. NoLook \in LookType
    BY DEF NoLook, LookType, MaybeNames
  <2> QED BY <1>0, <1>3, <2>1
<1>4. CASE LookupWorker(a)
  BY <1>0, <1>4, LookupFinds
<1>5. CASE CheckNames(a)
  BY <1>0, <1>5, CheckDecides
<1>6. CASE proc'[a] = proc[a] /\ look'[a] = [look[a] EXCEPT !.calm = FALSE]
  <2>1. /\ look'[a] \in LookType /\ ~look'[a].calm
        /\ look'[a].host = look[a].host /\ look'[a].name = look[a].name
    BY <1>0, <1>6 DEF LookType
  <2> QED BY <1>0, <1>6, <2>1
<1> QED BY <1>1, <1>2, <1>3, <1>4, <1>5, <1>6 DEF LookMoved

(***************************************************************************)
(* The request.                                                            *)
(***************************************************************************)

\* Names keep an answer, and the request is pinned and connected where the policy allows.
LEMMA ReqStep ==
    ASSUME RgInv, [RgNext]_rgVars
    PROVE  /\ policy' \in Policies /\ dns' \in [Names -> Answers]
           /\ req' \in ReqType /\ (req'.phase # "idle" => req'.addr.host \in Names \cup IPs)
           /\ PinsAllowed' /\ ConnectsWhereAllowed'
<1> DEFINE Good == /\ policy' \in Policies /\ dns' \in [Names -> Answers]
                   /\ req' \in ReqType /\ (req'.phase # "idle" => req'.addr.host \in Names \cup IPs)
                   /\ PinsAllowed' /\ ConnectsWhereAllowed'
<1>0. /\ policy \in Policies /\ dns \in [Names -> Answers] /\ req \in ReqType
      /\ req.phase # "idle" => req.addr.host \in Names \cup IPs
      /\ PinsAllowed /\ ConnectsWhereAllowed
      /\ rows \in [Rids -> RowType] 
      /\ \A r \in Live : rows[r].host \in Names /\ rows[r].addr.host \in Names \cup IPs
  BY DEF RgInv, RgTypeOK
<1>1. CASE UNCHANGED <<policy, dns, req>>
  BY <1>0, <1>1 DEF PinsAllowed, ConnectsWhereAllowed
<1>2. CASE DnsChanges
  <2>1. UNCHANGED <<policy, req>> /\ dns' \in [Names -> Answers]
    BY <1>0, <1>2, RegistrationAssumption DEF DnsChanges
  <2> QED BY <1>0, <2>1 DEF PinsAllowed, ConnectsWhereAllowed
<1>3. ASSUME NEW r \in Rids, Route(r) PROVE Good
  <2> DEFINE x == IF rows[r].addr.kind # "none" THEN rows[r].addr
                  ELSE [kind |-> "http", host |-> rows[r].host]
  <2>1. req' = [req EXCEPT !.phase = "routed", !.addr = x] /\ UNCHANGED <<policy, dns>> /\ r \in Live
    BY <1>3 DEF Route
  <2>2. x \in AddrType /\ x.host \in Names \cup IPs
    <3>1. rows[r].addr \in AddrType /\ rows[r].addr.host \in Names \cup IPs /\ rows[r].host \in Names
      BY <1>0, <2>1 DEF RowType
    <3> QED BY <3>1 DEF AddrType, MaybeNames
  <2>3. req' \in ReqType /\ req'.phase = "routed" /\ req'.addr = x
    BY <1>0, <2>1, <2>2 DEF ReqType
  <2> QED BY <1>0, <2>1, <2>2, <2>3 DEF PinsAllowed, ConnectsWhereAllowed
<1>4. CASE Resolve
  <2> DEFINE pin == HttpsRule(policy, req.addr, resolve_and_validate(policy, req.addr.host, dns))
  <2>1. /\ req' = [req EXCEPT !.phase = IF pin.ok THEN "pinned" ELSE "refused", !.pin = pin]
        /\ UNCHANGED <<policy, dns>> /\ req.phase = "routed"
    BY <1>4 DEF Resolve
  <2>2. req.addr.host \in Names \cup IPs
    BY <1>0, <2>1
  <2>3. pin \in Pins /\ Trusted(policy, req.addr.host, pin)
    <3>1. req.addr \in AddrType
      BY <1>0 DEF ReqType
    <3>2. /\ resolve_and_validate(policy, req.addr.host, dns) \in Pins
          /\ Trusted(policy, req.addr.host, resolve_and_validate(policy, req.addr.host, dns))
      BY <1>0, <2>2, Validated
    <3> QED BY <1>0, <2>2, <3>1, <3>2, Ruled
  <2> HIDE DEF pin
  <2>4. /\ req' \in ReqType /\ req'.addr = req.addr /\ req'.pin = pin
        /\ req'.phase = IF pin.ok THEN "pinned" ELSE "refused"
    BY <1>0, <2>1, <2>3 DEF ReqType, Pins
  <2> QED BY <1>0, <2>1, <2>2, <2>3, <2>4 DEF PinsAllowed, ConnectsWhereAllowed, Trusted
<1>5. CASE Connect
  <2>1. /\ req.phase = "pinned" /\ UNCHANGED <<policy, dns>>
        /\ \E ip \in Reached(req.pin.to[1]) :
              req' = [req EXCEPT !.phase = "connected", !.pin = PinTo(ip)]
    BY <1>5 DEF Connect
  <2>2. PICK x \in Names \cup IPs : req.pin = PinTo(x) /\ req.pin.to[1] = x
    BY <1>0, <2>1, PinReads DEF PinsAllowed, ReqType
  <2>3. PICK ip \in Reached(x) : req' = [req EXCEPT !.phase = "connected", !.pin = PinTo(ip)]
    BY <2>1, <2>2
  <2>4. ip \in IPs /\ (x \in IPs => ip = x)
    <3>1. CASE x \in IPs
      BY <2>3, <3>1 DEF Reached
    <3>2. CASE x \notin IPs
      <4>1. x \in Names /\ dns[x] \in Seq(IPs) /\ ip \in ToSet(dns[x])
        BY <1>0, <2>3, <3>2, RegistrationAssumption DEF Reached
      <4> QED BY <3>2, <4>1 DEF ToSet
    <3> QED BY <3>1, <3>2
  <2>5. /\ req' \in ReqType /\ req'.addr = req.addr /\ req'.pin = PinTo(ip) /\ req'.phase = "connected"
    BY <1>0, <2>3, <2>4 DEF ReqType
  <2>6. req'.pin.to[1] = ip
    BY <2>5, PinReads
  <2>7. policy.env # "development" =>
         IpAccepted(policy, ip) \/ req.addr.host \in policy.names
    BY <1>0, <2>1, <2>2, <2>4 DEF PinsAllowed
  <2> QED BY <1>0, <2>1, <2>5, <2>6, <2>7 DEF PinsAllowed, ConnectsWhereAllowed
<1>6. ASSUME NEW a \in Agents, Register(a) \/ ResponseLost(a) \/ Sync(a) \/ ProcessDies(a)
      PROVE  UNCHANGED <<policy, dns, req>>
  BY <1>6 DEF Register, StartProcess, LookupWorker, CheckNames, Registered, ResponseLost, RegisterFails,
              Stored, Sync, ProcessDies
<1>7. CASE \/ \E r \in Rids : DeleteWorker(r)
           \/ CountWorkers \/ LoadWorkers \/ DropCluster \/ CreateCluster \/ UNCHANGED rgVars
  BY <1>1, <1>7 DEF DeleteWorker, CountWorkers, LoadWorkers, DropCluster, CreateCluster, rgVars
<1> QED BY <1>1, <1>2, <1>3, <1>4, <1>5, <1>6, <1>7 DEF RgNext

\* The bounds are counted in numbers.
LEMMA SpentStep ==
    ASSUME RgTypeOK, [RgNext]_rgVars
    PROVE  spent' \in [{"faults", "removed"} -> Nat]
<1>0. spent \in [{"faults", "removed"} -> Nat]
  BY DEF RgTypeOK
<1>1. ASSUME NEW w \in {"faults", "removed"}, NEW b, Spend(w, b)
      PROVE  spent' \in [{"faults", "removed"} -> Nat]
  <2>1. spent' = [spent EXCEPT ![w] = spent[w] + 1]
    BY <1>1 DEF Spend
  <2>2. spent[w] + 1 \in Nat
    BY <1>0
  <2> QED BY <1>0, <2>1, <2>2
<1>2. \/ UNCHANGED spent
      \/ \E w \in {"faults", "removed"} : \E b : Spend(w, b)
  BY DEF RgNext, rgVars, Register, StartProcess, LookupWorker, CheckNames, Registered, RegisterFails,
         ResponseLost, Sync, ProcessDies, DeleteWorker, Route, CountWorkers, LoadWorkers, DropCluster,
         CreateCluster, DnsChanges, Resolve, Connect
<1> QED BY <1>0, <1>1, <1>2

(***************************************************************************)
(* The invariant.                                                          *)
(***************************************************************************)

LEMMA RgStart ==
    ASSUME RgInit
    PROVE  RgInv
<1>1. rows \in [Rids -> RowType] /\ Live = {}
  BY Blank DEF RgInit, Live
<1>2. proc \in [Agents -> ProcType] /\ \A a \in Agents : proc[a].phase = "down"
  BY DEF RgInit, ProcType
<1>3. look \in [Agents -> LookType]
  <2>1. NoLook \in LookType
    BY DEF NoLook, LookType, MaybeNames
  <2> QED BY <2>1 DEF RgInit
<1>4. req \in ReqType /\ req.phase = "idle"
  <2>1. NoRow.addr \in AddrType
    BY DEF NoRow, AddrType, MaybeNames
  <2>2. NoReq \in ReqType /\ NoReq.phase = "idle"
    BY <2>1 DEF NoReq, ReqType
  <2> QED BY <2>2 DEF RgInit
<1>5. /\ cluster \in BOOLEAN /\ drop \in {"no", "counted", "loaded"}
      /\ policy \in Policies /\ dns \in [Names -> Answers]
      /\ spent \in [{"faults", "removed"} -> Nat]
  BY RegistrationAssumption DEF RgInit
<1>6. RgTypeOK
  BY <1>1, <1>2, <1>3, <1>4, <1>5 DEF RgTypeOK
<1>7. RowsUnique /\ LooksHold /\ AloneNeverConflicts
  BY <1>1, <1>2 DEF RowsUnique, LooksHold, AloneNeverConflicts
<1>8. PinsAllowed /\ ConnectsWhereAllowed
  BY <1>4 DEF PinsAllowed, ConnectsWhereAllowed
<1> QED BY <1>6, <1>7, <1>8 DEF RgInv

LEMMA RgStep ==
    ASSUME RgInv, [RgNext]_rgVars
    PROVE  RgInv'
<1>0. RgTypeOK
  BY DEF RgInv
<1>1. /\ cluster' \in BOOLEAN /\ drop' \in {"no", "counted", "loaded"} /\ rows' \in [Rids -> RowType]
      /\ \A r \in Live' : /\ cluster' /\ rows'[r].name \in Names /\ rows'[r].host \in Names
                           /\ rows'[r].addr.host \in Names \cup IPs
      /\ RowsUnique'
  BY RowsStep DEF RowsGood
<1>2. /\ \A a \in Agents : look'[a] \in LookType /\ proc'[a] \in ProcType
      /\ LooksHold' /\ AloneNeverConflicts'
  BY LookStep DEF LooksHold, AloneNeverConflicts
<1>3. proc' \in [Agents -> ProcType] /\ look' \in [Agents -> LookType]
  BY <1>0, <1>2, TablesFrame DEF Tables
<1>4. spent' \in [{"faults", "removed"} -> Nat]
  BY <1>0, SpentStep
<1> QED BY <1>1, <1>2, <1>3, <1>4, ReqStep DEF RgInv, RgTypeOK

(***************************************************************************)
(* Tokens.                                                                 *)
(***************************************************************************)

\* A syncing worker goes on where it was, unless its process dies.
LEMMA SyncingStays ==
    ASSUME RgTypeOK, [RgNext]_rgVars, NEW b \in Agents, proc[b].phase = "syncing", ~ProcessDies(b)
    PROVE  proc'[b] = proc[b]
<1>1. proc[b].phase # "register" /\ proc[b].phase # "looked"
  OBVIOUS
<1> QED BY <1>1, LookFrame DEF LookMoved, LookupWorker, CheckNames

\* What a step must do to the row of a worker to take its token.
LEMMA TokenTaken ==
    ASSUME RgTypeOK, [RgNext]_rgVars, NEW b \in Agents, Holds(b), ~Holds(b)', ~ProcessDies(b)
    PROVE  \/ rows'[proc[b].row].life # "live"
           \/ rows'[proc[b].row].token # {b}
<1>1. proc'[b] = proc[b] /\ proc[b].row \in Rids
  BY SyncingStays DEF Holds, Live
<1> QED BY <1>1 DEF Holds, Live

\* Only another worker's commit and a removal take a token from a running worker.
LEMMA TokenLost ==
    ASSUME RgTypeOK, [RgNext]_rgVars, NEW b \in Agents, Holds(b), ~Holds(b)'
    PROVE  \/ \E a \in Agents \ {b} : Stored(a)
           \/ \E r \in Rids : DeleteWorker(r)
           \/ DropCluster \/ ProcessDies(b)
<1>0. rows \in [Rids -> RowType] /\ proc[b].row \in Rids
  BY DEF RgTypeOK, Holds, Live
<1>1. SUFFICES ASSUME ~ProcessDies(b), ~DropCluster, ~(\E r \in Rids : DeleteWorker(r))
               PROVE  \E a \in Agents \ {b} : Stored(a)
  OBVIOUS
<1>2. rows'[proc[b].row].life # "live" \/ rows'[proc[b].row].token # {b}
  BY <1>1, TokenTaken
<1>3. rows[proc[b].row].life = "live" /\ rows[proc[b].row].token = {b}
  BY DEF Holds, Live
<1>4. ASSUME NEW a \in Agents, Sync(a) PROVE FALSE
  <2>1. rows' = [rows EXCEPT ![proc[a].row].host = Conf[a].host] /\ proc[a].row \in Rids
    BY <1>4 DEF Sync, Holds, Live
  <2>2. \A r \in Rids : rows'[r].life = rows[r].life /\ rows'[r].token = rows[r].token
    BY <1>0, <2>1 DEF RowType
  <2> QED BY <1>0, <1>2, <1>3, <2>2
<1>5. \E a \in Agents : Stored(a)
  BY <1>1, <1>2, <1>3, <1>4, RowsFrame
<1>6. ~Stored(b)
  BY DEF Stored, Holds
<1> QED BY <1>5, <1>6

\* An undisturbed commit of a takes the token of b only with the row that is a's by its
\* hostname, or by its name where no row has the hostname.
LEMMA TakenByRight ==
    ASSUME RgInv, [RgNext]_rgVars, NEW a \in Agents, NEW b \in Agents,
           a # b, Holds(b), ~Holds(b)', Stored(a), look[a].calm
    PROVE  \/ rows[proc[b].row].host = Conf[a].host
           \/ /\ rows[proc[b].row].name = NameOf(a)
              /\ \A r \in Live : rows[r].host # Conf[a].host
<1>0. /\ RgTypeOK /\ rows \in [Rids -> RowType] /\ look \in [Agents -> LookType] /\ Found(a)
  BY DEF RgInv, RgTypeOK, LooksHold, Stored
<1>1. ~ProcessDies(b)
  <2>1. look'[b] = [look[b] EXCEPT !.calm = FALSE] /\ look[b] \in LookType
    BY <1>0 DEF Stored
  <2>2. ~look'[b].calm
    BY <2>1 DEF LookType
  <2>3. ProcessDies(b) => look'[b] = NoLook
    BY <1>0 DEF ProcessDies
  <2> QED BY <2>2, <2>3 DEF NoLook
<1>2. rows'[proc[b].row].life # "live" \/ rows'[proc[b].row].token # {b}
  BY <1>0, <1>1, TokenTaken
<1>3. proc[b].row \in Live /\ proc[b].row \in Rids /\ rows[proc[b].row].token = {b}
  BY DEF Holds, Live
<1>4. proc[b].row = Target(a)
  <2>1. \A r \in Rids \ {Target(a)} : rows'[r] = rows[r]
    BY <1>0, TargetRow DEF Stored
  <2> QED BY <1>2, <1>3, <2>1 DEF Live
<1>5. look[a].row # 0 /\ look[a].row = proc[b].row
  BY <1>0, <1>3, <1>4, TargetRow DEF Live
<1> QED BY <1>0, <1>5 DEF Found

(***************************************************************************)
(* The theorems.                                                           *)
(***************************************************************************)

\* Whatever registrations, Syncs, deletions, deaths, lost answers and changes of DNS
\* interleave, the inductive invariant holds.
THEOREM RegistrationInvariant == RgSpec => []RgInv
<1>1. RgInit => RgInv
  BY RgStart
<1>2. RgInv /\ [RgNext]_rgVars => RgInv'
  BY RgStep
<1> QED BY <1>1, <1>2, PTL DEF RgSpec

\* Rows, processes and requests keep their types, and no worker row outlives its cluster,
\* although register_worker commits after the cluster was looked up.
THEOREM RegistrationTyping == RgSpec => []RgTypeOK
<1>1. RgInv => RgTypeOK
  BY DEF RgInv
<1> QED BY <1>1, RegistrationInvariant, PTL

\* register_worker decides on names that the indexes accept, unless another transaction
\* wrote a row between its lookup and its commit.
THEOREM AloneNeverRefused == RgSpec => []AloneNeverConflicts
<1>1. RgInv => AloneNeverConflicts
  BY DEF RgInv
<1> QED BY <1>1, RegistrationInvariant, PTL

\* Outside development the gateway connects only where resolve_and_validate and the rule for https
\* allow, for every policy and however DNS changes between validation and connection.
THEOREM GuardHolds == RgSpec => []ConnectsWhereAllowed
<1>1. RgInv => ConnectsWhereAllowed
  BY DEF RgInv
<1> QED BY <1>1, RegistrationInvariant, PTL

\* An undisturbed registration takes over the row of its own machine, or of its own name.
THEOREM TakesOverByRight == RgSpec => TakesOverOwnRow
<1>1. RgInv /\ [RgNext]_rgVars =>
        [\A a, b \in Agents :
           (a # b /\ Holds(b) /\ ~Holds(b)' /\ Stored(a) /\ look[a].calm) =>
             LET row == rows[proc[b].row]
             IN  \/ row.host = Conf[a].host
                 \/ row.name = NameOf(a) /\ \A r \in Live : rows[r].host # Conf[a].host]_rgVars
  BY TakenByRight
<1> QED BY <1>1, RegistrationInvariant, PTL DEF RgSpec, TakesOverOwnRow

\* A running worker loses its token only to another worker's registration, to a removal or
\* with its process: never to a check, a Sync or a failed registration.
THEOREM TokenNeverLostSilently == RgSpec => TokenLostKnowingly
<1>1. RgInv /\ [RgNext]_rgVars =>
        [\A b \in Agents : (Holds(b) /\ ~Holds(b)') =>
           \/ \E a \in Agents \ {b} : Stored(a)
           \/ \E r \in Rids : DeleteWorker(r)
           \/ DropCluster \/ ProcessDies(b)]_rgVars
  BY TokenLost DEF RgInv
<1> QED BY <1>1, RegistrationInvariant, PTL DEF RgSpec, TokenLostKnowingly
=============================================================================
