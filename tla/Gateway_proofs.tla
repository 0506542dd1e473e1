--------------------------- MODULE Gateway_proofs --------------------------
(***************************************************************************)
(* Proofs about Gateway, for any number of replicas, requests and prompts. *)
(***************************************************************************)
EXTENDS Gateway, FiniteSetTheorems, TLAPS

(***************************************************************************)
(* Typing.                                                                 *)
(***************************************************************************)

\* What the EXCEPTs of the actions build from a well-typed request: only the named
\* field changes, and the result is well typed.
LEMMA RequestUpdates ==
    ASSUME NEW r \in ReqType, NEW ph \in Phases
    PROVE  /\ [r EXCEPT !.phase = ph] \in ReqType
           /\ [r EXCEPT !.phase = ph, !.bills = r.bills + 1] \in ReqType
           /\ \A u \in Fates :
                /\ [r EXCEPT !.phase = ph, !.upstream = u] \in ReqType
                /\ [r EXCEPT !.phase = ph, !.upstream = u, !.bills = r.bills + 1] \in ReqType
           /\ \A p \in Prompts \cup {Plain}, rows \in RowSets :
                [r EXCEPT !.phase = ph, !.prompt = p, !.rows = rows] \in ReqType
           /\ \A i \in Replicas : [r EXCEPT !.phase = ph, !.inst = i] \in ReqType
<1>1. [r EXCEPT !.phase = ph] \in ReqType
  BY DEF ReqType
<1>2. [r EXCEPT !.phase = ph, !.bills = r.bills + 1] \in ReqType
  <2>1. r.bills + 1 \in Nat
    BY DEF ReqType
  <2> QED BY <2>1 DEF ReqType
<1>3. ASSUME NEW u \in Fates
      PROVE  /\ [r EXCEPT !.phase = ph, !.upstream = u] \in ReqType
             /\ [r EXCEPT !.phase = ph, !.upstream = u, !.bills = r.bills + 1] \in ReqType
  <2>1. r.bills + 1 \in Nat
    BY DEF ReqType
  <2> QED BY <2>1 DEF ReqType
<1>4. ASSUME NEW p \in Prompts \cup {Plain}, NEW rows \in RowSets
      PROVE  [r EXCEPT !.phase = ph, !.prompt = p, !.rows = rows] \in ReqType
  BY DEF ReqType
<1>5. ASSUME NEW i \in Replicas
      PROVE  [r EXCEPT !.phase = ph, !.inst = i] \in ReqType
  BY DEF ReqType
<1> QED BY <1>1, <1>2, <1>3, <1>4, <1>5

\* Every step keeps the types.
LEMMA GatewayTypeStep == GWTypeOK /\ [GWNext]_gwVars => GWTypeOK'
<1> SUFFICES ASSUME GWTypeOK, [GWNext]_gwVars PROVE GWTypeOK'
  OBVIOUS
<1> USE DEF GWTypeOK
<1>1. ASSUME NEW c \in Requests, NEW p \in Prompts \cup {Plain}, ReadRows(c, p)
      PROVE  GWTypeOK'
  <2>1. req'[c] \in ReqType /\ req' = [req EXCEPT ![c] = req'[c]]
    BY <1>1, RequestUpdates DEF ReadRows, Phases
  <2> QED BY <1>1, <2>1 DEF ReadRows
<1>2. ASSUME NEW c \in Requests, NEW i \in Replicas, Reserve(c, i) PROVE GWTypeOK'
  <2>1. req'[c] \in ReqType /\ req' = [req EXCEPT ![c] = req'[c]]
    BY <1>2, RequestUpdates DEF Reserve, Phases
  <2> QED BY <1>2, <2>1 DEF Reserve
<1>3. ASSUME NEW c \in Requests, NoInstance(c) PROVE GWTypeOK'
  <2>1. req' \in [Requests -> ReqType]
    BY <1>3, RequestUpdates DEF NoInstance, Moved, Phases
  <2> QED BY <1>3, <2>1 DEF NoInstance
<1>4. ASSUME NEW c \in Requests, Resolve(c) \/ QuotaOk(c) \/ HandOff(c) \/ HangUp(c)
      PROVE  GWTypeOK'
  <2>1. req' \in [Requests -> ReqType]
    <3>1. CASE Resolve(c) BY <3>1, RequestUpdates DEF Resolve, Moved, Phases
    <3>2. CASE QuotaOk(c) BY <3>2, RequestUpdates DEF QuotaOk, Phases, Fates
    <3>3. CASE HandOff(c) BY <3>3, RequestUpdates DEF HandOff, Phases, Fates
    <3>4. CASE HangUp(c) BY <3>4, RequestUpdates DEF HangUp, Moved, Phases
    <3> QED BY <1>4, <3>1, <3>2, <3>3, <3>4
  <2> QED BY <1>4, <2>1 DEF Resolve, QuotaOk, HandOff, HangUp
<1>5. ASSUME NEW c \in Requests,
             ResolveFails(c) \/ LeaveUnbilled(c) \/ SendFails(c) \/ BackgroundRelease(c)
      PROVE  GWTypeOK'
  <2>1. req' \in [Requests -> ReqType]
    <3>1. CASE ResolveFails(c) BY <3>1, RequestUpdates DEF ResolveFails, Moved, Phases
    <3>2. CASE LeaveUnbilled(c) BY <3>2, RequestUpdates DEF LeaveUnbilled, Moved, Phases
    <3>3. CASE SendFails(c) BY <3>3, RequestUpdates DEF SendFails, Phases, Fates
    <3>4. CASE BackgroundRelease(c)
      BY <3>4, RequestUpdates DEF BackgroundRelease, Moved, Phases
    <3> QED BY <1>5, <3>1, <3>2, <3>3, <3>4
  <2>2. active' \in [Replicas -> Nat]
    BY <1>5 DEF ResolveFails, LeaveUnbilled, SendFails, BackgroundRelease, Release
  <2> QED BY <1>5, <2>1, <2>2 DEF ResolveFails, LeaveUnbilled, SendFails, BackgroundRelease
<1>6. ASSUME NEW c \in Requests, FinishRelay(c) PROVE GWTypeOK'
  <2>1. req' \in [Requests -> ReqType]
    BY <1>6, RequestUpdates DEF FinishRelay, Billed, Phases
  <2>2. req[c].prompt \in Prompts \cup {Plain}
    BY DEF ReqType
  <2>3. warm' \in [Replicas -> SUBSET Prompts]
    BY <1>6, <2>2 DEF FinishRelay
  <2> QED BY <1>6, <2>1, <2>3 DEF FinishRelay
<1>7. ASSUME NEW i \in Replicas, FleetChanges(i) PROVE GWTypeOK'
  BY <1>7 DEF FleetChanges, RowSets
<1>8. ASSUME NEW i \in Replicas, NEW p \in Prompts, Expire(i, p) PROVE GWTypeOK'
  BY <1>8 DEF Expire
<1>9. CASE UNCHANGED gwVars
  BY <1>9 DEF gwVars
<1> QED BY <1>1, <1>2, <1>3, <1>4, <1>5, <1>6, <1>7, <1>8, <1>9 DEF GWNext, RequestStep

\* The gateway's state always has its type.
THEOREM GatewayTyping == GWSpec => []GWTypeOK
<1>1. GWInit => GWTypeOK
  BY DEF GWInit, GWTypeOK, ReqType, Phases, Fates, RowSets, NoRows
<1> QED BY <1>1, GatewayTypeStep, PTL DEF GWSpec

(***************************************************************************)
(* Slots.  A step either leaves the holders alone, adds one request to the *)
(* holders of one replica, or takes one away.                              *)
(***************************************************************************)

\* Only request c changes, and what becomes of the others' slots: nothing.
OnlyChanges(c) == \A d \in Requests \ {c} : req'[d] = req[d]

\* The holders of a replica are finitely many.
LEMMA HoldersFinite == \A i \in Replicas : IsFiniteSet(Holders(i))
  BY GatewayAssumption, FS_Subset DEF Holders

\* Reserving: the count and the set of holders of i both grow by one.
LEMMA SlotTaken ==
    ASSUME GWTypeOK, SlotsExact, NEW c \in Requests, NEW i \in Replicas,
           OnlyChanges(c), ~Holds(c), Holds(c)', req'[c].inst = i,
           active' = [active EXCEPT ![i] = active[i] + 1]
    PROVE  SlotsExact'
<1> SUFFICES ASSUME NEW j \in Replicas PROVE active'[j] = Cardinality(Holders(j)')
  BY DEF SlotsExact
<1>1. CASE j = i
  <2>1. Holders(j)' = Holders(j) \cup {c} /\ c \notin Holders(j)
    BY <1>1 DEF Holders, Holds, OnlyChanges
  <2>2. Cardinality(Holders(j)') = Cardinality(Holders(j)) + 1
    BY <2>1, HoldersFinite, FS_AddElement
  <2> QED BY <1>1, <2>2 DEF SlotsExact, GWTypeOK
<1>2. CASE j # i
  <2>1. Holders(j)' = Holders(j)
    BY <1>2 DEF Holders, Holds, OnlyChanges
  <2> QED BY <1>2, <2>1 DEF SlotsExact, GWTypeOK
<1> QED BY <1>1, <1>2

\* Releasing a slot that is held: the count is positive, so it drops by one and is
\* not clamped, and the request leaves the holders.
LEMMA SlotGiven ==
    ASSUME GWTypeOK, SlotsExact, NEW c \in Requests, OnlyChanges(c),
           req[c].inst \in Replicas, Holds(c), ~Holds(c)', Release(req[c].inst)
    PROVE  SlotsExact'
<1> DEFINE i == req[c].inst
<1> SUFFICES ASSUME NEW j \in Replicas PROVE active'[j] = Cardinality(Holders(j)')
  BY DEF SlotsExact
<1>1. CASE j = i
  <2>1. Holders(j)' = Holders(j) \ {c} /\ c \in Holders(j)
    BY <1>1 DEF Holders, Holds, OnlyChanges
  <2>2. Cardinality(Holders(j)') = Cardinality(Holders(j)) - 1
    BY <2>1, HoldersFinite, FS_RemoveElement
  <2>3. Cardinality(Holders(j)) \in Nat /\ Cardinality(Holders(j)) # 0
    BY <2>1, HoldersFinite, FS_CardinalityType, FS_EmptySet
  <2>4. active[j] = Cardinality(Holders(j))
    BY DEF SlotsExact
  <2>5. active'[j] = IF active[j] > 1 THEN active[j] - 1 ELSE 0
    BY <1>1 DEF Release, GWTypeOK
  <2> QED BY <2>2, <2>3, <2>4, <2>5
<1>2. CASE j # i
  <2>1. Holders(j)' = Holders(j)
    BY <1>2 DEF Holders, Holds, OnlyChanges
  <2> QED BY <1>2, <2>1 DEF SlotsExact, GWTypeOK, Release
<1> QED BY <1>1, <1>2

\* A step that changes neither the counts nor who holds what.
LEMMA SlotKept ==
    ASSUME GWTypeOK, SlotsExact, NEW c \in Requests, OnlyChanges(c), active' = active,
           Holds(c)' <=> Holds(c), Holds(c) => req'[c].inst = req[c].inst
    PROVE  SlotsExact'
<1>1. \A i \in Replicas : Holders(i)' = Holders(i)
  BY DEF Holders, Holds, OnlyChanges
<1> QED BY <1>1 DEF SlotsExact

\* Every step keeps the slots exact.
LEMMA SlotsStep == GWTypeOK /\ PhaseFacts /\ SlotsExact /\ [GWNext]_gwVars => SlotsExact'
<1> SUFFICES ASSUME GWTypeOK, PhaseFacts, SlotsExact, [GWNext]_gwVars PROVE SlotsExact'
  OBVIOUS
<1>t. req \in [Requests -> ReqType] /\ \A c \in Requests : req[c] \in ReqType
  BY DEF GWTypeOK
<1>h. \A c \in Requests : Holds(c) => req[c].inst \in Replicas
  BY DEF PhaseFacts, FactsOf, Holds
<1>1. ASSUME NEW c \in Requests, NEW p \in Prompts \cup {Plain}, ReadRows(c, p)
      PROVE  SlotsExact'
  <2>1. OnlyChanges(c) /\ ~Holds(c) /\ ~Holds(c)' /\ active' = active
    BY <1>1, <1>t DEF ReadRows, OnlyChanges, Holds, ReqType
  <2> QED BY <2>1, SlotKept
<1>2. ASSUME NEW c \in Requests, NEW i \in Replicas, Reserve(c, i) PROVE SlotsExact'
  <2>1. OnlyChanges(c) /\ ~Holds(c) /\ Holds(c)' /\ req'[c].inst = i
    BY <1>2, <1>t DEF Reserve, OnlyChanges, Holds, ReqType
  <2>2. active' = [active EXCEPT ![i] = active[i] + 1]
    BY <1>2 DEF Reserve
  <2> QED BY <2>1, <2>2, SlotTaken
<1>3. ASSUME NEW c \in Requests, NoInstance(c) PROVE SlotsExact'
  <2>1. OnlyChanges(c) /\ ~Holds(c) /\ ~Holds(c)' /\ active' = active
    BY <1>3, <1>t DEF NoInstance, Moved, OnlyChanges, Holds, ReqType
  <2> QED BY <2>1, SlotKept
<1>4. ASSUME NEW c \in Requests, Resolve(c) \/ QuotaOk(c) \/ HandOff(c) \/ HangUp(c)
      PROVE  SlotsExact'
  <2>1. /\ OnlyChanges(c) /\ Holds(c) /\ Holds(c)' /\ active' = active
        /\ req'[c].inst = req[c].inst
    <3>1. CASE Resolve(c) \/ QuotaOk(c)
      BY <3>1, <1>t DEF Resolve, QuotaOk, Moved, OnlyChanges, Holds, ReqType
    <3>2. CASE HandOff(c) \/ HangUp(c)
      BY <3>2, <1>t DEF HandOff, HangUp, Moved, OnlyChanges, Holds, ReqType
    <3> QED BY <1>4, <3>1, <3>2
  <2> QED BY <2>1, SlotKept
<1>5. ASSUME NEW c \in Requests, ResolveFails(c) \/ LeaveUnbilled(c) \/ SendFails(c)
      PROVE  SlotsExact'
  <2>1. Release(req[c].inst)
    BY <1>5 DEF ResolveFails, LeaveUnbilled, SendFails
  <2>2. OnlyChanges(c) /\ Holds(c) /\ ~Holds(c)'
    <3>1. CASE ResolveFails(c)
      BY <3>1, <1>t DEF ResolveFails, Moved, OnlyChanges, Holds, ReqType
    <3>2. CASE LeaveUnbilled(c)
      BY <3>2, <1>t DEF LeaveUnbilled, Moved, OnlyChanges, Holds, ReqType
    <3>3. CASE SendFails(c)
      BY <3>3, <1>t DEF SendFails, OnlyChanges, Holds, ReqType
    <3> QED BY <1>5, <3>1, <3>2, <3>3
  <2> QED BY <2>1, <2>2, <1>h, SlotGiven
<1>6. ASSUME NEW c \in Requests, BackgroundRelease(c) PROVE SlotsExact'
  <2>1. OnlyChanges(c) /\ Holds(c) /\ ~Holds(c)' /\ Release(req[c].inst)
    BY <1>6, <1>t DEF BackgroundRelease, Moved, OnlyChanges, Holds, ReqType
  <2> QED BY <2>1, <1>h, SlotGiven
<1>7. ASSUME NEW c \in Requests, FinishRelay(c) PROVE SlotsExact'
  <2>1. OnlyChanges(c) /\ active' = active /\ req'[c].inst = req[c].inst
    BY <1>7, <1>t DEF FinishRelay, Billed, OnlyChanges, ReqType
  <2>2. Holds(c)' <=> Holds(c)
    <3>1. CASE req[c].phase = "released"
      BY <1>7, <1>t, <3>1 DEF FinishRelay, Billed, Holds, ReqType
    <3>2. CASE req[c].phase # "released"
      BY <1>7, <1>t, <3>2 DEF FinishRelay, Billed, Holds, ReqType
    <3> QED BY <3>1, <3>2
  <2> QED BY <2>1, <2>2, SlotKept
<1>8. CASE UNCHANGED <<active, req>>
  BY <1>8 DEF SlotsExact, Holders, Holds
<1> QED
  BY <1>1, <1>2, <1>3, <1>4, <1>5, <1>6, <1>7, <1>8
  DEF GWNext, RequestStep, FleetChanges, Expire, gwVars

(***************************************************************************)
(* Phases and accounting.                                                  *)
(***************************************************************************)

\* The facts of the phases say that requests are accounted once.
LEMMA FactsSuffice == PhaseFacts => AccountedOnce
  BY DEF PhaseFacts, FactsOf, AccountedOnce

\* Every step of a request keeps its facts.
LEMMA FactsStep ==
    ASSUME NEW c \in Requests, GWTypeOK, FactsOf(req[c]), RequestStep(c)
    PROVE  OnlyChanges(c) /\ FactsOf(req'[c])
<1>t. req \in [Requests -> ReqType] /\ req[c] \in ReqType
  BY DEF GWTypeOK
<1> USE DEF FactsOf, OnlyChanges, ReqType
<1>1. CASE \E p \in Prompts \cup {Plain} : ReadRows(c, p)
  BY <1>1, <1>t DEF ReadRows
<1>2. CASE \E i \in Replicas : Reserve(c, i)
  BY <1>2, <1>t DEF Reserve
<1>3. CASE NoInstance(c)
  BY <1>3, <1>t DEF NoInstance, Moved
<1>4. CASE Resolve(c)
  BY <1>4, <1>t DEF Resolve, Moved
<1>5. CASE ResolveFails(c)
  BY <1>5, <1>t DEF ResolveFails, Moved
<1>6. CASE QuotaOk(c)
  BY <1>6, <1>t DEF QuotaOk
<1>7. CASE LeaveUnbilled(c)
  BY <1>7, <1>t DEF LeaveUnbilled, Moved
<1>8. CASE SendFails(c)
  BY <1>8, <1>t DEF SendFails
<1>9. CASE HandOff(c)
  BY <1>9, <1>t DEF HandOff
<1>10. CASE HangUp(c)
  BY <1>10, <1>t DEF HangUp, Moved
<1>11. CASE FinishRelay(c)
  <2>1. CASE req[c].phase = "released"
    BY <1>11, <1>t, <2>1 DEF FinishRelay, Billed
  <2>2. CASE req[c].phase # "released"
    BY <1>11, <1>t, <2>2 DEF FinishRelay, Billed
  <2> QED BY <2>1, <2>2
<1>12. CASE BackgroundRelease(c)
  <2>1. CASE req[c].phase = "hungup"
    BY <1>12, <1>t, <2>1 DEF BackgroundRelease, Moved
  <2>2. CASE req[c].phase # "hungup"
    BY <1>12, <1>t, <2>2 DEF BackgroundRelease, Moved
  <2> QED BY <2>1, <2>2
<1> QED
  BY <1>1, <1>2, <1>3, <1>4, <1>5, <1>6, <1>7, <1>8, <1>9, <1>10, <1>11, <1>12
  DEF RequestStep

\* The inductive invariant of the gateway.
THEOREM GatewayInvariant == GWSpec => []GWInv
<1>1. GWInit => GWInv
  <2> SUFFICES ASSUME GWInit PROVE GWInv
    OBVIOUS
  <2>1. GWTypeOK
    BY DEF GWInit, GWTypeOK, ReqType, Phases, Fates, RowSets, NoRows
  <2>2. PhaseFacts
    BY DEF GWInit, PhaseFacts, FactsOf
  <2>3. \A i \in Replicas : Holders(i) = {}
    BY DEF GWInit, Holders, Holds
  <2>4. SlotsExact
    BY <2>3, FS_EmptySet DEF GWInit, SlotsExact
  <2> QED BY <2>1, <2>2, <2>4 DEF GWInv
<1>2. GWInv /\ [GWNext]_gwVars => GWInv'
  <2> SUFFICES ASSUME GWInv, [GWNext]_gwVars PROVE GWInv'
    OBVIOUS
  <2>1. GWTypeOK' /\ SlotsExact'
    BY GatewayTypeStep, SlotsStep DEF GWInv
  <2>2. PhaseFacts'
    <3>1. ASSUME NEW c \in Requests, RequestStep(c) PROVE PhaseFacts'
      BY <3>1, FactsStep DEF GWInv, OnlyChanges, PhaseFacts
    <3>2. CASE UNCHANGED req
      BY <3>2 DEF GWInv, PhaseFacts
    <3> QED BY <3>1, <3>2 DEF GWNext, FleetChanges, Expire, gwVars
  <2> QED BY <2>1, <2>2 DEF GWInv
<1> QED BY <1>1, <1>2, PTL DEF GWSpec

\* Each replica's active count is the number of requests that own a slot of it.
THEOREM SlotsAlwaysExact == GWSpec => []SlotsExact
<1>1. GWInv => SlotsExact
  BY DEF GWInv
<1> QED BY <1>1, GatewayInvariant, PTL

\* No request is accounted twice, none that was answered or could not be delivered is
\* forgotten, and none that was refused or cancelled before that is accounted.
THEOREM AlwaysAccountedOnce == GWSpec => []AccountedOnce
<1>1. GWInv => AccountedOnce
  BY FactsSuffice DEF GWInv
<1> QED BY <1>1, GatewayInvariant, PTL

(***************************************************************************)
(* Spreading.                                                              *)
(***************************************************************************)

\* The hypothesis of SpreadEvenly.
Filling ==
    \A c \in Requests : req[c].inst # None =>
        /\ Holds(c)
        /\ req[c].prompt = Plain
        /\ \A i \in Replicas : req[c].rows[i] = "live"

\* Once it has a replica a request keeps it, with what it knew when it chose, and a
\* slot given back is not taken again; without a reservation the counts only fall
\* for a request that is no longer a holder.
LEMMA Settled ==
    ASSUME GWInv, NEW c \in Requests, RequestStep(c), ~\E i \in Replicas : Reserve(c, i)
    PROVE  /\ req[c].inst # None =>
                /\ req'[c].inst = req[c].inst
                /\ req'[c].prompt = req[c].prompt
                /\ req'[c].rows = req[c].rows
                /\ Holds(c)' => Holds(c)
           /\ active' = active \/ (req'[c].inst # None /\ ~Holds(c)')
<1>t. req \in [Requests -> ReqType] /\ req[c] \in ReqType /\ FactsOf(req[c])
  BY DEF GWInv, GWTypeOK, PhaseFacts
<1>n. \A i \in Replicas : i # None
  BY GatewayAssumption
<1> USE DEF Holds, ReqType
<1>1. CASE \E p \in Prompts \cup {Plain} : ReadRows(c, p)
  BY <1>1, <1>t DEF ReadRows, FactsOf
<1>3. CASE NoInstance(c)
  BY <1>3, <1>t DEF NoInstance, Moved, FactsOf
<1>4. CASE Resolve(c) \/ QuotaOk(c) \/ HangUp(c)
  BY <1>4, <1>t DEF Resolve, QuotaOk, HangUp, Moved
<1>5. CASE HandOff(c)
  BY <1>5, <1>t DEF HandOff
<1>6. CASE ResolveFails(c)
  BY <1>6, <1>t, <1>n DEF ResolveFails, Moved, FactsOf
<1>7. CASE LeaveUnbilled(c)
  BY <1>7, <1>t, <1>n DEF LeaveUnbilled, Moved, FactsOf
<1>8. CASE SendFails(c)
  BY <1>8, <1>t, <1>n DEF SendFails, FactsOf
<1>9. CASE FinishRelay(c)
  <2>1. CASE req[c].phase = "released"
    BY <1>9, <1>t, <2>1 DEF FinishRelay, Billed
  <2>2. CASE req[c].phase # "released"
    BY <1>9, <1>t, <2>2 DEF FinishRelay, Billed
  <2> QED BY <2>1, <2>2
<1>10. CASE BackgroundRelease(c)
  <2>1. CASE req[c].phase = "hungup"
    BY <1>10, <1>t, <1>n, <2>1 DEF BackgroundRelease, Moved, FactsOf
  <2>2. CASE req[c].phase # "hungup"
    BY <1>10, <1>t, <1>n, <2>2 DEF BackgroundRelease, Moved, FactsOf
  <2> QED BY <2>1, <2>2
<1> QED
  BY <1>1, <1>3, <1>4, <1>5, <1>6, <1>7, <1>8, <1>9, <1>10 DEF RequestStep

\* A plain request that saw the whole fleet chooses a replica with the fewest
\* active requests of all.
LEMMA ChoosesLeastLoaded ==
    ASSUME GWTypeOK, NEW c \in Requests, NEW i \in Replicas, Chosen(c, i),
           req[c].prompt = Plain, \A j \in Replicas : req[c].rows[j] = "live"
    PROVE  \A j \in Replicas : active[i] <= active[j]
<1>1. Hot(c) = {}
  <2>1. \A j \in Replicas : Plain \notin warm[j]
    BY GatewayAssumption DEF GWTypeOK
  <2> QED BY <2>1 DEF Hot, Candidates
<1>2. Pool(c) = Replicas
  BY <1>1 DEF Pool, Candidates
<1> QED BY <1>2 DEF Chosen, Precedes, GWTypeOK

\* While plain requests that saw the whole fleet pile up, no replica gets two more
\* of them than another.
THEOREM AlwaysSpreadEvenly == GWSpec => []SpreadEvenly
<1>1. GWInit => SpreadEvenly
  BY DEF GWInit, SpreadEvenly
<1>2. GWInv /\ SpreadEvenly /\ [GWNext]_gwVars => SpreadEvenly'
  <2> SUFFICES ASSUME GWInv, SpreadEvenly, [GWNext]_gwVars, Filling'
               PROVE  \A i, j \in Replicas : active'[i] <= active'[j] + 1
    BY DEF SpreadEvenly, Filling
  <2>a. Filling => \A i, j \in Replicas : active[i] <= active[j] + 1
    BY DEF SpreadEvenly, Filling
  <2>1. ASSUME NEW c \in Requests, NEW i \in Replicas, Reserve(c, i)
        PROVE  \A k, l \in Replicas : active'[k] <= active'[l] + 1
    <3>t. req \in [Requests -> ReqType] /\ req[c] \in ReqType /\ FactsOf(req[c])
          /\ active \in [Replicas -> Nat]
      BY DEF GWInv, GWTypeOK, PhaseFacts
    <3>1. /\ req[c].inst = None
          /\ req'[c].inst = i /\ req'[c].prompt = req[c].prompt
          /\ req'[c].rows = req[c].rows
          /\ OnlyChanges(c)
      BY <2>1, <3>t DEF Reserve, FactsOf, OnlyChanges, ReqType
    <3>2. Filling
      BY <3>1 DEF Filling, OnlyChanges, Holds
    <3>3. req[c].prompt = Plain /\ \A j \in Replicas : req[c].rows[j] = "live"
      BY <3>1, GatewayAssumption DEF Filling
    <3>4. \A j \in Replicas : active[i] <= active[j]
      BY <2>1, <3>3, ChoosesLeastLoaded DEF Reserve, GWInv
    <3>5. active' = [active EXCEPT ![i] = active[i] + 1]
      BY <2>1 DEF Reserve
    <3> QED BY <2>a, <3>t, <3>2, <3>4, <3>5
  <2>2. ASSUME NEW c \in Requests, RequestStep(c), ~\E i \in Replicas : Reserve(c, i)
        PROVE  \A k, l \in Replicas : active'[k] <= active'[l] + 1
    <3>1. OnlyChanges(c)
      BY <2>2, FactsStep DEF GWInv, PhaseFacts
    <3>2. active' = active
      BY <2>2, Settled DEF Filling
    <3>3. Filling
      BY <2>2, <3>1, Settled DEF Filling, OnlyChanges, Holds
    <3> QED BY <2>a, <3>2, <3>3
  <2>3. CASE UNCHANGED <<active, req>>
    BY <2>a, <2>3 DEF Filling, Holds
  <2> QED BY <2>1, <2>2, <2>3 DEF GWNext, FleetChanges, Expire, gwVars
<1> QED BY <1>1, <1>2, GatewayInvariant, PTL DEF GWSpec

(***************************************************************************)
(* The gateway implements the safety part of the slot pool.                *)
(***************************************************************************)

\* The slots of the requests, as the slot pool sees them.
leases == [c \in Requests |-> Lease(c)]

\* A step of one request moves its own lease only.
LEMMA OneLease ==
    ASSUME NEW c \in Requests, OnlyChanges(c)
    PROVE  leases' = [leases EXCEPT ![c] = Lease(c)']
<1>1. \A d \in Requests \ {c} : Lease(d)' = Lease(d)
  BY DEF OnlyChanges, Lease, Holds
<1> QED BY <1>1 DEF leases

\* A release of a slot that is held is the slot pool's GiveBack: SlotsExact says the count
\* is positive, so the clamp of _release_instance is never reached.
LEMMA ReleaseIsGiveBack ==
    ASSUME GWInv, NEW c \in Requests, OnlyChanges(c), Holds(c), req[c].inst \in Replicas,
           req'[c].phase \in {"done", "released"}, Release(req[c].inst)
    PROVE  Slots!GiveBack(c)
<1> DEFINE i == req[c].inst
<1>1. Lease(c) = i /\ Lease(c)' = "after"
  BY DEF Lease, Holds
<1>2. active[i] \in Nat /\ active[i] # 0
  <2>1. c \in Holders(i) /\ IsFiniteSet(Holders(i))
    BY HoldersFinite DEF Holders
  <2>2. Cardinality(Holders(i)) \in Nat /\ Cardinality(Holders(i)) # 0
    BY <2>1, FS_CardinalityType, FS_EmptySet
  <2> QED BY <2>2 DEF GWInv, SlotsExact
<1>3. active' = [active EXCEPT ![i] = active[i] - 1]
  <2>1. active' = [active EXCEPT ![i] = IF active[i] > 1 THEN active[i] - 1 ELSE 0]
    BY DEF Release
  <2>2. (IF active[i] > 1 THEN active[i] - 1 ELSE 0) = active[i] - 1
    BY <1>2
  <2> QED BY <2>1, <2>2
<1>4. leases' = [leases EXCEPT ![c] = "after"] /\ leases[c] = i
  BY <1>1, OneLease DEF leases
<1> QED BY <1>3, <1>4 DEF Slots!GiveBack, leases

\* A step that neither takes nor returns a slot leaves the pool alone.
LEMMA KeepsLease ==
    ASSUME NEW c \in Requests, OnlyChanges(c), Lease(c)' = Lease(c), active' = active
    PROVE  UNCHANGED Slots!spVars
<1>1. leases' = leases
  BY OneLease DEF leases
<1> QED BY <1>1 DEF Slots!spVars, leases

\* Every step of the gateway takes one slot, refuses, returns one slot, or is none of the
\* pool's business.
LEMMA SlotPoolStep == GWInv /\ [GWNext]_gwVars => [Slots!SPNext]_(Slots!spVars)
<1> SUFFICES ASSUME GWInv, [GWNext]_gwVars PROVE [Slots!SPNext]_(Slots!spVars)
  OBVIOUS
<1>t. /\ req \in [Requests -> ReqType]
      /\ \A c \in Requests : req[c] \in ReqType /\ FactsOf(req[c])
  BY DEF GWInv, GWTypeOK, PhaseFacts
<1>1. ASSUME NEW c \in Requests, RequestStep(c) PROVE [Slots!SPNext]_(Slots!spVars)
  <2>0. OnlyChanges(c)
    BY <1>1, FactsStep DEF GWInv, PhaseFacts
  <2>k. ASSUME Lease(c)' = Lease(c), active' = active PROVE UNCHANGED Slots!spVars
    BY <2>0, <2>k, KeepsLease
  <2>1. ASSUME NEW p \in Prompts \cup {Plain}, ReadRows(c, p) PROVE UNCHANGED Slots!spVars
    <3>1. Lease(c)' = Lease(c) /\ active' = active
      BY <1>t, <2>1 DEF ReadRows, Lease, Holds, ReqType
    <3> QED BY <2>k, <3>1
  <2>2. ASSUME NEW i \in Replicas, Reserve(c, i) PROVE Slots!Take(c, i)
    <3>1. Lease(c) = "before" /\ Lease(c)' = i
      BY <1>t, <2>2 DEF Reserve, Lease, Holds, ReqType
    <3>2. leases[c] = "before" /\ leases' = [leases EXCEPT ![c] = i]
      BY <2>0, <3>1, OneLease DEF leases
    <3> QED BY <2>2, <3>2 DEF Reserve, Slots!Take, leases
  <2>3. CASE NoInstance(c)
    <3>1. Lease(c) = "before" /\ Lease(c)' = "after"
      BY <1>t, <2>3 DEF NoInstance, Moved, Lease, Holds, ReqType
    <3>2. leases[c] = "before" /\ leases' = [leases EXCEPT ![c] = "after"]
      BY <2>0, <3>1, OneLease DEF leases
    <3>3. Slots!Refuse(c)
      BY <2>3, <3>2 DEF NoInstance, Slots!Refuse, leases
    <3> QED BY <3>3 DEF Slots!SPNext
  <2>4. CASE Resolve(c) \/ QuotaOk(c) \/ HandOff(c) \/ HangUp(c)
    <3>1. CASE Resolve(c) \/ QuotaOk(c) \/ HangUp(c)
      BY <1>t, <2>k, <3>1 DEF Resolve, QuotaOk, HangUp, Moved, Lease, Holds, ReqType
    <3>2. CASE HandOff(c)
      BY <1>t, <2>k, <3>2 DEF HandOff, Lease, Holds, ReqType
    <3> QED BY <2>4, <3>1, <3>2
  <2>5. CASE FinishRelay(c)
    <3>1. CASE req[c].phase = "released"
      BY <1>t, <2>5, <2>k, <3>1 DEF FinishRelay, Billed, Lease, Holds, ReqType
    <3>2. CASE req[c].phase # "released"
      BY <1>t, <2>5, <2>k, <3>2 DEF FinishRelay, Billed, Lease, Holds, ReqType
    <3> QED BY <3>1, <3>2
  <2>6. CASE ResolveFails(c) \/ LeaveUnbilled(c) \/ SendFails(c) \/ BackgroundRelease(c)
    <3>1. Release(req[c].inst) /\ Holds(c)
      BY <2>6 DEF ResolveFails, LeaveUnbilled, SendFails, BackgroundRelease, Holds
    <3>2. req[c].inst \in Replicas
      BY <1>t, <3>1 DEF FactsOf, Holds
    <3>3. req'[c].phase \in {"done", "released"}
      <4>1. CASE ResolveFails(c) \/ LeaveUnbilled(c)
        BY <1>t, <4>1 DEF ResolveFails, LeaveUnbilled, Moved, ReqType
      <4>2. CASE SendFails(c)
        BY <1>t, <4>2 DEF SendFails, ReqType
      <4>3. CASE BackgroundRelease(c)
        BY <1>t, <4>3 DEF BackgroundRelease, Moved, ReqType
      <4> QED BY <2>6, <4>1, <4>2, <4>3
    <3>4. Slots!GiveBack(c)
      BY <2>0, <3>1, <3>2, <3>3, ReleaseIsGiveBack
    <3> QED BY <3>4 DEF Slots!SPNext
  <2> QED BY <1>1, <2>1, <2>2, <2>3, <2>4, <2>5, <2>6 DEF RequestStep, Slots!SPNext
<1>2. CASE UNCHANGED <<active, req>>
  <2>1. leases' = leases
    BY <1>2 DEF leases, Lease, Holds
  <2> QED BY <1>2, <2>1 DEF Slots!spVars, leases
<1> QED BY <1>1, <1>2 DEF GWNext, FleetChanges, Expire, gwVars

\* For any number of replicas and requests, the gateway implements the slot pool: on every
\* path a request takes at most one slot and gives exactly that slot back, at most once.
\* (That it does give it back is the liveness part of ImplementsSlotPool.)
THEOREM GatewayRefinesSlotPool == GWSpec => Slots!SPSafe
<1>1. GWInit => Slots!SPInit
  BY DEF GWInit, Slots!SPInit, Lease, Holds
<1> QED BY <1>1, SlotPoolStep, GatewayInvariant, PTL DEF GWSpec, Slots!SPSafe
=============================================================================
