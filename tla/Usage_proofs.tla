---------------------------- MODULE Usage_proofs ---------------------------
(***************************************************************************)
(* Proofs about Usage, for any users, models, limits, buffer bound and     *)
(* number of requests, days and faults.                                    *)
(***************************************************************************)
EXTENDS Usage, TLAPS

(***************************************************************************)
(* Counts.                                                                 *)
(***************************************************************************)

\* Adding two counts, key by key.
LEMMA Sums ==
    ASSUME NEW f \in Counts, NEW g \in Counts
    PROVE  Plus(f, g) \in Counts /\ \A k \in Keys : Plus(f, g)[k] = f[k] + g[k]
  BY DEF Counts, Plus

\* The empty count.
LEMMA Zeros == Zero \in Counts /\ \A k \in Keys : Zero[k] = 0
  BY DEF Counts, Zero

\* The key of a request is a key.
LEMMA KeysOf == \A u \in Users, m \in Models, d \in Days : Key(u, m, d) \in Keys
  BY DEF Key, Keys

\* One more for one key.
LEMMA OneMore ==
    ASSUME NEW f \in Counts, NEW k \in Keys
    PROVE  /\ [f EXCEPT ![k] = f[k] + 1] \in Counts
           /\ \A j \in Keys : [f EXCEPT ![k] = f[k] + 1][j] = IF j = k THEN f[j] + 1 ELSE f[j]
  BY DEF Counts

\* The fault budget is respected.
LEMMA FaultBudget == (faults \in 0 .. MaxFaults /\ (Fault \/ UNCHANGED faults)) =>
                        faults' \in 0 .. MaxFaults
  BY UsageAssumption DEF Fault

(***************************************************************************)
(* Typing.                                                                 *)
(***************************************************************************)

\* A request stays well typed when its phase moves on.
LEMMA MovedType ==
    ASSUME req \in [Requests -> ReqType], NEW c \in Requests,
           NEW ph \in {"new", "checking", "admitted", "done"}
    PROVE  Moved(c, ph) \in [Requests -> ReqType]
  BY DEF Moved, ReqType

\* Every step keeps the types.
LEMMA UsageTypeStep == UsageTypeOK /\ [UsageNext]_usageVars => UsageTypeOK'
<1> SUFFICES ASSUME UsageTypeOK, [UsageNext]_usageVars PROVE UsageTypeOK'
  OBVIOUS
<1>t. /\ pending \in Counts /\ swapped \in Counts /\ db \in Counts
      /\ accepted \in Counts /\ lost \in Counts /\ today \in Days
      /\ req \in [Requests -> ReqType] /\ faults \in 0 .. MaxFaults
  BY DEF UsageTypeOK
<1>1. ASSUME NEW c \in Requests, BeginCheck(c) PROVE UsageTypeOK'
  <2>1. req[c] \in ReqType
    BY <1>t
  <2> DEFINE k(m) == Key(req[c].user, m, today)
             s == [m \in Models |-> db[k(m)]]
  <2>2. \A m \in Models : k(m) \in Keys
    BY <2>1, <1>t, KeysOf DEF ReqType
  <2>3. s \in [Models -> Nat]
    BY <2>2, <1>t DEF Counts
  <2>4. req' \in [Requests -> ReqType]
    <3> HIDE DEF s
    <3>1. [req[c] EXCEPT !.phase = "checking", !.day = today, !.seen = s] \in ReqType
      BY <2>1, <2>3, <1>t DEF ReqType
    <3>2. Moved(c, "admitted") \in [Requests -> ReqType]
      BY <1>t, MovedType
    <3>3. req' = IF req[c].user \notin Limited THEN Moved(c, "admitted")
                 ELSE [req EXCEPT ![c] = [req[c] EXCEPT !.phase = "checking", !.day = today,
                                                        !.seen = s]]
      BY <1>1 DEF BeginCheck, s
    <3> QED BY <3>1, <3>2, <3>3, <1>t
  <2> QED BY <1>1, <2>4 DEF BeginCheck, UsageTypeOK
<1>2. ASSUME NEW c \in Requests, DecideQuota(c) PROVE UsageTypeOK'
  <2>1. req' = Moved(c, "done") \/ req' = Moved(c, "admitted")
    BY <1>2 DEF DecideQuota
  <2>2. req' \in [Requests -> ReqType]
    BY <2>1, <1>t, MovedType
  <2> QED BY <1>2, <2>2 DEF DecideQuota, UsageTypeOK
<1>3. ASSUME NEW c \in Requests, Abandon(c) PROVE UsageTypeOK'
  BY <1>3, <1>t, MovedType DEF Abandon, UsageTypeOK
<1>4. ASSUME NEW c \in Requests, RecordRequest(c) PROVE UsageTypeOK'
  <2> DEFINE k == Key(req[c].user, req[c].model, today)
  <2>1. k \in Keys
    BY <1>t, KeysOf DEF ReqType
  <2>2. pending' \in Counts /\ accepted' \in Counts
    <3> HIDE DEF k
    <3>1. \/ pending' = pending /\ accepted' = accepted
          \/ pending' = [pending EXCEPT ![k] = pending[k] + 1]
             /\ accepted' = [accepted EXCEPT ![k] = accepted[k] + 1]
      BY <1>4 DEF RecordRequest, k
    <3> QED BY <2>1, <3>1, <1>t, OneMore
  <2>3. req' \in [Requests -> ReqType]
    BY <1>4, <1>t, MovedType DEF RecordRequest
  <2> QED BY <1>4, <2>2, <2>3 DEF RecordRequest, UsageTypeOK
<1>5. ASSUME NEW x \in Deletable, DeleteParent(x) PROVE UsageTypeOK'
  <2>1. db' \in Counts
    BY <1>5, <1>t DEF DeleteParent, Counts
  <2> QED BY <1>5, <2>1 DEF DeleteParent, UsageTypeOK
<1>6. CASE Midnight
  <2>1. today' \in Days
    BY <1>6, <1>t, UsageAssumption DEF Midnight, Days
  <2> QED BY <1>6, <2>1 DEF Midnight, UsageTypeOK
<1>7. CASE FlushStart
  BY <1>7, Zeros DEF FlushStart, UsageTypeOK
<1>8. CASE FlushCommit
  BY <1>8, <1>t, Zeros, Sums DEF FlushCommit, UsageTypeOK
<1>9. CASE FlushFails
  <2>1. faults' \in 0 .. MaxFaults
    BY <1>9, <1>t, FaultBudget DEF FlushFails
  <2> QED BY <1>9, <1>t, <2>1, Zeros, Sums DEF FlushFails, UsageTypeOK
<1>r. CASE RollbackFails
  <2>1. faults' \in 0 .. MaxFaults
    BY <1>r, <1>t, FaultBudget DEF RollbackFails
  <2> QED BY <1>r, <1>t, <2>1, Zeros, Sums DEF RollbackFails, UsageTypeOK
<1>a. AllOver \in [Requests -> ReqType]
  BY <1>t DEF AllOver, ReqType
<1>10. CASE ShutDown
  BY <1>10, <1>t, <1>a, Zeros, Sums DEF ShutDown, UsageTypeOK
<1>11. CASE FinalFlush
  <2>1. faults' \in 0 .. MaxFaults
    BY <1>11, <1>t, FaultBudget DEF FinalFlush
  <2>2. db' \in Counts /\ lost' \in Counts
    BY <1>11, <1>t, Sums DEF FinalFlush
  <2> QED BY <1>11, <2>1, <2>2, Zeros DEF FinalFlush, UsageTypeOK
<1>12. CASE Crash
  <2>1. faults' \in 0 .. MaxFaults
    BY <1>12, <1>t, FaultBudget DEF Crash
  <2>2. lost' \in Counts
    BY <1>12, <1>t, Sums DEF Crash
  <2> QED BY <1>12, <1>a, <2>1, <2>2, Zeros DEF Crash, UsageTypeOK
<1>13. CASE UNCHANGED usageVars
  BY <1>13 DEF usageVars, UsageTypeOK
<1> QED
  BY <1>1, <1>2, <1>3, <1>4, <1>5, <1>6, <1>7, <1>8, <1>9, <1>r, <1>10, <1>11, <1>12, <1>13
  DEF UsageNext, FlushEnd

\* The initial state has its type.
LEMMA UsageInitTyped == UsageInit => UsageTypeOK
<1> SUFFICES ASSUME UsageInit PROVE UsageTypeOK
  OBVIOUS
<1>1. today \in Days /\ 0 \in Days /\ faults \in 0 .. MaxFaults
  BY UsageAssumption DEF UsageInit, Days
<1>2. NoneSeen \in [Models -> Nat]
  BY DEF NoneSeen
<1>3. req \in [Requests -> ReqType]
  BY <1>1, <1>2 DEF UsageInit, ReqType
<1> QED BY <1>1, <1>3, Zeros DEF UsageInit, UsageTypeOK

\* The accounting state always has its type.
THEOREM UsageTyping == UsageSpec => []UsageTypeOK
  BY UsageInitTyped, UsageTypeStep, PTL DEF UsageSpec

(***************************************************************************)
(* Conservation.                                                           *)
(***************************************************************************)

\* Nothing comes back to life.
LEMMA StaysGone == [UsageNext]_usageVars => gone \subseteq gone'
  BY DEF UsageNext, usageVars, BeginCheck, DecideQuota, Abandon, RecordRequest, DeleteParent,
         Midnight, FlushStart, FlushEnd, FlushCommit, FlushFails, RollbackFails, ShutDown,
         FinalFlush, Crash

\* Every step keeps the balance of every key whose user and model exist.
LEMMA ConservationStep ==
    UsageInv /\ [UsageNext]_usageVars => Conservation' /\ SwapIsOpen'
<1> SUFFICES ASSUME UsageInv, [UsageNext]_usageVars PROVE Conservation' /\ SwapIsOpen'
  OBVIOUS
<1>t. /\ pending \in Counts /\ swapped \in Counts /\ db \in Counts
      /\ accepted \in Counts /\ lost \in Counts /\ today \in Days
      /\ req \in [Requests -> ReqType]
  BY DEF UsageInv, UsageTypeOK
<1>n. \A k \in Keys : /\ pending[k] \in Nat /\ swapped[k] \in Nat /\ db[k] \in Nat
                      /\ accepted[k] \in Nat /\ lost[k] \in Nat
  BY <1>t DEF Counts
<1>b. \A k \in Keys : Alive(k) => accepted[k] = db[k] + pending[k] + swapped[k] + lost[k]
  BY DEF UsageInv, Conservation
<1>o. SwapIsOpen
  BY DEF UsageInv
<1>1. ASSUME NEW c \in Requests, BeginCheck(c) \/ DecideQuota(c) \/ Abandon(c)
      PROVE  Conservation' /\ SwapIsOpen'
  BY <1>1, <1>b, <1>o DEF BeginCheck, DecideQuota, Abandon, Conservation, SwapIsOpen, Alive
<1>2. ASSUME NEW c \in Requests, RecordRequest(c) PROVE Conservation' /\ SwapIsOpen'
  <2> DEFINE k == Key(req[c].user, req[c].model, today)
  <2>1. k \in Keys
    BY <1>t, KeysOf DEF ReqType
  <2> HIDE DEF k
  <2>2. \/ pending' = pending /\ accepted' = accepted
        \/ pending' = [pending EXCEPT ![k] = pending[k] + 1]
           /\ accepted' = [accepted EXCEPT ![k] = accepted[k] + 1]
    BY <1>2 DEF RecordRequest, k
  <2>3. UNCHANGED <<db, swapped, flushing, lost, gone>>
    BY <1>2 DEF RecordRequest
  <2>4. Conservation'
    <3> SUFFICES ASSUME NEW j \in Keys, Alive(j)
                 PROVE  accepted'[j] = db[j] + pending'[j] + swapped[j] + lost[j]
      BY <2>3 DEF Conservation, Alive
    <3>1. \/ accepted'[j] = accepted[j] /\ pending'[j] = pending[j]
          \/ accepted'[j] = accepted[j] + 1 /\ pending'[j] = pending[j] + 1
      BY <1>t, <2>1, <2>2 DEF Counts
    <3> QED BY <3>1, <1>b, <1>n
  <2> QED BY <2>3, <2>4, <1>o DEF SwapIsOpen
<1>3. ASSUME NEW x \in Deletable, DeleteParent(x) PROVE Conservation' /\ SwapIsOpen'
  <2>1. \A k \in Keys : Alive(k)' => Alive(k) /\ db'[k] = db[k]
    BY <1>3, <1>t DEF DeleteParent, Alive, Counts
  <2>2. UNCHANGED <<pending, swapped, flushing, accepted, lost>>
    BY <1>3 DEF DeleteParent
  <2> QED BY <2>1, <2>2, <1>b, <1>o DEF Conservation, SwapIsOpen
<1>4. CASE Midnight
  BY <1>4, <1>b, <1>o DEF Midnight, Conservation, SwapIsOpen, Alive
<1>5. CASE FlushStart
  <2>1. \A k \in Keys : swapped[k] = 0 /\ swapped'[k] = pending[k] /\ pending'[k] = 0
    BY <1>5, <1>o, Zeros DEF FlushStart, SwapIsOpen
  <2>2. UNCHANGED <<db, gone, accepted, lost>> /\ flushing'
    BY <1>5 DEF FlushStart
  <2> QED BY <2>1, <2>2, <1>b, <1>n DEF Conservation, SwapIsOpen, Alive
<1>6. CASE FlushCommit
  <2>1. \A k \in Keys : db'[k] = db[k] + swapped[k] /\ swapped'[k] = 0
    BY <1>6, <1>t, Zeros, Sums DEF FlushCommit
  <2>2. UNCHANGED <<pending, gone, accepted, lost>> /\ swapped' = Zero
    BY <1>6 DEF FlushCommit
  <2> QED BY <2>1, <2>2, <1>b, <1>n DEF Conservation, SwapIsOpen, Alive
<1>7. CASE FlushFails
  <2>1. \A k \in Keys : pending'[k] = pending[k] + swapped[k] /\ swapped'[k] = 0
    BY <1>7, <1>t, Zeros, Sums DEF FlushFails
  <2>2. UNCHANGED <<db, gone, accepted, lost>> /\ swapped' = Zero
    BY <1>7 DEF FlushFails
  <2> QED BY <2>1, <2>2, <1>b, <1>n DEF Conservation, SwapIsOpen, Alive
<1>r. CASE RollbackFails
  <2>1. \A k \in Keys : lost'[k] = lost[k] + swapped[k] /\ swapped'[k] = 0
    BY <1>r, <1>t, Zeros, Sums DEF RollbackFails
  <2>2. UNCHANGED <<db, gone, accepted, pending>> /\ swapped' = Zero
    BY <1>r DEF RollbackFails
  <2> QED BY <2>1, <2>2, <1>b, <1>n DEF Conservation, SwapIsOpen, Alive
<1>8. CASE ShutDown
  <2>1. \A k \in Keys :
          /\ swapped'[k] = 0
          /\ \/ db'[k] = db[k] + swapped[k] /\ lost'[k] = lost[k]
             \/ lost'[k] = lost[k] + swapped[k] /\ db'[k] = db[k]
    BY <1>8, <1>t, Zeros, Sums DEF ShutDown
  <2>2. UNCHANGED <<pending, gone, accepted>> /\ swapped' = Zero
    BY <1>8 DEF ShutDown
  <2> QED BY <2>1, <2>2, <1>b, <1>n DEF Conservation, SwapIsOpen, Alive
<1>9. CASE FinalFlush
  <2>1. \A k \in Keys :
          /\ pending'[k] = 0
          /\ \/ db'[k] = db[k] + pending[k] /\ lost'[k] = lost[k]
             \/ lost'[k] = lost[k] + pending[k] /\ db'[k] = db[k]
    BY <1>9, <1>t, Zeros, Sums DEF FinalFlush
  <2>2. UNCHANGED <<swapped, flushing, gone, accepted>>
    BY <1>9 DEF FinalFlush
  <2> QED BY <2>1, <2>2, <1>b, <1>n, <1>o DEF Conservation, SwapIsOpen, Alive
<1>10. CASE Crash
  <2>1. Plus(pending, swapped) \in Counts
    BY <1>t, Sums
  <2>2. \A k \in Keys : /\ pending'[k] = 0 /\ swapped'[k] = 0
                        /\ lost'[k] = lost[k] + (pending[k] + swapped[k])
    BY <1>10, <1>t, <2>1, Zeros, Sums DEF Crash
  <2>3. UNCHANGED <<db, gone, accepted>> /\ swapped' = Zero
    BY <1>10 DEF Crash
  <2> QED BY <2>2, <2>3, <1>b, <1>n DEF Conservation, SwapIsOpen, Alive
<1>11. CASE UNCHANGED usageVars
  BY <1>11, <1>b, <1>o DEF usageVars, Conservation, SwapIsOpen, Alive
<1> QED
  BY <1>1, <1>2, <1>3, <1>4, <1>5, <1>6, <1>7, <1>r, <1>8, <1>9, <1>10, <1>11
  DEF UsageNext, FlushEnd

(***************************************************************************)
(* Quota checks.                                                           *)
(***************************************************************************)

\* The rows of a user and a model that still exist never shrink.
LEMMA RowsGrow ==
    UsageTypeOK /\ [UsageNext]_usageVars => \A k \in Keys : Alive(k)' => db[k] <= db'[k]
<1> SUFFICES ASSUME UsageTypeOK, [UsageNext]_usageVars, NEW k \in Keys, Alive(k)'
             PROVE  db[k] <= db'[k]
  OBVIOUS
<1>t. pending \in Counts /\ swapped \in Counts /\ db \in Counts
  BY DEF UsageTypeOK
<1>n. pending[k] \in Nat /\ swapped[k] \in Nat /\ db[k] \in Nat
  BY <1>t DEF Counts
<1>1. ASSUME NEW x \in Deletable, DeleteParent(x) PROVE db'[k] = db[k]
  BY <1>1 DEF DeleteParent, Alive
<1>2. CASE FlushCommit
  BY <1>2, <1>t, <1>n, Sums DEF FlushCommit
<1>3. CASE ShutDown
  BY <1>3, <1>t, <1>n, Sums DEF ShutDown
<1>4. CASE FinalFlush
  BY <1>4, <1>t, <1>n, Sums DEF FinalFlush
<1>5. CASE UNCHANGED db
  BY <1>5, <1>n
<1>6. ASSUME NEW c \in Requests,
             BeginCheck(c) \/ DecideQuota(c) \/ Abandon(c) \/ RecordRequest(c)
      PROVE  UNCHANGED db
  <2>1. BeginCheck(c) => UNCHANGED db
    BY DEF BeginCheck
  <2> QED BY <1>6, <2>1 DEF DecideQuota, Abandon, RecordRequest
<1>7. CASE \/ Midnight \/ FlushStart \/ FlushFails \/ RollbackFails \/ Crash
           \/ UNCHANGED usageVars
  BY <1>7, <1>5 DEF Midnight, FlushStart, FlushFails, RollbackFails, Crash, usageVars
<1> QED
  BY <1>1, <1>2, <1>3, <1>4, <1>5, <1>6, <1>7, <1>n DEF UsageNext, FlushEnd

\* What a step does to a request that is checking its quota afterwards: it began the
\* check now, from the rows as they are, or it is what it was.
LEMMA CheckingStep ==
    ASSUME UsageTypeOK, [UsageNext]_usageVars, NEW c \in Requests, req'[c].phase = "checking"
    PROVE  \/ req'[c] = req[c]
           \/ /\ req'[c].user = req[c].user
              /\ req'[c].day = today
              /\ \A m \in Models : req'[c].seen[m] = db[Key(req[c].user, m, today)]
              /\ UNCHANGED <<db, gone>>
<1>t. req \in [Requests -> ReqType] /\ \A d \in Requests : req[d] \in ReqType
  BY DEF UsageTypeOK
<1>m. \A d \in Requests, ph \in {"admitted", "done"} :
        /\ Moved(d, ph)[d].phase = ph
        /\ d # c => Moved(d, ph)[c] = req[c]
  BY <1>t DEF Moved, ReqType
<1>1. ASSUME NEW d \in Requests, BeginCheck(d)
      PROVE  \/ req'[c] = req[c]
             \/ /\ req'[c].user = req[c].user
                /\ req'[c].day = today
                /\ \A m \in Models : req'[c].seen[m] = db[Key(req[c].user, m, today)]
                /\ UNCHANGED <<db, gone>>
  <2> DEFINE s == [m \in Models |-> db[Key(req[d].user, m, today)]]
             r == [req[d] EXCEPT !.phase = "checking", !.day = today, !.seen = s]
  <2>1. req' = Moved(d, "admitted") \/ req' = [req EXCEPT ![d] = r]
    BY <1>1 DEF BeginCheck
  <2>2. UNCHANGED <<db, gone>>
    BY <1>1 DEF BeginCheck
  <2>3. \A m \in Models : s[m] = db[Key(req[d].user, m, today)]
    OBVIOUS
  <2> HIDE DEF s
  <2>4. r.user = req[d].user /\ r.day = today /\ r.seen = s
    BY <1>t DEF ReqType
  <2> HIDE DEF r
  <2>5. CASE req' = Moved(d, "admitted")
    BY <1>m, <2>5
  <2>6. CASE req' = [req EXCEPT ![d] = r]
    BY <1>t, <2>2, <2>3, <2>4, <2>6
  <2> QED BY <2>1, <2>5, <2>6
<1>2. ASSUME NEW d \in Requests, DecideQuota(d) \/ Abandon(d) \/ RecordRequest(d)
      PROVE  req'[c] = req[c]
  <2>1. req' = Moved(d, "done") \/ req' = Moved(d, "admitted")
    BY <1>2 DEF DecideQuota, Abandon, RecordRequest
  <2> QED BY <1>m, <2>1
<1>3. CASE ShutDown \/ Crash
  <2>1. req'[c].phase = "done"
    BY <1>3, <1>t DEF ShutDown, Crash, AllOver, ReqType
  <2> QED BY <2>1
<1>4. CASE UNCHANGED req
  BY <1>4
<1>5. ASSUME NEW x \in Deletable, DeleteParent(x) PROVE UNCHANGED req
  BY <1>5 DEF DeleteParent
<1>6. CASE \/ Midnight \/ FlushStart \/ FlushCommit \/ FlushFails \/ RollbackFails
           \/ FinalFlush \/ UNCHANGED usageVars
  BY <1>6 DEF Midnight, FlushStart, FlushCommit, FlushFails, RollbackFails, FinalFlush, usageVars
<1> QED BY <1>1, <1>2, <1>3, <1>4, <1>5, <1>6 DEF UsageNext, FlushEnd

\* The inductive invariant of the accounting.
THEOREM UsageInvariant == UsageSpec => []UsageInv
<1>1. UsageInit => UsageInv
  <2> SUFFICES ASSUME UsageInit PROVE UsageInv
    OBVIOUS
  <2>1. UsageTypeOK
    BY UsageInitTyped
  <2>2. Conservation /\ SwapIsOpen
    BY Zeros DEF UsageInit, Conservation, SwapIsOpen
  <2>3. SeenIsOld
    BY DEF UsageInit, SeenIsOld
  <2> QED BY <2>1, <2>2, <2>3 DEF UsageInv
<1>2. UsageInv /\ [UsageNext]_usageVars => UsageInv'
  <2> SUFFICES ASSUME UsageInv, [UsageNext]_usageVars PROVE UsageInv'
    OBVIOUS
  <2>1. UsageTypeOK /\ UsageTypeOK'
    BY UsageTypeStep DEF UsageInv
  <2>2. Conservation' /\ SwapIsOpen'
    BY ConservationStep
  <2>3. SeenIsOld'
    <3> SUFFICES ASSUME NEW c \in Requests, req'[c].phase = "checking", NEW m \in Models,
                        Key(req'[c].user, m, req'[c].day)[1] \notin gone',
                        Key(req'[c].user, m, req'[c].day)[2] \notin gone'
                 PROVE  req'[c].seen[m] <= db'[Key(req'[c].user, m, req'[c].day)]
      BY DEF SeenIsOld, Alive
    <3>0. Key(req'[c].user, m, req'[c].day) \in Keys
      BY <2>1, KeysOf DEF UsageTypeOK, ReqType
    <3>1. PICK k \in Keys : k = Key(req'[c].user, m, req'[c].day)
      BY <3>0
    <3>a. Alive(k)'
      BY <3>1 DEF Alive
    <3>2. db[k] <= db'[k] /\ db[k] \in Nat /\ db'[k] \in Nat
      BY <3>1, <3>a, <2>1, RowsGrow DEF UsageTypeOK, Counts
    <3>3. Alive(k)
      BY <3>a, StaysGone DEF Alive
    <3>4. CASE req'[c] = req[c]
      <4>1. req[c].seen[m] <= db[k]
        BY <3>1, <3>3, <3>4 DEF UsageInv, SeenIsOld
      <4>2. req[c].seen[m] \in Nat
        BY <2>1 DEF UsageTypeOK, ReqType
      <4> QED BY <3>1, <3>2, <3>4, <4>1, <4>2
    <3>5. CASE /\ req'[c].user = req[c].user /\ req'[c].day = today
               /\ \A n \in Models : req'[c].seen[n] = db[Key(req[c].user, n, today)]
      BY <3>1, <3>2, <3>5
    <3> QED BY <2>1, <3>4, <3>5, CheckingStep
  <2> QED BY <2>1, <2>2, <2>3 DEF UsageInv
<1> QED BY <1>1, <1>2, PTL DEF UsageSpec

\* Every counted request is in the rows, the buffer, the flush in progress or what
\* died with a process or a failed rollback, exactly once.
THEOREM AlwaysConserved == UsageSpec => []Conservation
<1>1. UsageInv => Conservation
  BY DEF UsageInv
<1> QED BY <1>1, UsageInvariant, PTL

\* A quota check never adds up more than was counted.
THEOREM QuotaNeverOvercounts == UsageSpec => []NeverOvercounts
<1>1. UsageInv => NeverOvercounts
  <2> SUFFICES ASSUME UsageInv, NEW c \in Requests, req[c].phase = "checking",
                      NEW m \in Models, Alive(Key(req[c].user, m, req[c].day))
               PROVE  req[c].seen[m] + pending[Key(req[c].user, m, req[c].day)]
                        <= accepted[Key(req[c].user, m, req[c].day)]
    BY DEF NeverOvercounts
  <2> DEFINE k == Key(req[c].user, m, req[c].day)
  <2>1. k \in Keys /\ req[c].seen[m] \in Nat
    BY KeysOf DEF UsageInv, UsageTypeOK, ReqType
  <2>2. /\ pending[k] \in Nat /\ swapped[k] \in Nat /\ db[k] \in Nat
        /\ lost[k] \in Nat /\ accepted[k] \in Nat
    BY <2>1 DEF UsageInv, UsageTypeOK, Counts
  <2>3. req[c].seen[m] <= db[k]
    BY DEF UsageInv, SeenIsOld
  <2>4. accepted[k] = db[k] + pending[k] + swapped[k] + lost[k]
    BY <2>1 DEF UsageInv, Conservation
  <2> HIDE DEF k
  <2>5. req[c].seen[m] + pending[k] <= accepted[k]
    BY <2>1, <2>2, <2>3, <2>4
  <2> QED BY <2>5 DEF k
<1> QED BY <1>1, UsageInvariant, PTL

\* Counts are lost with the memory of a process only: none while it is up and no rollback
\* has raised.
LEMMA LossStep ==
    ASSUME UsageTypeOK, [UsageNext]_usageVars,
           mode = "up" /\ ~dropped => lost = Zero, mode' = "up", ~dropped'
    PROVE  lost' = Zero
<1>1. CASE ShutDown \/ FinalFlush \/ Crash \/ RollbackFails
  BY <1>1 DEF ShutDown, FinalFlush, Crash, RollbackFails
<1>2. CASE ~(ShutDown \/ FinalFlush \/ Crash \/ RollbackFails)
  <2>1. UNCHANGED <<mode, lost, dropped>>
    BY <1>2 DEF UsageNext, usageVars, BeginCheck, DecideQuota, Abandon, RecordRequest,
                DeleteParent, Midnight, FlushStart, FlushEnd, FlushCommit, FlushFails
  <2> QED BY <2>1
<1> QED BY <1>1, <1>2

\* While the process runs, usage_records and _PENDING together are exact whenever no
\* flush_usage is in progress, after any number of failed flushes that were merged back.
THEOREM AlwaysExactBetweenFlushes == UsageSpec => []ExactBetweenFlushes
<1> DEFINE NoLoss == mode = "up" /\ ~dropped => lost = Zero
<1>1. UsageInit => NoLoss
  BY DEF UsageInit
<1>2. UsageInv /\ NoLoss /\ [UsageNext]_usageVars => NoLoss'
  BY LossStep DEF UsageInv
<1>3. UsageInv /\ NoLoss => ExactBetweenFlushes
  <2> SUFFICES ASSUME UsageInv, NoLoss, mode = "up", ~flushing, ~dropped,
                      NEW k \in Keys, Alive(k)
               PROVE  db[k] + pending[k] = accepted[k]
    BY DEF ExactBetweenFlushes
  <2>1. lost[k] = 0 /\ swapped[k] = 0
    BY Zeros DEF UsageInv, SwapIsOpen
  <2>2. db[k] \in Nat /\ pending[k] \in Nat
    BY DEF UsageInv, UsageTypeOK, Counts
  <2>3. accepted[k] = db[k] + pending[k] + swapped[k] + lost[k]
    BY DEF UsageInv, Conservation
  <2> QED BY <2>1, <2>2, <2>3
<1> HIDE DEF NoLoss
<1> QED BY <1>1, <1>2, <1>3, UsageInvariant, PTL DEF UsageSpec
=============================================================================
