-------------------------- MODULE DlqReplayProofs --------------------------
(***************************************************************************)
(* Proofs about DlqReplay, for any set of rows, runs and schedulers.       *)
(*                                                                         *)
(* With any number of schedulers the types hold and a resolved row is      *)
(* published: the resolution a run carries is for a row whose replay that  *)
(* run saw confirmed, and what exists is never undone.                     *)
(*                                                                         *)
(* With one active scheduler, the deployment the DLQ runbook asks for, a   *)
(* run is over before the scheduler fires again, so at most one run is     *)
(* alive (SoleRun).  Nobody but that run and an operator writes to a row   *)
(* it planned; so when it writes a lease the row is still free, and when   *)
(* it asks for a replay or resolves the row the lease it wrote is still    *)
(* there, exactly as old as its plan (ItemsHeld).                          *)
(***************************************************************************)
EXTENDS DlqReplay, FiniteSetTheorems, TLAPS

\* The rows are counted in natural numbers.
LEMMA CapturedCount == Cardinality(Captured) \in Nat
<1>1. IsFiniteSet(Captured)
  BY RowsFinite, FS_Subset DEF Captured
<1>. QED
  BY <1>1, FS_CardinalityType

\* The type invariant in parts: what the rows, the nodes and the clocks hold.
RowsOK ==
  /\ status \in [Rows -> {"absent", "pending", "replaying", "resolved", "abandoned"}]
  /\ failure_stage \in [Rows -> FailureStages]
  /\ next_retry_at \in [Rows -> Nat]
  /\ due \in [Rows -> BOOLEAN]
  /\ replay_owner \in [Rows -> Runs \union {NoOwner}]
  /\ leaseAge \in [Rows -> 0..LeaseTicks]

EffectsOK == effects \in [Rows -> SUBSET Effects]

NodesOK ==
  /\ phase \in [Runs -> {"idle", "fetch", "acquire", "execute", "resolve"}]
  /\ items \in [Runs -> SUBSET Rows]
  /\ todo \in [Runs -> SUBSET Rows]
  /\ \A w \in Runs : todo[w] \subseteq items[w]
  /\ failed \in [Runs -> BOOLEAN]
  /\ tries \in [Runs -> 1..MaxTries]

AgesOK ==
  /\ age \in [Runs -> 0..RunTicks]
  /\ planAge \in [Runs -> 0..RunTicks]
  /\ \A w \in Runs : planAge[w] <= age[w]

TriggersOK == sinceTrigger \in [Schedulers -> 0..IntervalTicks]

FaultsOK == faults \in 0..MaxFaults

LEMMA TypeParts ==
  /\ TypeOK <=> RowsOK /\ EffectsOK /\ NodesOK /\ AgesOK /\ TriggersOK /\ FaultsOK
  /\ TypeOK' <=>
       RowsOK' /\ EffectsOK' /\ NodesOK' /\ AgesOK' /\ TriggersOK' /\ FaultsOK'
  BY DEF TypeOK, RowsOK, EffectsOK, NodesOK, AgesOK, TriggersOK, FaultsOK

LEMMA RowsKept ==
  ASSUME RowsOK, UNCHANGED rowVars PROVE RowsOK'
  BY DEF RowsOK, rowVars

LEMMA NodesKept ==
  ASSUME NodesOK, UNCHANGED nodeVars PROVE NodesOK'
  BY DEF NodesOK, nodeVars

LEMMA AgesKept ==
  ASSUME AgesOK, UNCHANGED <<age, planAge>> PROVE AgesOK'
  BY DEF AgesOK

LEMMA ClocksKept ==
  ASSUME AgesOK, TriggersOK, UNCHANGED clocks PROVE AgesOK' /\ TriggersOK'
  BY DEF AgesOK, TriggersOK, clocks

LEMMA FaultType ==
  ASSUME FaultsOK, Fault PROVE FaultsOK'
  BY BoundsNatural DEF FaultsOK, Fault

LEMMA EnterType ==
  ASSUME NodesOK, NEW w \in Runs, NEW S \in SUBSET Rows,
         NEW p \in {"idle", "fetch", "acquire", "execute", "resolve"},
         Enter(w, p, S)
  PROVE  NodesOK'
  BY BoundsNatural DEF NodesOK, Enter

LEMMA EndRunType ==
  ASSUME NodesOK, AgesOK, NEW w \in Runs, EndRun(w)
  PROVE  NodesOK' /\ AgesOK'
<1>1. NodesOK'
  BY EnterType DEF EndRun
<1>2. AgesOK'
  BY TimesPositive DEF AgesOK, EndRun
<1>. QED
  BY <1>1, <1>2

LEMMA SettleType ==
  ASSUME NodesOK, NEW w \in Runs, NEW r, Settle(w, r) \/ SettleFailed(w, r)
  PROVE  NodesOK' /\ r \in Rows
  BY DEF NodesOK, Settle, SettleFailed

LEMMA LeaseType ==
  ASSUME RowsOK, AgesOK, NEW w \in Runs, NEW r \in Rows, WriteLease(w, r)
  PROVE  RowsOK'
<1>1. planAge[w] \in 0..LeaseTicks
  BY RunShorterThanLease, TimesPositive DEF AgesOK
<1>. QED
  BY <1>1 DEF RowsOK, WriteLease

LEMMA ResolutionType ==
  ASSUME RowsOK, NEW r \in Rows, WriteResolution(r) PROVE RowsOK'
  BY DEF RowsOK, WriteResolution

LEMMA PerformType ==
  ASSUME EffectsOK, RowsOK, NEW r \in Rows, NEW k, PerformSteps(r, k)
  PROVE  EffectsOK'
  BY DEF EffectsOK, RowsOK, PerformSteps, Ensured, Effects, FailureStages

-----------------------------------------------------------------------------
(* One lemma per kind of step *)

LEMMA EnvironmentType ==
  ASSUME TypeOK, Environment PROVE TypeOK'
<1>1. ASSUME NEW r \in Rows, Capture(r) PROVE TypeOK'
  BY <1>1, CapturedCount DEF TypeOK, Capture, nodeVars, clocks
<1>2. ASSUME NEW r \in Rows, RetryDue(r) PROVE TypeOK'
  BY <1>2 DEF TypeOK, RetryDue, nodeVars, clocks
<1>3. ASSUME NEW r \in Rows, Abandon(r) PROVE TypeOK'
  BY <1>3 DEF TypeOK, Abandon, nodeVars, clocks
<1>4. ASSUME Tick PROVE TypeOK'
  <2>1. RowsOK'
    BY <1>4, TimesPositive DEF TypeOK, Tick, Older, RowsOK
  <2>2. AgesOK'
    BY <1>4, TimesPositive DEF TypeOK, Tick, AgesOK
  <2>3. TriggersOK'
    BY <1>4, TimesPositive DEF TypeOK, Tick, Older, TriggersOK
  <2>4. EffectsOK' /\ NodesOK' /\ FaultsOK'
    BY <1>4 DEF TypeOK, Tick, nodeVars, EffectsOK, NodesOK, FaultsOK
  <2>. QED
    BY <2>1, <2>2, <2>3, <2>4, TypeParts
<1>. QED
  BY <1>1, <1>2, <1>3, <1>4 DEF Environment

LEMMA ExecuteFailedType ==
  ASSUME TypeOK, NEW w \in Runs, NEW r, ExecuteFailed(w, r)
  PROVE  TypeOK'
<1> USE TypeParts
<1>1. NodesOK' /\ r \in Rows
  BY SettleType DEF ExecuteFailed
<1>2. EffectsOK'
  BY <1>1, PerformType DEF ExecuteFailed, EffectsOK
<1>3. FaultsOK'
  BY FaultType DEF ExecuteFailed, FaultsOK
<1>4. RowsOK' /\ AgesOK' /\ TriggersOK'
  BY RowsKept, ClocksKept DEF ExecuteFailed
<1>. QED
  BY <1>1, <1>2, <1>3, <1>4

LEMMA ProgressType ==
  ASSUME TypeOK, NEW w \in Runs, Progress(w) PROVE TypeOK'
<1> USE TypeParts
<1>1. CASE Plan(w)
  <2>1. Batch \in SUBSET Rows
    BY DEF Batch, Page, Candidates
  <2>2. NodesOK' /\ AgesOK'
    BY <1>1, <2>1, EnterType, EndRunType, AgesKept DEF Plan
  <2>3. RowsOK' /\ EffectsOK' /\ TriggersOK' /\ FaultsOK'
    BY <1>1, RowsKept DEF Plan, EffectsOK, TriggersOK, FaultsOK
  <2>. QED
    BY <2>2, <2>3
<1>2. CASE Acquired(w)
  <2>1. items[w] \in SUBSET Rows
    BY DEF NodesOK
  <2>2. NodesOK'
    BY <1>2, <2>1, EnterType DEF Acquired
  <2>. QED
    BY <1>2, <2>2, RowsKept, ClocksKept DEF Acquired, EffectsOK, FaultsOK
<1>3. CASE Executed(w)
  <2>1. PICK first \in items[w] : Enter(w, "resolve", {first})
    BY <1>3 DEF Executed
  <2>2. {first} \in SUBSET Rows
    BY <2>1 DEF NodesOK
  <2>3. NodesOK'
    BY <2>1, <2>2, EnterType
  <2>. QED
    BY <1>3, <2>3, RowsKept, ClocksKept DEF Executed, EffectsOK, FaultsOK
<1>4. CASE Resolved(w)
  BY <1>4, EndRunType, RowsKept DEF Resolved, EffectsOK, TriggersOK, FaultsOK
<1>5. CASE RetryOrEnd(w)
  <2>1. NodesOK' /\ AgesOK'
    <3>1. CASE tries[w] < MaxTries
      <4>1. /\ todo' = [todo EXCEPT ![w] = items[w]]
            /\ failed' = [failed EXCEPT ![w] = FALSE]
            /\ tries' = [tries EXCEPT ![w] = @ + 1]
            /\ UNCHANGED <<phase, items, age, planAge>>
        BY <1>5, <3>1, BoundsNatural DEF RetryOrEnd, NodesOK
      <4>2. tries' \in [Runs -> 1..MaxTries]
        BY <4>1, <3>1, BoundsNatural DEF NodesOK
      <4>. QED
        BY <4>1, <4>2, AgesKept DEF NodesOK
    <3>2. CASE tries[w] = MaxTries
      BY <1>5, <3>2, BoundsNatural, EndRunType DEF RetryOrEnd
    <3>. QED
      BY <1>5, <3>1, <3>2 DEF RetryOrEnd
  <2>2. RowsOK' /\ EffectsOK' /\ TriggersOK' /\ FaultsOK'
    BY <1>5, RowsKept DEF RetryOrEnd, EffectsOK, TriggersOK, FaultsOK
  <2>. QED
    BY <2>1, <2>2
<1>6. ASSUME NEW r \in Rows, Acquire(w, r) PROVE TypeOK'
  BY <1>6, SettleType, LeaseType, ClocksKept DEF Acquire, EffectsOK, FaultsOK
<1>7. ASSUME NEW r \in Rows, Execute(w, r) PROVE TypeOK'
  BY <1>7, SettleType, PerformType, RowsKept, ClocksKept DEF Execute, FaultsOK
<1>8. ASSUME NEW r \in Rows, Resolve(w, r) PROVE TypeOK'
  BY <1>8, SettleType, ResolutionType, ClocksKept DEF Resolve, EffectsOK, FaultsOK
<1>9. ASSUME NEW r, ExecuteFailed(w, r) PROVE TypeOK'
  BY <1>9, ExecuteFailedType
<1>. QED
  BY <1>1, <1>2, <1>3, <1>4, <1>5, <1>6, <1>7, <1>8, <1>9 DEF Progress

LEMMA DisturbanceType ==
  ASSUME TypeOK, NEW w \in Runs, Disturbance(w) PROVE TypeOK'
<1> USE TypeParts
<1>1. CASE FetchFailed(w)
  <2>1. NodesOK' /\ AgesOK'
    <3>1. CASE tries[w] < MaxTries
      BY <1>1, <3>1, BoundsNatural, AgesKept DEF FetchFailed, NodesOK
    <3>2. CASE tries[w] = MaxTries
      BY <1>1, <3>2, BoundsNatural, EndRunType DEF FetchFailed
    <3>. QED
      BY <1>1, <3>1, <3>2 DEF FetchFailed
  <2>2. RowsOK' /\ EffectsOK' /\ TriggersOK' /\ FaultsOK'
    BY <1>1, RowsKept, FaultType DEF FetchFailed, EffectsOK, TriggersOK
  <2>. QED
    BY <2>1, <2>2
<1>2. CASE Crash(w)
  BY <1>2, EndRunType, RowsKept, FaultType DEF Crash, EffectsOK, TriggersOK
<1>3. ASSUME NEW r \in Rows, AcquireFailed(w, r) PROVE TypeOK'
  BY <1>3, SettleType, LeaseType, RowsKept, FaultType, ClocksKept
  DEF AcquireFailed, EffectsOK
<1>4. ASSUME NEW r \in Rows, ResolveFailed(w, r) PROVE TypeOK'
  BY <1>4, SettleType, ResolutionType, RowsKept, FaultType, ClocksKept
  DEF ResolveFailed, EffectsOK
<1>. QED
  BY <1>1, <1>2, <1>3, <1>4, ExecuteFailedType DEF Disturbance

\* Type correctness of the replay workflow, whatever the number of schedulers,
\* runs and rows.
THEOREM TypeCorrect == Spec => []TypeOK
<1>1. Init => TypeOK
  <2> SUFFICES ASSUME Init PROVE TypeOK
    OBVIOUS
  <2>1. RowsOK
    BY StagesKnown, TimesPositive DEF Init, RowsOK
  <2>2. EffectsOK
    BY DEF Init, EffectsOK, FirstEffects, Effects
  <2>3. NodesOK /\ AgesOK /\ TriggersOK /\ FaultsOK
    BY BoundsNatural, TimesPositive DEF Init, NodesOK, AgesOK, TriggersOK, FaultsOK
  <2>. QED
    BY <2>1, <2>2, <2>3, TypeParts
<1>2. TypeOK /\ [Next]_vars => TypeOK'
  <2> SUFFICES ASSUME TypeOK, [Next]_vars PROVE TypeOK'
    OBVIOUS
  <2>1. ASSUME NEW s \in Schedulers, NEW w \in Runs, Trigger(s, w) PROVE TypeOK'
    <3>1. NodesOK'
      BY <2>1, EnterType, TypeParts DEF Trigger
    <3>2. TriggersOK'
      BY <2>1, TimesPositive DEF TypeOK, Trigger, TriggersOK
    <3>. QED
      BY <2>1, <3>1, <3>2, RowsKept, AgesKept, TypeParts DEF Trigger, EffectsOK, FaultsOK
  <2>2. CASE UNCHANGED vars
    BY <2>2, RowsKept, NodesKept, ClocksKept, TypeParts DEF vars, EffectsOK, FaultsOK
  <2>. QED
    BY <2>1, <2>2, EnvironmentType, ProgressType, DisturbanceType DEF Next
<1>. QED
  BY <1>1, <1>2, PTL DEF Spec

-----------------------------------------------------------------------------
(* Published *)

\* What the runs know of the side effects: a confirmed item is published.
ConfirmedPublished ==
  \A w \in Runs : \A r \in items[w] :
    /\ phase[w] = "execute" /\ ~failed[w] /\ r \notin todo[w] => effects[r] = Effects
    /\ phase[w] = "resolve" => effects[r] = Effects

PublishInv == ResolvedIsPublished /\ ConfirmedPublished

\* A published row stays published.
LEMMA EffectsGrow ==
  ASSUME TypeOK, [Next]_vars, NEW r \in Rows, effects[r] = Effects
  PROVE  effects'[r] = Effects
<1>1. ASSUME NEW q, NEW k, PerformSteps(q, k) PROVE effects'[r] = Effects
  BY <1>1 DEF TypeOK, PerformSteps, Ensured, Effects, FailureStages
<1>2. CASE UNCHANGED effects
  BY <1>2
<1>. QED
  BY <1>1, <1>2 DEF Next, Environment, Progress, Disturbance, Trigger, Capture,
     RetryDue, Abandon, Tick, Plan, Acquired, Executed, Resolved, RetryOrEnd,
     Acquire, Execute, Resolve, FetchFailed, Crash, AcquireFailed, ExecuteFailed,
     ResolveFailed, vars

\* A replay that runs to its end leaves the row published.
LEMMA ExecutePublishes ==
  ASSUME TypeOK, NEW w \in Runs, NEW r \in Rows, Execute(w, r)
  PROVE  effects'[r] = Effects
<1>1. FirstEffects(3) = Effects
  BY DEF FirstEffects
<1>2. Verified(failure_stage[r]) \subseteq effects[r]
  BY <1>1 DEF Execute, PerformSteps, Verified, Effects
<1>3. effects'[r] = effects[r] \union Ensured(failure_stage[r])
  BY <1>1 DEF TypeOK, Execute, PerformSteps, Ensured, Effects, FailureStages
<1>4. effects'[r] \subseteq Effects
  BY <1>3 DEF TypeOK, Ensured, Effects, FailureStages
<1>. QED
  BY <1>2, <1>3, <1>4 DEF Verified

LEMMA PublishStep ==
  ASSUME TypeOK, PublishInv, [Next]_vars PROVE PublishInv'
<1> USE DEF PublishInv
<1>1. ResolvedIsPublished'
  <2> SUFFICES ASSUME NEW r \in Rows, status'[r] = "resolved"
               PROVE  effects'[r] = Effects
    BY DEF ResolvedIsPublished
  <2>1. CASE status[r] = "resolved"
    BY <2>1, EffectsGrow DEF ResolvedIsPublished
  <2>2. CASE status[r] # "resolved"
    <3>1. PICK w \in Runs : Resolve(w, r) \/ ResolveFailed(w, r)
      BY <2>2 DEF TypeOK, Next, Environment, Progress, Disturbance, Trigger,
         Capture, RetryDue, Abandon, Tick, Plan, Acquired, Executed, Resolved,
         RetryOrEnd, Acquire, Execute, Resolve, FetchFailed, Crash, AcquireFailed,
         ExecuteFailed, ResolveFailed, WriteLease, WriteResolution, vars, rowVars
    <3>2. phase[w] = "resolve" /\ r \in items[w]
      BY <3>1 DEF TypeOK, Resolve, ResolveFailed, Settle, SettleFailed
    <3>. QED
      BY <3>2, EffectsGrow DEF ConfirmedPublished
  <2>. QED
    BY <2>1, <2>2
<1>2. ConfirmedPublished'
  <2> SUFFICES ASSUME NEW w \in Runs, NEW r \in items'[w]
               PROVE  /\ phase'[w] = "execute" /\ ~failed'[w] /\ r \notin todo'[w]
                           => effects'[r] = Effects
                      /\ phase'[w] = "resolve" => effects'[r] = Effects
    BY DEF ConfirmedPublished
  <2> DEFINE Same == /\ phase'[w] = phase[w] /\ items'[w] = items[w]
                     /\ todo'[w] = todo[w] /\ failed'[w] = failed[w]
  <2>1. CASE Same
    <3>1. r \in items[w] /\ r \in Rows
      BY <2>1 DEF TypeOK
    <3>. QED
      BY <2>1, <3>1, EffectsGrow DEF ConfirmedPublished
  <2>2. ASSUME NEW v \in Runs, NEW p, NEW S, Enter(v, p, S), ~Same
        PROVE  v = w /\ phase'[w] = p /\ items'[w] = S /\ todo'[w] = S
    BY <2>2 DEF TypeOK, Enter
  <2>3. ASSUME NEW v \in Runs, NEW p \in {"idle", "fetch", "acquire"}, NEW S,
               Enter(v, p, S)
        PROVE  Same \/ phase'[w] \in {"idle", "fetch", "acquire"}
    BY <2>3, <2>2
  <2>4. ASSUME NEW v \in Runs, EndRun(v)
        PROVE  Same \/ phase'[w] \in {"idle", "fetch", "acquire"}
    BY <2>4, <2>3 DEF EndRun
  <2>5. CASE phase'[w] \in {"idle", "fetch", "acquire"}
    BY <2>5
  <2>6. ASSUME NEW v \in Runs, Acquired(v)
        PROVE  Same \/ (phase'[w] = "execute" /\ r \in todo'[w])
    <3>1. Enter(v, "execute", items[v])
      BY <2>6 DEF Acquired
    <3>2. CASE ~Same
      BY <3>1, <3>2 DEF TypeOK, Enter
    <3>. QED
      BY <3>2
  <2>7. ASSUME NEW v \in Runs, Executed(v), ~Same
        PROVE  effects'[r] = Effects
    <3>1. PICK first \in items[v] : Enter(v, "resolve", {first})
      BY <2>7 DEF Executed
    <3>2. v = w /\ r = first
      BY <2>7, <2>2, <3>1
    <3>3. r \in Rows /\ effects[r] = Effects
      BY <2>7, <3>1, <3>2 DEF TypeOK, Executed, NodeSucceeded, ConfirmedPublished
    <3>. QED
      BY <3>3, EffectsGrow
  <2>8. ASSUME NEW v \in Runs, RetryOrEnd(v), ~Same
        PROVE  \/ phase'[w] \in {"idle", "fetch", "acquire"}
               \/ r \in todo'[w] /\ phase'[w] = phase[w] /\ items'[w] = items[w]
    <3>1. CASE EndRun(v)
      BY <2>8, <2>4, <3>1
    <3>2. CASE ~EndRun(v)
      BY <2>8, <3>2 DEF TypeOK, RetryOrEnd
    <3>. QED
      BY <3>1, <3>2
  <2>9. ASSUME NEW v \in Runs, NEW q, Settle(v, q), ~Same
        PROVE  /\ v = w /\ r \in items[w] /\ phase'[w] = phase[w]
               /\ failed'[w] = failed[w]
               /\ r \notin todo'[w] => r = q \/ r \notin todo[w]
    BY <2>9 DEF TypeOK, Settle
  <2>10. ASSUME NEW v \in Runs, NEW q, SettleFailed(v, q), ~Same
        PROVE  r \in items[w] /\ phase'[w] = phase[w] /\ failed'[w]
    BY <2>10 DEF TypeOK, SettleFailed
  <2>11. r \in items[w] => r \in Rows
    BY DEF TypeOK
  <2>12. CASE \E v \in Runs, q \in Rows : Execute(v, q)
    <3>1. PICK v \in Runs, q \in Rows : Execute(v, q)
      BY <2>12
    <3>2. effects'[q] = Effects
      BY <3>1, ExecutePublishes
    <3>3. Settle(v, q) /\ phase[v] = "execute"
      BY <3>1 DEF Execute
    <3>4. CASE ~Same
      BY <3>2, <3>3, <3>4, <2>9, <2>11, EffectsGrow DEF ConfirmedPublished
    <3>. QED
      BY <2>1, <3>4
  <2>13. CASE \E v \in Runs, q \in Rows : Acquire(v, q) \/ Resolve(v, q)
    <3>1. PICK v \in Runs, q \in Rows : Acquire(v, q) \/ Resolve(v, q)
      BY <2>13
    <3>2. Settle(v, q) /\ phase[v] \in {"acquire", "resolve"}
      BY <3>1 DEF Acquire, Resolve
    <3>3. CASE ~Same
      BY <3>2, <3>3, <2>9, <2>11, EffectsGrow DEF ConfirmedPublished
    <3>. QED
      BY <2>1, <3>3
  <2>14. CASE \E v \in Runs, q \in Rows \union Poison :
                AcquireFailed(v, q) \/ ExecuteFailed(v, q) \/ ResolveFailed(v, q)
    <3>1. PICK v \in Runs, q \in Rows \union Poison : SettleFailed(v, q)
      BY <2>14 DEF AcquireFailed, ExecuteFailed, ResolveFailed
    <3>2. CASE ~Same
      BY <3>1, <3>2, <2>10, <2>11, EffectsGrow DEF ConfirmedPublished
    <3>. QED
      BY <2>1, <3>2
  <2>15. CASE \E v \in Runs : RetryOrEnd(v)
    <3>1. CASE ~Same
      BY <2>15, <3>1, <2>5, <2>8, <2>11, EffectsGrow DEF ConfirmedPublished
    <3>. QED
      BY <2>1, <3>1
  <2>16. CASE \E v \in Runs : Acquired(v) \/ Executed(v)
    BY <2>16, <2>1, <2>6, <2>7
  <2>17. CASE \E v \in Runs : \/ Plan(v) \/ Resolved(v) \/ Crash(v)
                              \/ \E s \in Schedulers : Trigger(s, v)
    BY <2>17, <2>1, <2>3, <2>4, <2>5 DEF Plan, Resolved, Crash, Trigger
  <2>18. ASSUME NEW v \in Runs, FetchFailed(v) PROVE Same \/ EndRun(v)
    BY <2>18 DEF FetchFailed
  <2>19. CASE Environment \/ UNCHANGED vars
    <3>1. Same
      BY <2>19 DEF Environment, Tick, Capture, RetryDue, Abandon, vars, nodeVars
    <3>. QED
      BY <3>1, <2>1
  <2>. QED
    BY <2>1, <2>4, <2>5, <2>12, <2>13, <2>14, <2>15, <2>16, <2>17, <2>18, <2>19
    DEF Next, Progress, Disturbance
<1>. QED
  BY <1>1, <1>2

\* Whatever the number of schedulers, a resolved row's check-in, post and event
\* exist.
THEOREM PublishedBeforeResolved == Spec => []ResolvedIsPublished
<1>1. Init => PublishInv
  BY DEF Init, PublishInv, ResolvedIsPublished, ConfirmedPublished
<1>2. TypeOK /\ PublishInv /\ [Next]_vars => PublishInv'
  BY PublishStep
<1>3. PublishInv => ResolvedIsPublished
  BY DEF PublishInv
<1>. QED
  BY <1>1, <1>2, <1>3, TypeCorrect, PTL DEF Spec

OneScheduler == \A s, t \in Schedulers : s = t

\* At most one run is alive, and the schedule is no older than it.
SoleRun ==
  \A v \in Runs : phase[v] # "idle" =>
    /\ \A w \in Runs : phase[w] # "idle" => v = w
    /\ \A s \in Schedulers : sinceTrigger[s] <= age[v]

\* Row r carries the lease run w wrote, as old as w's plan, or was given up.
Held(w, r) ==
  \/ status[r] = "abandoned"
  \/ status[r] = "replaying" /\ replay_owner[r] = w /\ leaseAge[r] = planAge[w]

\* What a run knows of one of its items at each node.
ItemHeld(w, r) ==
  /\ phase[w] \in {"acquire", "execute", "resolve"}
  /\ phase[w] = "acquire" =>
       /\ \/ Held(w, r)
          \/ status[r] = "pending"
          \/ status[r] = "replaying" /\ LeaseExpired(r)
       /\ r \notin todo[w] /\ ~failed[w] => Held(w, r)
  /\ phase[w] = "execute" => Held(w, r)
  /\ phase[w] = "resolve" => Held(w, r) \/ status[r] = "resolved"

ItemsHeld == \A w \in Runs : \A r \in items[w] : ItemHeld(w, r)

LeaseInv == SoleRun /\ ItemsHeld

-----------------------------------------------------------------------------
LEMMA SoleRunStep ==
  ASSUME OneScheduler, TypeOK, SoleRun, [Next]_vars PROVE SoleRun'
<1>1. ASSUME NEW v \in Runs, NEW p, NEW S, Enter(v, p, S), phase[v] # "idle",
             UNCHANGED <<age, sinceTrigger>>
      PROVE  SoleRun'
  BY <1>1 DEF TypeOK, SoleRun, Enter
<1>2. ASSUME NEW v \in Runs, EndRun(v), UNCHANGED sinceTrigger
      PROVE  SoleRun'
  BY <1>2 DEF TypeOK, SoleRun, EndRun, Enter
<1>3. ASSUME UNCHANGED <<phase, age, sinceTrigger>> PROVE SoleRun'
  BY <1>3 DEF SoleRun
<1>4. ASSUME NEW s \in Schedulers, NEW v \in Runs, Trigger(s, v) PROVE SoleRun'
  <2>1. \A w \in Runs : phase[w] = "idle"
    <3> SUFFICES ASSUME NEW w \in Runs, phase[w] # "idle" PROVE FALSE
      OBVIOUS
    <3>1. sinceTrigger[s] <= age[w] /\ age[w] \in 0..RunTicks
      BY DEF SoleRun, TypeOK
    <3>2. sinceTrigger[s] = IntervalTicks
      BY <1>4 DEF Trigger
    <3>. QED
      BY <3>1, <3>2, RunShorterThanInterval, TimesPositive
  <2>2. \A t \in Schedulers : sinceTrigger'[t] = 0
    BY <1>4 DEF OneScheduler, TypeOK, Trigger
  <2>. QED
    BY <1>4, <2>1, <2>2 DEF SoleRun, TypeOK, Trigger, Enter
<1>5. ASSUME Tick PROVE SoleRun'
  BY <1>5, TimesPositive DEF TypeOK, SoleRun, Tick, Older, nodeVars
<1>6. CASE Environment \/ UNCHANGED vars
  BY <1>6, <1>3, <1>5 DEF Environment, Capture, RetryDue, Abandon, vars, nodeVars, clocks
<1>7. ASSUME NEW w \in Runs, Progress(w) PROVE SoleRun'
  BY <1>7, <1>1, <1>2, <1>3 DEF Progress, Plan, Acquired, Executed, Resolved,
     RetryOrEnd, Acquire, Execute, Resolve, ExecuteFailed, Settle, SettleFailed, clocks
<1>8. ASSUME NEW w \in Runs, Disturbance(w) PROVE SoleRun'
  BY <1>8, <1>2, <1>3 DEF Disturbance, FetchFailed, Crash, AcquireFailed,
     ExecuteFailed, ResolveFailed, SettleFailed, clocks
<1>. QED
  BY <1>4, <1>6, <1>7, <1>8 DEF Next

\* An operator, or the capture of another row, does not take a lease away.
LEMMA HeldKept ==
  ASSUME TypeOK, NEW w \in Runs, NEW r \in Rows, ItemHeld(w, r),
         UNCHANGED nodeVars, UNCHANGED <<age, planAge>>,
         \/ UNCHANGED rowVars
         \/ \E q \in Rows : Capture(q) \/ RetryDue(q) \/ Abandon(q)
  PROVE  ItemHeld(w, r)'
<1> USE DEF ItemHeld, Held, LeaseExpired, nodeVars
<1>1. CASE UNCHANGED rowVars
  BY <1>1 DEF rowVars
<1>2. ASSUME NEW q \in Rows, Capture(q) PROVE ItemHeld(w, r)'
  BY <1>2 DEF TypeOK, Capture
<1>3. ASSUME NEW q \in Rows, RetryDue(q) PROVE ItemHeld(w, r)'
  BY <1>3 DEF RetryDue
<1>4. ASSUME NEW q \in Rows, Abandon(q) PROVE ItemHeld(w, r)'
  BY <1>4 DEF TypeOK, Abandon
<1>. QED
  BY <1>1, <1>2, <1>3, <1>4

\* A lease and the plan it was written for grow old together.
LEMMA HeldTick ==
  ASSUME TypeOK, NEW w \in Runs, NEW r \in Rows, ItemHeld(w, r), Tick
  PROVE  ItemHeld(w, r)'
<1>1. /\ age[w] < RunTicks /\ planAge[w] <= age[w]
      /\ planAge[w] \in Nat /\ age[w] \in Nat /\ leaseAge[r] \in Nat
      /\ planAge'[w] = planAge[w] + 1
      /\ leaseAge'[r] = IF leaseAge[r] < LeaseTicks THEN leaseAge[r] + 1 ELSE leaseAge[r]
  BY TimesPositive DEF TypeOK, ItemHeld, Tick, Older
<1>2. Held(w, r) => Held(w, r)'
  BY <1>1, RunShorterThanLease, TimesPositive DEF Held, Tick
<1>3. LeaseExpired(r) => LeaseExpired(r)'
  BY <1>1, TimesPositive DEF LeaseExpired
<1>. QED
  BY <1>2, <1>3 DEF ItemHeld, Tick, nodeVars

LEMMA ItemsHeldStep ==
  ASSUME TypeOK, LeaseInv, [Next]_vars PROVE ItemsHeld'
<1> USE DEF LeaseInv
<1> SUFFICES ASSUME NEW w \in Runs, NEW r \in items'[w] PROVE ItemHeld(w, r)'
  BY DEF ItemsHeld
<1> DEFINE Same == /\ phase'[w] = phase[w] /\ items'[w] = items[w]
                   /\ todo'[w] = todo[w] /\ failed'[w] = failed[w]
                   /\ planAge'[w] = planAge[w]
<1>1. r \in items[w] => r \in Rows /\ ItemHeld(w, r)
  BY DEF TypeOK, ItemsHeld
<1>2. CASE Environment \/ UNCHANGED vars
  <2>1. r \in items[w]
    BY <1>2 DEF Environment, Tick, Capture, RetryDue, Abandon, vars, nodeVars
  <2>. QED
    BY <1>2, <1>1, <2>1, HeldKept, HeldTick
    DEF Environment, Capture, RetryDue, Abandon, vars, clocks
<1>3. CASE Same /\ UNCHANGED rowVars
  BY <1>1, <1>3 DEF ItemHeld, Held, LeaseExpired, rowVars
<1>4. ASSUME NEW v \in Runs, NEW p, Enter(v, p, {}), UNCHANGED rowVars,
             v # w => planAge'[w] = planAge[w]
      PROVE  ItemHeld(w, r)'
  <2>1. v # w /\ Same
    BY <1>4 DEF TypeOK, Enter
  <2>. QED
    BY <1>4, <2>1, <1>3
<1>5. ASSUME NEW v \in Runs, EndRun(v), UNCHANGED rowVars PROVE ItemHeld(w, r)'
  <2>1. v # w => planAge'[w] = planAge[w]
    BY <1>5 DEF TypeOK, EndRun
  <2>. QED
    BY <1>5, <2>1, <1>4 DEF EndRun
<1>6. ASSUME NEW s \in Schedulers, NEW v \in Runs, Trigger(s, v)
      PROVE  ItemHeld(w, r)'
  BY <1>6, <1>4 DEF Trigger
<1>7. ASSUME NEW v \in Runs, Plan(v) PROVE ItemHeld(w, r)'
  <2>1. CASE Batch = {}
    BY <1>7, <2>1, <1>5 DEF Plan
  <2>2. CASE Batch # {} /\ v = w
    <3>1. phase'[w] = "acquire" /\ items'[w] = Batch /\ todo'[w] = Batch
      BY <1>7, <2>2 DEF TypeOK, Plan, Enter
    <3>2. status[r] = "pending" \/ (status[r] = "replaying" /\ LeaseExpired(r))
      BY <3>1 DEF Batch, Page, Candidates, Plannable
    <3>. QED
      BY <1>7, <3>1, <3>2 DEF ItemHeld, LeaseExpired, Plan, rowVars
  <2>3. CASE Batch # {} /\ v # w
    <3>1. Same /\ UNCHANGED rowVars
      BY <1>7, <2>3 DEF TypeOK, Plan, Enter
    <3>. QED
      BY <3>1, <1>3
  <2>. QED
    BY <2>1, <2>2, <2>3
<1>8. ASSUME NEW v \in Runs, Acquired(v) PROVE ItemHeld(w, r)'
  <2>1. CASE v = w
    <3>1. r \in items[w] /\ phase'[w] = "execute" /\ phase[w] = "acquire"
      BY <1>8, <2>1 DEF TypeOK, Acquired, Enter
    <3>2. Held(w, r)
      BY <1>8, <2>1, <3>1, <1>1 DEF ItemHeld, Acquired, NodeSucceeded
    <3>. QED
      BY <1>8, <3>1, <3>2 DEF ItemHeld, Held, Acquired, rowVars, clocks
  <2>2. CASE v # w
    <3>1. Same /\ UNCHANGED rowVars
      BY <1>8, <2>2 DEF TypeOK, Acquired, Enter, clocks
    <3>. QED
      BY <3>1, <1>3
  <2>. QED
    BY <2>1, <2>2
<1>9. ASSUME NEW v \in Runs, Executed(v) PROVE ItemHeld(w, r)'
  <2>1. PICK first \in items[v] : Enter(v, "resolve", {first})
    BY <1>9 DEF Executed
  <2>2. CASE v = w
    <3>1. r \in items[w] /\ phase'[w] = "resolve" /\ phase[w] = "execute"
      BY <1>9, <2>1, <2>2 DEF TypeOK, Executed, Enter
    <3>2. Held(w, r)
      BY <3>1, <1>1 DEF ItemHeld
    <3>. QED
      BY <1>9, <3>1, <3>2 DEF ItemHeld, Held, Executed, rowVars, clocks
  <2>3. CASE v # w
    <3>1. Same /\ UNCHANGED rowVars
      BY <1>9, <2>1, <2>3 DEF TypeOK, Executed, Enter, clocks
    <3>. QED
      BY <3>1, <1>3
  <2>. QED
    BY <2>2, <2>3
<1>10. ASSUME NEW v \in Runs, RetryOrEnd(v) PROVE ItemHeld(w, r)'
  <2>1. CASE EndRun(v)
    BY <1>10, <2>1, <1>5 DEF RetryOrEnd
  <2>2. CASE ~EndRun(v)
    <3>1. r \in items[w] /\ phase'[w] = phase[w] /\ planAge'[w] = planAge[w]
      BY <1>10, <2>2 DEF RetryOrEnd
    <3>2. r \notin todo'[w] => r \notin todo[w] /\ failed'[w] = failed[w]
      BY <1>10, <2>2, <3>1 DEF TypeOK, RetryOrEnd
    <3>. QED
      BY <1>10, <3>1, <3>2, <1>1 DEF ItemHeld, Held, LeaseExpired, RetryOrEnd, rowVars
  <2>. QED
    BY <2>1, <2>2
<1>11. ASSUME NEW v \in Runs, NEW q, Settle(v, q) \/ SettleFailed(v, q), UNCHANGED clocks
       PROVE  /\ r \in items[w] /\ phase'[w] = phase[w] /\ planAge'[w] = planAge[w]
              /\ v # w => Same
              /\ ~failed'[w] => ~failed[w]
              /\ r \notin todo'[w] =>
                   \/ r \notin todo[w]
                   \/ v = w /\ r = q
              /\ v = w /\ SettleFailed(v, q) => failed'[w]
  BY <1>11 DEF TypeOK, Settle, SettleFailed, clocks
<1>12. ASSUME NEW v \in Runs, NEW q, Settle(v, q) \/ SettleFailed(v, q),
              UNCHANGED clocks, phase[v] # "acquire" \/ SettleFailed(v, q),
              UNCHANGED rowVars
       PROVE  ItemHeld(w, r)'
  BY <1>12, <1>11, <1>1, <1>3 DEF ItemHeld, Held, LeaseExpired, rowVars
<1>13. ASSUME NEW v \in Runs, NEW q, phase[v] # "idle", r \in items[w]
       PROVE  v = w
  BY <1>13, <1>1 DEF SoleRun, ItemHeld
<1>14. ASSUME NEW v \in Runs, NEW q \in Rows, phase[v] = "acquire", WriteLease(v, q),
              Settle(v, q) \/ SettleFailed(v, q), UNCHANGED clocks
       PROVE  ItemHeld(w, r)'
  <2>1. v = w /\ r \in items[w] /\ phase'[w] = "acquire" /\ planAge'[w] = planAge[w]
    BY <1>14, <1>11, <1>13
  <2>2. CASE r = q
    <3>1. Held(w, r)'
      BY <1>14, <2>1, <2>2 DEF TypeOK, Held, WriteLease
    <3>. QED
      BY <2>1, <3>1 DEF ItemHeld
  <2>3. CASE r # q
    <3>1. r \in Rows /\ ItemHeld(w, r)
      BY <2>1, <1>1
    <3>2. /\ status'[r] = status[r] /\ replay_owner'[r] = replay_owner[r]
          /\ leaseAge'[r] = leaseAge[r]
      BY <1>14, <2>3, <3>1 DEF TypeOK, WriteLease
    <3>. QED
      BY <1>14, <1>11, <2>1, <2>3, <3>1, <3>2 DEF ItemHeld, Held, LeaseExpired
  <2>. QED
    BY <2>2, <2>3
<1>15. ASSUME NEW v \in Runs, NEW q \in Rows, phase[v] = "resolve", WriteResolution(q),
              Settle(v, q) \/ SettleFailed(v, q), UNCHANGED clocks
       PROVE  ItemHeld(w, r)'
  <2>1. v = w /\ r \in items[w] /\ phase'[w] = "resolve" /\ planAge'[w] = planAge[w]
    BY <1>15, <1>11, <1>13
  <2>2. r \in Rows /\ (Held(w, r) \/ status[r] = "resolved")
    BY <1>15, <2>1, <1>1 DEF ItemHeld
  <2>3. Held(w, r)' \/ status'[r] = "resolved"
    BY <1>15, <2>1, <2>2 DEF TypeOK, Held, WriteResolution
  <2>. QED
    BY <2>1, <2>3 DEF ItemHeld
<1>16. ASSUME NEW v \in Runs, Progress(v) PROVE ItemHeld(w, r)'
  <2>1. CASE Resolved(v)
    BY <2>1, <1>5 DEF Resolved
  <2>2. ASSUME NEW q \in Rows, Acquire(v, q) PROVE ItemHeld(w, r)'
    BY <2>2, <1>14 DEF Acquire
  <2>3. ASSUME NEW q \in Rows, Execute(v, q) PROVE ItemHeld(w, r)'
    BY <2>3, <1>12 DEF Execute
  <2>4. ASSUME NEW q \in Rows, Resolve(v, q) PROVE ItemHeld(w, r)'
    BY <2>4, <1>15 DEF Resolve
  <2>5. ASSUME NEW q, ExecuteFailed(v, q) PROVE ItemHeld(w, r)'
    BY <2>5, <1>12 DEF ExecuteFailed
  <2>. QED
    BY <1>16, <1>7, <1>8, <1>9, <1>10, <2>1, <2>2, <2>3, <2>4, <2>5 DEF Progress
<1>17. ASSUME NEW v \in Runs, Disturbance(v) PROVE ItemHeld(w, r)'
  <2>1. CASE FetchFailed(v)
    <3>1. CASE EndRun(v)
      BY <2>1, <3>1, <1>5 DEF FetchFailed
    <3>2. CASE ~EndRun(v)
      BY <2>1, <3>2, <1>3 DEF FetchFailed
    <3>. QED
      BY <3>1, <3>2
  <2>2. CASE Crash(v)
    BY <2>2, <1>5 DEF Crash
  <2>3. ASSUME NEW q \in Rows, AcquireFailed(v, q) PROVE ItemHeld(w, r)'
    BY <2>3, <1>12, <1>14 DEF AcquireFailed
  <2>4. ASSUME NEW q \in Rows, ExecuteFailed(v, q) PROVE ItemHeld(w, r)'
    BY <2>4, <1>12 DEF ExecuteFailed
  <2>5. ASSUME NEW q \in Rows, ResolveFailed(v, q) PROVE ItemHeld(w, r)'
    BY <2>5, <1>12, <1>15 DEF ResolveFailed
  <2>. QED
    BY <1>17, <2>1, <2>2, <2>3, <2>4, <2>5 DEF Disturbance
<1>. QED
  BY <1>2, <1>6, <1>16, <1>17 DEF Next

-----------------------------------------------------------------------------
(* The theorems *)

LEMMA LeaseInvariant ==
  ASSUME OneScheduler PROVE Spec => []LeaseInv
<1>1. Init => LeaseInv
  BY DEF Init, LeaseInv, SoleRun, ItemsHeld
<1>2. TypeOK /\ LeaseInv /\ [Next]_vars => LeaseInv'
  BY SoleRunStep, ItemsHeldStep DEF LeaseInv
<1>. QED
  BY <1>1, <1>2, TypeCorrect, PTL DEF Spec

\* With one scheduler the endpoint is asked to replay a row only under an
\* unexpired lease of the asking run, or when an operator gave the row up.
THEOREM ReplaysUnderLease ==
  ASSUME OneScheduler PROVE Spec => []ReplayUnderLease
<1>1. TypeOK /\ LeaseInv => ReplayUnderLease
  <2> SUFFICES ASSUME TypeOK, LeaseInv, NEW w \in Runs, phase[w] = "execute",
                      NEW r \in items[w], status[r] # "abandoned"
               PROVE  status[r] = "replaying" /\ replay_owner[r] = w /\ ~LeaseExpired(r)
    BY DEF ReplayUnderLease
  <2>1. status[r] = "replaying" /\ replay_owner[r] = w /\ leaseAge[r] = planAge[w]
    BY DEF LeaseInv, ItemsHeld, ItemHeld, Held
  <2>2. planAge[w] < LeaseTicks
    BY RunShorterThanLease, TimesPositive DEF TypeOK
  <2>. QED
    BY <2>1, <2>2, TimesPositive DEF LeaseExpired, TypeOK
<1>. QED
  BY <1>1, TypeCorrect, LeaseInvariant, PTL

\* Only the requests of a live run write to a row that is being replayed or is
\* resolved, and they find it as the run planned it.
LEMMA LeaseWrites ==
  ASSUME TypeOK, LeaseInv, [Next]_vars, NEW r \in Rows,
         status[r] = "resolved" \/ (status[r] = "replaying" /\ ~LeaseExpired(r))
  PROVE  /\ replay_owner'[r] = replay_owner[r]
         /\ status[r] = "resolved" => status'[r] = "resolved"
<1>1. CASE UNCHANGED <<status, replay_owner>>
  BY <1>1
<1>2. ASSUME NEW q \in Rows, Capture(q) \/ Abandon(q) \/ WriteResolution(q)
      PROVE  /\ replay_owner'[r] = replay_owner[r]
             /\ status[r] = "resolved" => status'[r] = "resolved"
  BY <1>2 DEF TypeOK, Capture, Abandon, WriteResolution
<1>3. ASSUME NEW w \in Runs, NEW q \in Rows, phase[w] = "acquire", q \in items[w],
             WriteLease(w, q)
      PROVE  /\ replay_owner'[r] = replay_owner[r]
             /\ status[r] = "resolved" => status'[r] = "resolved"
  <2>1. CASE q = r
    <3>1. Held(w, r) /\ status[r] = "replaying"
      BY <1>3, <2>1 DEF LeaseInv, ItemsHeld, ItemHeld, Held
    <3>. QED
      BY <1>3, <2>1, <3>1 DEF TypeOK, Held, WriteLease
  <2>2. CASE q # r
    BY <1>3, <2>2 DEF TypeOK, WriteLease
  <2>. QED
    BY <2>1, <2>2
<1>4. ASSUME NEW w \in Runs, NEW q \in Rows, Acquire(w, q) \/ AcquireFailed(w, q)
      PROVE  UNCHANGED rowVars \/ (phase[w] = "acquire" /\ q \in items[w] /\ WriteLease(w, q))
  BY <1>4 DEF TypeOK, Acquire, AcquireFailed, Settle, SettleFailed
<1>. QED
  BY <1>1, <1>2, <1>3, <1>4
  DEF Next, Environment, Progress, Disturbance, Trigger, RetryDue, Tick, Plan,
      Acquired, Executed, Resolved, RetryOrEnd, Execute, Resolve, FetchFailed, Crash,
      ExecuteFailed, ResolveFailed, vars, rowVars

\* With one scheduler an active lease is never taken over.
THEOREM ActiveLeaseKept ==
  ASSUME OneScheduler PROVE Spec => LeaseExclusive
<1>1. TypeOK /\ LeaseInv /\ [Next]_vars =>
        [\A r \in Rows : status[r] = "replaying" /\ ~LeaseExpired(r) =>
            replay_owner'[r] = replay_owner[r]]_vars
  BY LeaseWrites
<1>. QED
  BY <1>1, TypeCorrect, LeaseInvariant, PTL DEF Spec, LeaseExclusive

\* With one scheduler a resolved row stays resolved.
THEOREM ResolvedForGood ==
  ASSUME OneScheduler PROVE Spec => ResolutionIsFinal
<1>1. TypeOK /\ LeaseInv /\ [Next]_vars =>
        [\A r \in Rows : status[r] = "resolved" => status'[r] = "resolved"]_vars
  BY LeaseWrites
<1>. QED
  BY <1>1, TypeCorrect, LeaseInvariant, PTL DEF Spec, ResolutionIsFinal

-----------------------------------------------------------------------------
(* The workflow implements the promise of the queue *)

LEMMA LifecycleStep ==
  ASSUME TypeOK, LeaseInv, PublishInv, [Next]_vars
  PROVE  [Lifecycle!Next]_(Lifecycle!vars)
<1> DEFINE pub == [r \in Rows |-> effects[r] = Effects]
<1> USE DEF Lifecycle!Next, Lifecycle!vars, Lifecycle!Move
<1>1. CASE UNCHANGED <<status, effects>>
  <2>1. UNCHANGED <<status, pub>>
    BY <1>1
  <2>. QED
    BY <2>1
<1>2. ASSUME NEW q \in Rows, Capture(q) \/ Abandon(q)
      PROVE  Lifecycle!Record(q) \/ Lifecycle!GiveUp(q)
  <2>1. pub' = pub
    BY <1>2 DEF Capture, Abandon
  <2>. QED
    BY <1>2, <2>1 DEF Capture, Abandon, Lifecycle!Record, Lifecycle!GiveUp
<1>3. ASSUME NEW w \in Runs, NEW q \in Rows, phase[w] = "acquire", q \in items[w],
             WriteLease(w, q), UNCHANGED effects
      PROVE  Lifecycle!Lease(q)
  <2>1. status[q] \in {"pending", "replaying", "abandoned"}
    BY <1>3 DEF LeaseInv, ItemsHeld, ItemHeld, Held
  <2>2. pub' = pub
    BY <1>3
  <2>. QED
    BY <1>3, <2>1, <2>2 DEF WriteLease, Lifecycle!Lease
<1>4. ASSUME NEW w \in Runs, NEW q \in Rows, phase[w] = "execute", q \in items[w],
             NEW k, PerformSteps(q, k), UNCHANGED status
      PROVE  Lifecycle!Publish(q) \/ UNCHANGED <<status, pub>>
  <2>1. status[q] \in {"replaying", "abandoned"}
    BY <1>4 DEF LeaseInv, ItemsHeld, ItemHeld, Held
  <2>2. \A r \in Rows : r # q => effects'[r] = effects[r]
    BY <1>4 DEF TypeOK, PerformSteps
  <2>3. effects[q] \subseteq effects'[q] /\ effects'[q] \subseteq Effects
    BY <1>4 DEF TypeOK, PerformSteps, Ensured, Effects, FailureStages
  <2>4. CASE effects'[q] = Effects
    <3>1. pub' = [pub EXCEPT ![q] = TRUE]
      BY <2>2, <2>4
    <3>. QED
      BY <1>4, <2>1, <3>1 DEF Lifecycle!Publish
  <2>5. CASE effects'[q] # Effects
    <3>1. effects[q] # Effects
      BY <2>3, <2>5
    <3>2. pub' = pub
      BY <2>2, <2>5, <3>1
    <3>. QED
      BY <1>4, <3>2
  <2>. QED
    BY <2>4, <2>5
<1>5. ASSUME NEW w \in Runs, NEW q \in Rows, phase[w] = "resolve", q \in items[w],
             WriteResolution(q), UNCHANGED effects
      PROVE  Lifecycle!Resolve(q) \/ UNCHANGED <<status, pub>>
  <2>1. pub' = pub
    BY <1>5
  <2>2. pub[q]
    BY <1>5 DEF PublishInv, ConfirmedPublished
  <2>3. CASE status[q] = "resolved"
    BY <1>5, <2>1, <2>3 DEF TypeOK, WriteResolution
  <2>4. CASE status[q] \in {"replaying", "abandoned"}
    BY <1>5, <2>1, <2>2, <2>4 DEF WriteResolution, Lifecycle!Resolve
  <2>. QED
    BY <1>5, <2>3, <2>4 DEF LeaseInv, ItemsHeld, ItemHeld, Held
<1>6. ASSUME NEW w \in Runs, NEW q, Settle(w, q) \/ SettleFailed(w, q)
      PROVE  q \in Rows /\ q \in items[w]
  BY <1>6 DEF TypeOK, Settle, SettleFailed
<1>7. ASSUME NEW w \in Runs, NEW q, Acquire(w, q) \/ AcquireFailed(w, q)
      PROVE  [Lifecycle!Next]_(Lifecycle!vars)
  <2>1. /\ phase[w] = "acquire" /\ q \in Rows /\ q \in items[w]
        /\ UNCHANGED effects
        /\ WriteLease(w, q) \/ UNCHANGED rowVars
    BY <1>6, <1>7 DEF Acquire, AcquireFailed
  <2>. QED
    BY <1>1, <1>3, <2>1 DEF rowVars
<1>8. ASSUME NEW w \in Runs, NEW q, Execute(w, q) \/ ExecuteFailed(w, q)
      PROVE  [Lifecycle!Next]_(Lifecycle!vars)
  <2>1. /\ phase[w] = "execute" /\ q \in Rows /\ q \in items[w]
        /\ UNCHANGED rowVars
        /\ UNCHANGED effects \/ \E k \in 0..3 : PerformSteps(q, k)
    BY <1>6, <1>8 DEF Execute, ExecuteFailed
  <2>. QED
    BY <1>1, <1>4, <2>1 DEF rowVars
<1>9. ASSUME NEW w \in Runs, NEW q, Resolve(w, q) \/ ResolveFailed(w, q)
      PROVE  [Lifecycle!Next]_(Lifecycle!vars)
  <2>1. /\ phase[w] = "resolve" /\ q \in Rows /\ q \in items[w]
        /\ UNCHANGED effects
        /\ WriteResolution(q) \/ UNCHANGED rowVars
    BY <1>6, <1>9 DEF Resolve, ResolveFailed
  <2>. QED
    BY <1>1, <1>5, <2>1 DEF rowVars
<1>10. ASSUME NEW w \in Runs, Progress(w) \/ Disturbance(w)
       PROVE  [Lifecycle!Next]_(Lifecycle!vars)
  BY <1>1, <1>7, <1>8, <1>9, <1>10
  DEF Progress, Disturbance, Plan, Acquired, Executed, Resolved, RetryOrEnd,
      FetchFailed, Crash, rowVars
<1>11. CASE Environment
  BY <1>1, <1>2, <1>11 DEF Environment, Tick, RetryDue
<1>12. ASSUME NEW s \in Schedulers, NEW w \in Runs, Trigger(s, w)
       PROVE  [Lifecycle!Next]_(Lifecycle!vars)
  BY <1>1, <1>12 DEF Trigger, rowVars
<1>13. CASE UNCHANGED vars
  BY <1>1, <1>13 DEF vars, rowVars
<1>. QED
  BY <1>10, <1>11, <1>12, <1>13 DEF Next

\* With one scheduler the workflow implements the life of a row that the queue
\* promises: resolved only when published, and then for good.
THEOREM Implementation ==
  ASSUME OneScheduler PROVE Spec => ImplementsLifecycle
<1>1. Init => Lifecycle!Init
  BY DEF Init, Lifecycle!Init
<1>2. TypeOK /\ LeaseInv /\ PublishInv /\ [Next]_vars
        => [Lifecycle!Next]_(Lifecycle!vars)
  BY LifecycleStep
<1>3. Init => PublishInv
  BY DEF Init, PublishInv, ResolvedIsPublished, ConfirmedPublished
<1>4. TypeOK /\ PublishInv /\ [Next]_vars => PublishInv'
  BY PublishStep
<1>. QED
  BY <1>1, <1>2, <1>3, <1>4, TypeCorrect, LeaseInvariant, PTL
  DEF Spec, ImplementsLifecycle, Lifecycle!Spec
=============================================================================
