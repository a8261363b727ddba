------------------------------ MODULE DlqReplay ------------------------------
(***************************************************************************)
(* The dead-letter replay workflow: every fifteen minutes a run fetches    *)
(* the unresolved rows of checkin_dlq, plans the ones it may take, leases  *)
(* them with an unconditional PATCH, asks the replay endpoint to finish    *)
(* each submission, and resolves a row.  Baserow is the only state the     *)
(* runs share; a run keeps nothing but the items travelling between its    *)
(* nodes.                                                                  *)
(*                                                                         *)
(* A node of the workflow sends one request per item, waits for all of     *)
(* them, and is tried again with all its items when one of them failed, at *)
(* most MaxTries times; then the run ends with an error.                   *)
(*                                                                         *)
(* Time: one tick is a fixed slice of the fifteen minutes.  Ages saturate, *)
(* so time itself is unbounded.  A run lasts at most RunTicks because each *)
(* of its requests has a timeout and each node a number of tries.          *)
(***************************************************************************)
EXTENDS Naturals, FiniteSets

CONSTANTS
  Rows,           \* rows checkin_dlq may come to hold
  Runs,           \* slots for workflow executions alive at the same time
  Schedulers,     \* n8n instances with the workflow active
  Stages,         \* the failure stages of the captured rows
  Poison,         \* rows whose replay the endpoint can never confirm
  NoOwner,        \* replay_owner before any lease
  PageSize,       \* rows returned by one fetch (100 in the template)
  LeaseTicks,     \* length of a replay lease
  IntervalTicks,  \* distance between two firings of a scheduler
  RunTicks,       \* longest duration of a run
  MaxTries,       \* tries of a node (3 in the template)
  MaxFaults       \* bound: lost requests, lost answers, crashes in a behaviour

FailureStages == {"baserow_checkins_write", "mattermost_canonical_post",
                  "event_dispatch"}

ASSUME RowsFinite     == IsFiniteSet(Rows)
ASSUME NoOwnerIsNoRun == NoOwner \notin Runs
ASSUME StagesKnown    == Stages \subseteq FailureStages
ASSUME TimesPositive  == /\ LeaseTicks \in Nat \ {0}
                         /\ IntervalTicks \in Nat \ {0}
                         /\ RunTicks \in Nat
ASSUME BoundsNatural  == /\ MaxTries \in Nat \ {0}
                         /\ MaxFaults \in Nat
                         /\ PageSize \in Nat \ {0}

\* Timeouts of the nodes add up to less than the schedule and the lease.
ASSUME RunShorterThanLease    == RunTicks < LeaseTicks
ASSUME RunShorterThanInterval == RunTicks < IntervalTicks

VARIABLES
  status,         \* [Rows]: the row's status column ("absent": no row yet)
  failure_stage,  \* [Rows]: the side effect the source execution failed at
  next_retry_at,  \* [Rows]: position of the row in the order by next_retry_at
  due,            \* [Rows]: has next_retry_at passed
  replay_owner,   \* [Rows]: the run that wrote the last lease
  leaseAge,       \* [Rows]: ticks since replay_started_at, at most LeaseTicks
  effects,        \* [Rows]: side effects of the submission that exist
  phase,          \* [Runs]: the node the run is at
  items,          \* [Runs]: the items that node was given
  todo,           \* [Runs]: items whose request is not settled in this try
  failed,         \* [Runs]: did a request of this try fail
  tries,          \* [Runs]: number of this try
  age,            \* [Runs]: ticks since the run was triggered
  planAge,        \* [Runs]: ticks since the run's plan
  sinceTrigger,   \* [Schedulers]: ticks since the last firing, saturating
  faults          \* requests, answers and runs lost so far

rowVars   == <<status, failure_stage, next_retry_at, due, replay_owner, leaseAge>>
nodeVars  == <<phase, items, todo, failed, tries>>
clocks    == <<age, planAge, sinceTrigger>>
vars      == <<rowVars, effects, nodeVars, clocks, faults>>

-----------------------------------------------------------------------------
(* The plan of a stage *)

Effects == {"checkin", "post", "event"}

\* Every plan names the three side effects in this order.
FirstEffects(k) ==
  CASE k = 0 -> {}
    [] k = 1 -> {"checkin"}
    [] k = 2 -> {"checkin", "post"}
    [] OTHER -> Effects

\* The side effects a stage's plan ensures; it only verifies the others.
Ensured(stage) ==
  CASE stage = "baserow_checkins_write"    -> Effects
    [] stage = "mattermost_canonical_post" -> {"post", "event"}
    [] stage = "event_dispatch"            -> {"event"}

Verified(stage) == Effects \ Ensured(stage)

-----------------------------------------------------------------------------
(* What the planner reads *)

\* Mutant of Candidates: the status filter is gone.
CandidatesOfAnyStatus == {r \in Rows : status[r] # "absent"}

Candidates == {r \in Rows : status[r] \in {"pending", "replaying"}}

Page ==
  {r \in Candidates :
     Cardinality({q \in Candidates : next_retry_at[q] < next_retry_at[r]})
       < PageSize}

LeaseExpired(r) == leaseAge[r] >= LeaseTicks

\* Mutant of Plannable: the age of the lease is not looked at.
PlannableIgnoringLease(r) == due[r]

\* Mutant of Plannable: a row in replaying is never taken over.
PlannablePendingOnly(r) == due[r] /\ status[r] = "pending"

Plannable(r) ==
  /\ due[r]
  /\ status[r] = "replaying" => LeaseExpired(r)

Batch == {r \in Page : Plannable(r)}

\* The row n8n's $input.first() refers to: the first of the items.
IsFirst(r, S) == r \in S /\ \A q \in S : next_retry_at[r] <= next_retry_at[q]

Captured == {r \in Rows : status[r] # "absent"}

-----------------------------------------------------------------------------
TypeOK ==
  /\ status \in [Rows -> {"absent", "pending", "replaying", "resolved", "abandoned"}]
  /\ failure_stage \in [Rows -> FailureStages]
  /\ next_retry_at \in [Rows -> Nat]
  /\ due \in [Rows -> BOOLEAN]
  /\ replay_owner \in [Rows -> Runs \union {NoOwner}]
  /\ leaseAge \in [Rows -> 0..LeaseTicks]
  /\ effects \in [Rows -> SUBSET Effects]
  /\ phase \in [Runs -> {"idle", "fetch", "acquire", "execute", "resolve"}]
  /\ items \in [Runs -> SUBSET Rows]
  /\ todo \in [Runs -> SUBSET Rows]
  /\ \A w \in Runs : todo[w] \subseteq items[w]
  /\ failed \in [Runs -> BOOLEAN]
  /\ tries \in [Runs -> 1..MaxTries]
  /\ age \in [Runs -> 0..RunTicks]
  /\ planAge \in [Runs -> 0..RunTicks]
  /\ \A w \in Runs : planAge[w] <= age[w]
  /\ sinceTrigger \in [Schedulers -> 0..IntervalTicks]
  /\ faults \in 0..MaxFaults

Init ==
  /\ status = [r \in Rows |-> "absent"]
  /\ failure_stage \in [Rows -> Stages]
  /\ next_retry_at = [r \in Rows |-> 0]
  /\ due = [r \in Rows |-> FALSE]
  /\ replay_owner = [r \in Rows |-> NoOwner]
  /\ leaseAge = [r \in Rows |-> 0]
  \* What the plan will only verify was done before the stage failed; the
  \* failed side effect itself may exist when only its answer was lost.  The
  \* capture names the first stage in the alphabet, the check-in write, whatever
  \* stage failed: behind that name any of the effects may exist.
  /\ effects \in [Rows -> {FirstEffects(k) : k \in 0..3}]
  /\ \A r \in Rows : LET v == Verified(failure_stage[r]) IN
       /\ v \subseteq effects[r]
       /\ failure_stage[r] # "baserow_checkins_write" =>
            Cardinality(effects[r]) <= Cardinality(v) + 1
  /\ phase = [w \in Runs |-> "idle"]
  /\ items = [w \in Runs |-> {}]
  /\ todo = [w \in Runs |-> {}]
  /\ failed = [w \in Runs |-> FALSE]
  /\ tries = [w \in Runs |-> 1]
  /\ age = [w \in Runs |-> 0]
  /\ planAge = [w \in Runs |-> 0]
  /\ sinceTrigger = [s \in Schedulers |-> IntervalTicks]
  /\ faults = 0

-----------------------------------------------------------------------------
(* Moving between nodes *)

\* Run w enters node p with the items S: a first try, nothing settled.
Enter(w, p, S) ==
  /\ phase' = [phase EXCEPT ![w] = p]
  /\ items' = [items EXCEPT ![w] = S]
  /\ todo' = [todo EXCEPT ![w] = S]
  /\ failed' = [failed EXCEPT ![w] = FALSE]
  /\ tries' = [tries EXCEPT ![w] = 1]

EndRun(w) ==
  /\ Enter(w, "idle", {})
  /\ age' = [age EXCEPT ![w] = 0]
  /\ planAge' = [planAge EXCEPT ![w] = 0]

Fault == faults < MaxFaults /\ faults' = faults + 1

\* The request of item r is answered.
Settle(w, r) ==
  /\ r \in todo[w]
  /\ todo' = [todo EXCEPT ![w] = @ \ {r}]
  /\ UNCHANGED <<phase, items, failed, tries>>

\* The request of item r times out or is answered with an error.
SettleFailed(w, r) ==
  /\ r \in todo[w]
  /\ todo' = [todo EXCEPT ![w] = @ \ {r}]
  /\ failed' = [failed EXCEPT ![w] = TRUE]
  /\ UNCHANGED <<phase, items, tries>>

\* Every request of the try is settled, and every one was answered.
NodeSucceeded(w) == todo[w] = {} /\ ~failed[w]

\* Mutant of RetryOrEnd: the try after the last one is allowed too.
RetryOnceMore(w) ==
  /\ phase[w] \in {"acquire", "execute", "resolve"}
  /\ todo[w] = {} /\ failed[w]
  /\ tries[w] <= MaxTries
  /\ todo' = [todo EXCEPT ![w] = items[w]]
  /\ failed' = [failed EXCEPT ![w] = FALSE]
  /\ tries' = [tries EXCEPT ![w] = @ + 1]
  /\ UNCHANGED <<phase, items, age, planAge, rowVars, effects, sinceTrigger, faults>>

\* A node whose try failed sends the requests of all its items again, until
\* its last try; then the error ends the run.
RetryOrEnd(w) ==
  /\ phase[w] \in {"acquire", "execute", "resolve"}
  /\ todo[w] = {} /\ failed[w]
  /\ \/ /\ tries[w] < MaxTries
        /\ todo' = [todo EXCEPT ![w] = items[w]]
        /\ failed' = [failed EXCEPT ![w] = FALSE]
        /\ tries' = [tries EXCEPT ![w] = @ + 1]
        /\ UNCHANGED <<phase, items, age, planAge>>
     \/ /\ tries[w] = MaxTries
        /\ EndRun(w)
  /\ UNCHANGED <<rowVars, effects, sinceTrigger, faults>>

-----------------------------------------------------------------------------
(* The environment of the workflow *)

\* The capture workflow creates the row; it is due sixteen seconds later.
Capture(r) ==
  /\ status[r] = "absent"
  /\ status' = [status EXCEPT ![r] = "pending"]
  /\ next_retry_at' = [next_retry_at EXCEPT ![r] = Cardinality(Captured)]
  /\ UNCHANGED <<failure_stage, due, replay_owner, leaseAge, effects, nodeVars,
                 clocks, faults>>

RetryDue(r) ==
  /\ status[r] # "absent" /\ ~due[r]
  /\ due' = [due EXCEPT ![r] = TRUE]
  /\ UNCHANGED <<status, failure_stage, next_retry_at, replay_owner, leaseAge,
                 effects, nodeVars, clocks, faults>>

\* An operator gives up a row, by hand, in Baserow.
Abandon(r) ==
  /\ status[r] \in {"pending", "replaying"}
  /\ status' = [status EXCEPT ![r] = "abandoned"]
  /\ UNCHANGED <<failure_stage, next_retry_at, due, replay_owner, leaseAge,
                 effects, nodeVars, clocks, faults>>

Older(a, limit) == IF a < limit THEN a + 1 ELSE a

\* Time passes; no run outlives its timeouts.
Tick ==
  /\ \A w \in Runs : phase[w] # "idle" => age[w] < RunTicks
  /\ leaseAge' = [r \in Rows |-> Older(leaseAge[r], LeaseTicks)]
  /\ age' = [w \in Runs |-> IF phase[w] = "idle" THEN age[w] ELSE age[w] + 1]
  /\ planAge' = [w \in Runs |-> IF phase[w] \in {"idle", "fetch"}
                                  THEN planAge[w] ELSE planAge[w] + 1]
  /\ sinceTrigger' = [s \in Schedulers |-> Older(sinceTrigger[s], IntervalTicks)]
  /\ UNCHANGED <<status, failure_stage, next_retry_at, due, replay_owner, effects,
                 nodeVars, faults>>

\* n8n stops in the middle of a run; nothing resumes the run.
Crash(w) ==
  /\ phase[w] # "idle"
  /\ Fault
  /\ EndRun(w)
  /\ UNCHANGED <<rowVars, effects, sinceTrigger>>

-----------------------------------------------------------------------------
(* The nodes of the workflow *)

\* Every 15 Minutes.
Trigger(s, w) ==
  /\ sinceTrigger[s] = IntervalTicks
  /\ phase[w] = "idle"
  /\ sinceTrigger' = [sinceTrigger EXCEPT ![s] = 0]
  /\ Enter(w, "fetch", {})
  /\ UNCHANGED <<rowVars, effects, age, planAge, faults>>

\* Fetch Replay Candidates fails once more.
FetchFailed(w) ==
  /\ phase[w] = "fetch"
  /\ Fault
  /\ \/ /\ tries[w] < MaxTries
        /\ tries' = [tries EXCEPT ![w] = @ + 1]
        /\ UNCHANGED <<phase, items, todo, failed, age, planAge>>
     \/ /\ tries[w] = MaxTries
        /\ EndRun(w)
  /\ UNCHANGED <<rowVars, effects, sinceTrigger>>

\* Fetch Replay Candidates answers and Plan Stage-Safe Replay runs on the
\* answer.  No item, no further node.
Plan(w) ==
  /\ phase[w] = "fetch"
  /\ \/ Batch = {} /\ EndRun(w)
     \/ Batch # {} /\ Enter(w, "acquire", Batch) /\ UNCHANGED <<age, planAge>>
  /\ UNCHANGED <<rowVars, effects, sinceTrigger, faults>>

\* The PATCH of Acquire Replay Lease: nothing in it depends on the row's
\* current state, and replay_started_at is the time of the plan.
WriteLease(w, r) ==
  /\ status' = [status EXCEPT ![r] = "replaying"]
  /\ replay_owner' = [replay_owner EXCEPT ![r] = w]
  /\ leaseAge' = [leaseAge EXCEPT ![r] = planAge[w]]
  /\ UNCHANGED <<failure_stage, next_retry_at, due>>

Acquire(w, r) ==
  /\ phase[w] = "acquire"
  /\ WriteLease(w, r)
  /\ Settle(w, r)
  /\ UNCHANGED <<effects, clocks, faults>>

AcquireFailed(w, r) ==
  /\ phase[w] = "acquire"
  /\ Fault
  /\ WriteLease(w, r) \/ UNCHANGED rowVars
  /\ SettleFailed(w, r)
  /\ UNCHANGED <<effects, clocks>>

\* Mutant of Acquired: goes on although a lease was not written.
AcquiredSome(w) ==
  /\ phase[w] = "acquire" /\ todo[w] = {}
  /\ Enter(w, "execute", items[w])
  /\ UNCHANGED <<rowVars, effects, clocks, faults>>

Acquired(w) ==
  /\ phase[w] = "acquire" /\ NodeSucceeded(w)
  /\ Enter(w, "execute", items[w])
  /\ UNCHANGED <<rowVars, effects, clocks, faults>>

\* The endpoint has performed the first k steps of the row's plan: it goes
\* on past a verification only when what it verifies exists.
PerformSteps(r, k) ==
  LET stage == failure_stage[r] IN
  /\ FirstEffects(k) \intersect Verified(stage) \subseteq effects[r]
  /\ effects' = [effects EXCEPT
                   ![r] = @ \union (FirstEffects(k) \intersect Ensured(stage))]

\* Execute Idempotent Replay: the endpoint answers "resolved" once the three
\* side effects are confirmed.
Execute(w, r) ==
  /\ phase[w] = "execute"
  /\ r \notin Poison
  /\ PerformSteps(r, 3)
  /\ Settle(w, r)
  /\ UNCHANGED <<rowVars, clocks, faults>>

ExecuteFailed(w, r) ==
  /\ phase[w] = "execute"
  /\ \/ r \in Poison /\ UNCHANGED <<effects, faults>>
     \/ Fault /\ \E k \in 0..3 : PerformSteps(r, k)
  /\ SettleFailed(w, r)
  /\ UNCHANGED <<rowVars, clocks>>

\* Mutant of Executed: goes on although a replay was not confirmed.
ExecutedSome(w) ==
  /\ phase[w] = "execute" /\ todo[w] = {}
  /\ \E first \in items[w] :
       /\ IsFirst(first, items[w])
       /\ Enter(w, "resolve", {first})
  /\ UNCHANGED <<rowVars, effects, clocks, faults>>

\* Build Resolution Patch looks at the first item only.
Executed(w) ==
  /\ phase[w] = "execute" /\ NodeSucceeded(w)
  /\ \E first \in items[w] :
       /\ IsFirst(first, items[w])
       /\ Enter(w, "resolve", {first})
  /\ UNCHANGED <<rowVars, effects, clocks, faults>>

\* The PATCH of Resolve DLQ Row, unconditional as well.
WriteResolution(r) ==
  /\ status' = [status EXCEPT ![r] = "resolved"]
  /\ due' = [due EXCEPT ![r] = TRUE]  \* next_retry_at is null
  /\ UNCHANGED <<failure_stage, next_retry_at, replay_owner, leaseAge>>

Resolve(w, r) ==
  /\ phase[w] = "resolve"
  /\ WriteResolution(r)
  /\ Settle(w, r)
  /\ UNCHANGED <<effects, clocks, faults>>

ResolveFailed(w, r) ==
  /\ phase[w] = "resolve"
  /\ Fault
  /\ WriteResolution(r) \/ UNCHANGED rowVars
  /\ SettleFailed(w, r)
  /\ UNCHANGED <<effects, clocks>>

Resolved(w) ==
  /\ phase[w] = "resolve" /\ NodeSucceeded(w)
  /\ EndRun(w)
  /\ UNCHANGED <<rowVars, effects, sinceTrigger, faults>>

-----------------------------------------------------------------------------
\* What a run does when nothing goes wrong with the request at hand.
Progress(w) ==
  \/ Plan(w) \/ Acquired(w) \/ Executed(w) \/ Resolved(w) \/ RetryOrEnd(w)
  \/ \E r \in Rows : Acquire(w, r) \/ Execute(w, r) \/ Resolve(w, r)
  \/ \E r \in Poison : ExecuteFailed(w, r)

Disturbance(w) ==
  \/ FetchFailed(w)
  \/ Crash(w)
  \/ \E r \in Rows :
       AcquireFailed(w, r) \/ ExecuteFailed(w, r) \/ ResolveFailed(w, r)

Environment ==
  \/ Tick
  \/ \E r \in Rows : Capture(r) \/ RetryDue(r) \/ Abandon(r)

Next ==
  \/ Environment
  \/ \E s \in Schedulers, w \in Runs : Trigger(s, w)
  \/ \E w \in Runs : Progress(w) \/ Disturbance(w)

Spec == Init /\ [][Next]_vars

\* n8n runs the nodes of a started execution, its scheduler keeps firing, and
\* time passes.  Lost requests and crashes are not fair: they need not happen.
Fairness ==
  /\ WF_vars(Tick)
  /\ \A r \in Rows : WF_vars(RetryDue(r))
  /\ \A s \in Schedulers : WF_vars(\E w \in Runs : Trigger(s, w))
  /\ \A w \in Runs : WF_vars(Progress(w))

FairSpec == Spec /\ Fairness

-----------------------------------------------------------------------------
(* Properties *)

\* A resolved row's check-in, post and event all exist.  The resolution is
\* built two nodes after the requests it vouches for, from the first item
\* only, and may be written by a run whose lease is long gone: it must never
\* vouch for a row the endpoint has not confirmed.
ResolvedIsPublished ==
  \A r \in Rows : status[r] = "resolved" => effects[r] = Effects

\* "An active lease cannot be stolen": while a lease is younger than its
\* length and its row unresolved, no other run becomes the row's owner.  The
\* leases are written without looking at the row, so this rests on the plan
\* still being true when the lease is written.
LeaseExclusive ==
  [][\A r \in Rows :
       status[r] = "replaying" /\ ~LeaseExpired(r) =>
         replay_owner'[r] = replay_owner[r]]_vars

\* A resolved row stays resolved: no late lease puts it back to replaying and
\* no retry replays a submission that is complete.
ResolutionIsFinal ==
  [][\A r \in Rows : status[r] = "resolved" => status'[r] = "resolved"]_vars

\* The endpoint is asked to replay a row only under a lease the asking run
\* wrote, still unexpired, or after an operator gave the row up.
ReplayUnderLease ==
  \A w \in Runs : phase[w] = "execute" =>
    \A r \in items[w] :
      \/ status[r] = "replaying" /\ replay_owner[r] = w /\ ~LeaseExpired(r)
      \/ status[r] = "abandoned"

\* Every captured row is resolved, or given up, in the end: runs that crash or
\* lose requests leave leases behind, which expire and are taken over.
EveryRowSettles ==
  \A r \in Rows : status[r] = "pending" ~> status[r] \in {"resolved", "abandoned"}

\* What the queue promises of a row (DlqLifecycle), read off the table and the
\* outside world.
Lifecycle == INSTANCE DlqLifecycle WITH
  state     <- status,
  published <- [r \in Rows |-> effects[r] = Effects]

\* The workflow, run by one scheduler, implements that promise.
ImplementsLifecycle == Lifecycle!Spec

\* "A successful replay resolves the row": a run that ends well leaves none of
\* the rows it leased, whose replays all succeeded, in replaying.
SuccessfulReplayResolves ==
  [][\A w \in Runs :
       phase[w] = "resolve" /\ phase'[w] = "idle" /\ NodeSucceeded(w) =>
         ~ \E r \in Rows : /\ status[r] = "replaying"
                            /\ replay_owner[r] = w
                            /\ leaseAge[r] = planAge[w]]_vars
=============================================================================
