------------------------------ MODULE RetryLoop ------------------------------
(***************************************************************************)
(* A submission's side effect under run_with_retry, and the row that       *)
(* build_dlq_record, plan_replay and resolved_dlq_patch make of it when    *)
(* every try failed.  Time passes while a request is made, while the row   *)
(* is captured and between replays; the loop sleeps between its tries.     *)
(***************************************************************************)
EXTENDS Integers, Sequences

CONSTANTS
  Policies,     \* [attempts, between, dlq]: values RetryPolicy is given
  MaxAttempts,  \* 5
  MaxDelay,     \* 300 seconds
  Lease,        \* fifteen minutes
  ReplayTime,   \* longest replay; the workflow's requests have a timeout
  Statuses,     \* HTTP statuses an operation may fail with
  Workers,      \* replay workers
  None,         \* no lease owner
  MaxTime       \* bound: ticks in a behaviour

ASSUME LeaseLongerThanDelays == Lease >= ReplayTime + MaxDelay
ASSUME RetryBounds == {MaxAttempts, MaxDelay, Lease, ReplayTime, MaxTime} \subseteq Nat
ASSUME PoliciesAreIntegers ==
  \A p \in Policies : p.attempts \in Int /\ p.between \in Seq(Int) /\ p.dlq \in Int

VARIABLES
  retry,  \* the policy in force
  clock,
  step,   \* "trying", "succeeded", "failed", or the life of the row
  tried,  \* tries so far, replays included: when each began and ended
  row     \* status, next_retry_at, replay_started_at, owner, replays

retryVars == <<retry, clock, step, tried, row>>

Delays(p) == Append(p.between, p.dlq)

\* Mutant of RetryPolicy: the delays may come in any order.
RetryPolicyUnordered(p) ==
  /\ p.attempts \in 1..MaxAttempts
  /\ Len(p.between) = p.attempts - 1
  /\ \A i \in DOMAIN Delays(p) : Delays(p)[i] \in 1..MaxDelay

\* RetryPolicy.__post_init__
RetryPolicy(p) ==
  /\ p.attempts \in 1..MaxAttempts
  /\ Len(p.between) = p.attempts - 1
  /\ \A i \in DOMAIN Delays(p) : Delays(p)[i] \in 1..MaxDelay
  /\ \A i, j \in DOMAIN Delays(p) : i < j => Delays(p)[i] <= Delays(p)[j]

IsRetryableHttp(status) == status \in {408, 425, 429} \union 500..599

NoRow == [status |-> "none", next |-> 0, started |-> 0, owner |-> None, replays |-> 0]

RetryTypeOK ==
  /\ retry \in Policies
  /\ clock \in 0..MaxTime
  /\ step \in {"trying", "succeeded", "failed", "row"}
  /\ Len(tried) \in 0..retry.attempts + row.replays
  /\ row.status \in {"none", "pending", "replaying", "resolved"}
  /\ row.owner \in Workers \union {None}

RetryInit ==
  /\ retry \in {p \in Policies : RetryPolicy(p)}
  /\ clock = 0
  /\ step = "trying"
  /\ tried = <<>>
  /\ row = NoRow

\* A request is made, and answered a while later.
Try(took) == tried' = Append(tried, [began |-> clock, ended |-> clock + took])

\* How long the loop sleeps after its n-th try.
Sleep(n) == retry.between[n]

\* The next try begins after the sleep: clock is the time at which it begins.
Attempt(took) ==
  /\ step = "trying"
  /\ Try(took)
  /\ UNCHANGED <<retry, row>>

AttemptSucceeds(took) ==
  /\ Attempt(took)
  /\ step' = "succeeded"
  /\ clock' = clock + took

\* A failure that is not worth a retry, or the last try.
AttemptGivesUp(took, status) ==
  /\ ~IsRetryableHttp(status) \/ Len(tried) + 1 = retry.attempts
  /\ Attempt(took)
  /\ step' = "failed"
  /\ clock' = clock + took

AttemptFails(took, status) ==
  /\ IsRetryableHttp(status) /\ Len(tried) + 1 < retry.attempts
  /\ Attempt(took)
  /\ clock' = clock + took + Sleep(Len(tried) + 1)
  /\ UNCHANGED step

\* build_dlq_record refuses a failure that did not use up the tries.
BuildDlqRecord(delay) ==
  /\ step = "failed"
  /\ Len(tried) = retry.attempts
  /\ step' = "row"
  /\ clock' = clock + delay
  /\ row' = [NoRow EXCEPT !.status = "pending", !.next = clock + delay + retry.dlq]
  /\ UNCHANGED <<retry, tried>>

\* The row is due and not under a lease.
Replayable ==
  /\ clock >= row.next
  /\ \/ row.status = "pending"
     \/ row.status = "replaying" /\ clock >= row.started + Lease

\* plan_replay, with the replay that follows: the lease runs while it lasts.
PlanReplay(worker, took) ==
  /\ step = "row"
  /\ Replayable
  /\ row' = [row EXCEPT !.status = "replaying", !.started = clock, !.owner = worker,
                        !.replays = @ + 1]
  /\ Try(took)
  /\ UNCHANGED <<retry, clock, step>>

\* resolved_dlq_patch, once the replay was answered.
ResolvedDlqPatch ==
  /\ row.status = "replaying"
  /\ clock >= tried[Len(tried)].ended
  /\ row' = [row EXCEPT !.status = "resolved"]
  /\ UNCHANGED <<retry, clock, step, tried>>

TimePasses ==
  /\ step = "row"
  /\ clock' = clock + 1
  /\ UNCHANGED <<retry, step, tried, row>>

RetryNext ==
  /\ \/ \E took \in 0..1 : AttemptSucceeds(took)
     \/ \E took \in 0..1, s \in Statuses : AttemptGivesUp(took, s)
     \/ \E took \in 0..1, s \in Statuses : AttemptFails(took, s)
     \/ \E delay \in 0..1 : BuildDlqRecord(delay)
     \/ \E w \in Workers, took \in 0..ReplayTime : PlanReplay(w, took)
     \/ ResolvedDlqPatch
     \/ TimePasses
  /\ clock' <= MaxTime

RetrySpec == RetryInit /\ [][RetryNext]_retryVars

-----------------------------------------------------------------------------
(* Properties *)

\* A service that fails is given more and more time: up to the first replay of
\* the row no pause between two tries is shorter than the one before it, and
\* later replays, which take over a lease, are no closer than any of the delays
\* although the lease runs while the replay before them is made.
RetriesSlowDown ==
  LET pause == [i \in 1..Len(tried) - 1 |-> tried[i + 1].began - tried[i].ended] IN
    /\ \A i, j \in DOMAIN pause : i < j /\ j <= retry.attempts => pause[i] <= pause[j]
    /\ \A i \in DOMAIN pause : i > retry.attempts =>
         \A n \in DOMAIN Delays(retry) : pause[i] >= Delays(retry)[n]
=============================================================================
