# Daily Check-in, Part 1: formal models

TLA+ models of the workflows of this repository, the TLC runs that check them
on small instances, and TLAPS proofs of their main properties for every value
of the constants. The models are translated from `n8n/templates`, `n8n/code`,
`checkin_platform`, `analytics/clickhouse` and `scripts`; where a document says
something else, see *Differences with the documents*.

## Inventory

| Part | State | Operations | What is hard |
|---|---|---|---|
| DLQ capture and reconciliation (`checkin-dlq-capture-v1`, `extract-failure-context.js`, `dlq-builder.js`, `dlq-dm-guard.js`, `commit-dlq-dm.js`) | rows of `checkin_dlq` in Baserow, the submitter's channel, saved executions in n8n | error trigger, five-minute scan; fetch, find, create, guard, send, persist | two triggers race for one execution; receipts written after the message; requests and runs lost between nodes |
| DLQ replay (`checkin-dlq-replay-v1`, `dlq-replay-planner.js`, `replay-success.js`) | rows of `checkin_dlq`: status, lease, next retry; the side effects of a submission | schedule, fetch, plan, lease, replay, resolve | unconditional leases, runs that die with leases, retries of a whole batch, time |
| Event ingestion (`checkin-event-ingestion-v1`, `event-normalizer.js`, `duplicate-decider.js`) | `checkin_events_raw` and its insert tokens in ClickHouse | receive, check, insert, respond | at-least-once delivery, a check that is stale at the insert, lost answers |
| Compliance worker (`checkin-compliance-v1`, `compliance.py`, `expectation-builder.js`, `compliance-planner.js`, `commit-action.js`) | committed action ids in workflow static data, `checkin_violations`, messages | build, plan, route, nudge, violate, resolve, digest, commit | static data saved only when the execution ends, branches of one run failing, clock windows, eviction of ids, a snapshot that ages |
| Expectation ingestion, weekly rollup | expectations in ClickHouse; none | build, insert; aggregate | snapshots that change, several rules for one report |
| ClickHouse views and archive (`002_views.sql`, `003_archive_rollups.sql`) | latest rows, daily metrics, archives, expiring detail | aggregate, daily refresh, expiry | repeated and replaced rows; calendar arithmetic at month ends |
| Deployment (`render_vault.py`, `deploy_vault.py`, `render_apisix.py`, `deploy_apisix.py`) | policies, roles and auth configuration of Vault, upstream and routes of APISIX, backups | validate, plan, preflight, snapshot, put | stopping half-way, two operators, the order of the puts |
| Vault smoke test (`smoke_vault.py`) | the evidence of the last run | log in, read, try foreign roles, compare versions | deployments and rotations during a run |
| Reference implementations (`reliability.py`, `analytics.py`) | a submission's tries and row; an in-memory ledger | retry loop, plan, resolve; accept, reconcile | delays in time, agreement with the views |
| APISIX gateway (`checkin-context.lua`) | request context | rewrite, access, header filter, log | order of phases |
| Other rendering, validation and release scripts | none | generate, check | none that outlives a call |

The parts meet in the outside world only. Capture creates the rows of
`checkin_dlq` that replay leases and resolves. The replay endpoint (Part 2) and
the Submit workflow send the events ingestion stores. n8n runs all workflows:
a node sends one request per item, is tried three times with all its items, and
an error after the last try ends the run; Code nodes run once and often look
only at `$input.first()`. Nothing resumes a run that was interrupted.

What makes each part correct: capture never leaves a failure without a row and
a message, and makes one row for each; replay is exclusive under a lease, never
resolves an unpublished submission and settles every row; ingestion keeps what
it acknowledged, once, and never replaces it; the compliance worker records
every missed report, resolves what came late, leaves alone who is away and
repeats a message only a bounded number of times; the report has each day
once; at no moment of any deployment does a role give more than its workload is
approved for or a route lead nowhere, and a stopped deployment can be undone.

## Modules

| Module | Role |
|---|---|
| `DlqReplay` | the replay workflow |
| `DlqLifecycle` | what the queue promises of one row, implemented by `DlqReplay` |
| `DlqReplayProofs` | proofs about `DlqReplay` |
| `DlqCapture` | the capture and reconciliation workflow |
| `DlqMirror` | what capture promises of failed submissions, implemented by `DlqCapture` |
| `DlqCaptureProofs` | proofs about `DlqCapture` |
| `EventIngestion` | the ingestion workflow and the table it inserts into |
| `EventLedger` | what ingestion promises, from `EventLedger.accept` in `analytics.py` |
| `EventIngestionProofs` | proofs about `EventIngestion` |
| `Compliance` | expectations, plan and weekly rollup as operators |
| `ComplianceWorker` | the compliance workflow, on `Compliance` |
| `ComplianceProofs` | proofs about `ComplianceWorker`: types, commits, digests |
| `ComplianceSafety` | more of them: who is left alone, repetitions, the rollup, nothing skipped |
| `VaultConfig`, `GatewayConfig` | what the renderers accept and make of a configuration |
| `Deployment` | both deployment tools, on the two configurations |
| `DeploymentProofs` | proofs about `Deployment` |
| `VaultSmoke` | the smoke test, next to `Deployment` |
| `VaultSmokeProofs` | proofs about `VaultSmoke`, on those about `Deployment` |
| `RetryLoop` | `reliability.py` over time |
| `EventMetrics` | `EventLedger` and `reconcile_metrics` of `analytics.py` against the daily view |
| `ArchiveCalendar` | refresh, expiry and reporting view of one day |
| `OperationsProofs` | proofs about `RetryLoop`, `EventMetrics` and `ArchiveCalendar`, and of the types of `MCOperations` |
| `MCDlqReplay`, `MCDlqCapture`, `MCEventIngestion`, `MCCompliance`, `MCOperations` | instances for TLC |

### DlqReplay

A row has its Baserow columns: `status`, `failure_stage`, `next_retry_at` (its
place in the order of the fetch), `due` (`next_retry_at` has passed),
`replay_owner` and `leaseAge` (the age of `replay_started_at`). `effects` are
the check-in, post and event that exist of its submission. A run is at a node
(`phase`) with the `items` the node was given; `todo` are the items whose
request is not settled in this try, `failed` tells whether one failed, `tries`
counts. Each action is the answer to one request, or the code that runs
between two nodes:

| Action | Code |
|---|---|
| `Trigger`, `FetchFailed`, `Plan` | schedule, *Fetch Replay Candidates*, `dlq-replay-planner.js` (its checks of status, due date and lease age are `Candidates` and `Plannable`) |
| `Acquire`, `AcquireFailed`, `Acquired` | *Acquire Replay Lease*, a PATCH that looks at nothing |
| `Execute`, `ExecuteFailed` | *Execute Idempotent Replay* and the endpoint, which performs a prefix of the plan of the row's stage |
| `Executed`, `Resolve`, `ResolveFailed`, `Resolved` | `replay-success.js` (first item only), *Resolve DLQ Row* |
| `RetryOrEnd`, `Crash`, `Tick` | n8n's retries, its restarts, time |
| `Capture`, `RetryDue`, `Abandon` | the capture workflow, time, an operator |

A failed request may or may not have taken effect. A request that timed out has
taken effect by its timeout or never does; a write that arrives later than that
is not modelled. A lease carries the time of the plan, not of the PATCH, which
is why `Acquire` sets `leaseAge` to `planAge`. Time is sliced into ticks, ages
saturate. `RunShorterThanLease` and `RunShorterThanInterval` are the timeouts of
the template: three tries of 10, 10, 30 and 10 seconds and the waits between
them stay below four minutes, leases and schedule are fifteen. `Poison` are
rows the endpoint never confirms. Rows start with the effects of the stages before theirs, and
perhaps that of the stage itself; a row of `baserow_checkins_write` may start with any, because
capture names the first stage of the alphabet whichever failed. Not modelled: the planner's errors on malformed rows (they
end the run before any write), the deletion of resolved rows after thirty days, and
where Baserow sorts a null `next_retry_at` (such rows are resolved and filtered).

### DlqCapture

`row` and `notified` are the rows of `checkin_dlq` and their receipts, `dms` the
messages a submitter received. An execution has `reached` some of the three
side effects and has a context for each (`Contexts`); the extractor sorts them
by name and the builder takes the first (`FirstContext`), also of a listing of
several executions. A run is at a node with its `target`. `SubmitWorkflowFailed`
and `ReconcileEvery5Minutes` are the two triggers, `Fetch`, `Find`, `Create`,
`CreateRefused`, `Send`, `Persist` the nodes with the code that follows each,
`RequestFailed` a lost request with the retry or the end of the run, `Crash` and
`TriggerLost` restarts. `CreateRefused` is the uniqueness of `dlq_id`. `Mirror` maps this to `DlqMirror`: the
rows, messages and receipts that exist of failed executions, with no triggers, scans or runs.
*Build DLQ Record* throws on a context whose fields have a wrong type, form or length, which ends the
run without a row: `refused` are the executions of which it does, any of `Doubtful`. Sanitising,
the text of the message, and the pruning of saved executions are left out;
execution ids are compared as numbers, which agrees with the code's comparison
of strings for ids of one length.

### EventIngestion

`rows` are the rows of an event id by `received_at`, `tokens` the deduplication
tokens ClickHouse remembers, each per monthly partition: an insert with a known
token is dropped and reported as a success. `told` is what producers were
answered. `Receive` covers validation and routing, `Check` the lookup with
`duplicate-decider.js`, `Insert`, `Respond`, `RequestFailed` and `Lost` the rest.
`Invalid` payloads stand for everything `event-normalizer.js` refuses. The window
of a hundred thousand tokens, replicas that lag behind each other and the expiry
of rows after 24 months are not modelled.

### Compliance and ComplianceWorker

`Compliance` is the pure part, translated from `compliance.py` and the Code nodes
that repeat it: `Expectations` (who owes which report, and when), `Nudges`,
`Upserts`, `Resolutions` and `Digests`, put together by `PlanComplianceActions`,
and `WeeklyRollup`. Instants are ticks, a zone an offset for each day, and a
digest of `ids.py` the tuple it is made of. An input that has a member, or an applicable rule,
twice makes the build fail (`BuildFails`): two different members of one user, or the same element
again, which a set cannot show and `twice` names. Of the check-ins of a key the rollup counts the last
(`LastRows`); `RollupReconciles` gives it every check-in twice.

`ComplianceWorker` is the workflow around it. `checkins` and `violations` are what
Submit and Baserow hold, `nudged`, `digested` and `named` what was sent, `static`
the committed ids. A run has its `snapshot`, its `plan`, the node it is `at` and the
ids it `staged`. The planner skips the ids in the static data and those of the snapshot's
`existing_action_ids`; what the snapshot's source puts there is not in the repository, and the second list is
left out.

| Action | Code |
|---|---|
| `Fetch`, `Plan` | *Fetch Compliance Snapshot*, the builder and the planner |
| `SendNudges`, `Find`, `Create`, `Resolve`, `SendDigests` | the branches of *Route Action* from top to bottom, each with *Commit Action ID*, which takes the first item only (`Commit`) |
| `CreateRefused` | the uniqueness of `violation_id` in Baserow |
| `SendNudgesFailed` and the like | a try in which some requests took effect; a retry with all items, or the end of the run |
| `Finish`, `FailRun`, `Crash` | the three ways in which static data is saved, may be saved, or is lost; `KeptFrom` drops ids beyond `KeepIds` |
| `Tick`, `Submit`, `ApproveLeave`, `Waive` | the world |

Runs do not overlap: the runbook asks for one active scheduler, and the timeouts of
the nodes keep a run below its five minutes. A run reads the clock only until it
has planned, so time stands still afterwards.

### VaultConfig, GatewayConfig, Deployment

A configuration keeps what the tools compare: for Vault the role, policy, task and
bindings of each workload and the keys of the JWT mount, for APISIX its networks,
its node and the ids of its resources.
`CaFiles` are the certificates an operator may give with `--include-auth-config`, `FirstAuth` what
the mount has before any deployment. `ValidateConfig` and `ValidateGateway` are the
refusals of the renderers, `DeploymentResources` and `BuildBundle` the ordered puts.

`store` is what Vault or APISIX holds by resource. A run (`cfg`, `withAuth`, `phase`,
`at`) goes through `Preflight`, `Snapshot`, `ApplyAuthConfig` and `Apply`, a resource at
a time; `Stop` and `Unanswered` end it anywhere, before or after its write took effect.
Several `Deployers` interleave, since nothing locks the store. `backup` is what a run
saved; `before` is the store it saved, as long as no other operator has written since
(`NoStore` afterwards: no backup can promise anything then). Health, audit, mount and
plugin checks of the preflight fail as `Stop`. Restoring is a procedure of the runbooks,
done by hand, and not an action. The policies and roles of a configuration of Vault have
different names, which the renderer checks; the ids of the two routes of a gateway need not
differ. One of the gateway's configurations has one id for both, and its submit route
replaces its open one (`IsReplaced`): the run reports success and the open route is not there.
The preflight compares the URL (`jwks`) of the auth configuration, not the certificates (`ca`) that
go with it, so which of them a run relies on is left open. `NameKept` says of a role that no other
workload has the name of its policy in any configuration, which the code does not demand; two
configurations of the run exchange their names (`Exchange`).

### VaultSmoke

The test logs in with each workload's role (`Login`), reads a path a step (`ReadApproved`,
`ReadDenied`), tries one after the other of the other roles (`ForeignLogin`), goes on to the
`NextWorkload`, and at the end compares versions with the evidence of an earlier run (`Pass`,
`VerifyRotation`) and leaves its own (`WriteEvidence`), while operators deploy and write secrets. The
file is emptied before it is written; a run that stops in between leaves none (`TruncateEvidence`).
`calm`, `rotated` and `advanced` are history: what happened since a run began.

### RetryLoop, EventMetrics, ArchiveCalendar

`RetryLoop` follows one side effect through `run_with_retry`, `build_dlq_record`,
`plan_replay` and `resolved_dlq_patch` with a clock: each try takes time, the row is
captured a while later, a replay takes up to `ReplayTime`, during which its lease runs, and the lease
expires. The jitter of the pauses, which `run_with_retry` leaves to its caller,
is left out. `EventMetrics` delivers events in any order
and number to `EventLedger.accept`, records versions of expectations, and compares
`reconcile_metrics` with `checkin_submission_metrics_daily` in every state.
`ArchiveCalendar` follows one day of a calendar with its leap years: the refresh
at month 23 (`Refreshed`), the expiry at month 24, and the reporting view over both. A
refresh that fails with all its retries is not repeated the next day; `missed` remembers
that it was the one for this day.

## Runs

| Run | Question | Bounds |
|---|---|---|
| `replay_one` | With one scheduler, are leases exclusive, replays made under a live lease, resolved rows published, and is `DlqLifecycle` implemented, in which resolved is final? | 2 rows of any stage, one of them poison; 2 runs; 3 tries; 2 faults; runs of 2 ticks, leases and schedule of 3 |
| `replay_live` | Does every captured row settle? | fetches of one row, so the page is the limit; 2 tries and 2 faults, enough to end a node for good |
| `replay_stolen` | Is an active lease safe with two active schedulers? (no) | 1 row, no fault |
| `replay_first_only` | Does a successful replay resolve every row it replayed? (no) | 2 rows, no fault |
| `capture_safe` | Do the triggers, scans and retries agree on one row, do messages stop with the receipt, and is `DlqMirror` implemented? | 2 executions, the first refused or not; 3 runs, 2 tries, 2 faults |
| `capture_live` | Is a failure mirrored and its submitter notified, whatever is lost? | 1 execution, refused or not, 2 runs, 3 faults: the trigger and every try of a node |
| `capture_unmirrored` | And with two failed executions? (no) | 1 fault |
| `capture_two_messages` | Does the submitter receive one message? (no) | no fault |
| `ingestion` | Is what producers are told true, are events stored once and kept, is a conflict real, is every producer answered, and is `EventLedger` implemented? | an honest event, sent malformed as well, and a reused id; 2 deliveries at a time, 2 tries, 2 faults |
| `ingestion_conflict` | Are two contents of one id never both accepted? (no) | 2 deliveries, no fault |
| `compliance` | Is every commit true, is everyone a digest names on record, are messages repeated a bounded number of times, are absent users left alone, is nothing skipped that a snapshot calls for, are missed reports recorded, late ones resolved and pods escalated, and does the rollup agree with the facts? | 15 inputs of at most 2 users; days of 6 ticks, a clock of 3; 2 tries, 1 fault; 5 ids kept, fewer than an input can produce; counts to 4 |
| `operations` | Each of the operator tools and references by itself: roles exact, routes with upstream, stopped runs recoverable, finished runs complete; what a passed smoke test proves; retries that slow down; metrics that agree; days reported once | see below |

Two rows are enough for one batch to mix settled and unsettled items and for one
row to keep another off the page; two runs for every race of two; faults one
less or one more than the tries for both outcomes of a node. Faults, tries and
slots are the only bounds: time and the runs a scheduler starts are unbounded.

In `compliance` the inputs are the cases of the code: two pods, two zones, two reports of
one user, two rules for one report, leave that is requested, approved or over, holidays
of a pod, of another day and of everybody, users inactive, gone or not yet there, and a
roster that contradicts itself, or that it or the rules have an element twice. The clock covers the nudge window, the due times of both
zones and the escalation; it stops at `Horizon`, the schedule goes on.

`operations` chooses in its initial state one `subject`, whose part alone moves.
*vault*, *gateway*: 2 operators, 3 runs in all, 2 workloads with a shared path, 2
valid configurations that differ in roles, policies, tasks and keys (3 for the gateway, one with equal
route ids), 2 files of certificates, and refused ones. *exchange*: 2 runs of two configurations that exchange
the names of their policies. *smoke*: one deployment at a time before and during the test, 2 runs.
*rotation*: everything deployed, 2 versions of each secret. *retry*: at most 3 tries,
delays up to 3, replays of up to 1, a lease of 4, 20 ticks; the delays come in every order, of which
`RetryPolicy` accepts some. *metrics*: 3 deliveries of 6 events, 3 updates of 5
expectations. *archive*: every day of 2022 to 2024, with a leap day, for 25 months.

`replay_one` and `capture_safe` use symmetry between runs, never in a run with
liveness. Only `operations` turns the deadlock check off: deployments are finished,
a resolved row stays resolved, and the calendar ends with its last month.

### Fairness

A started execution goes on (`WF` on `Progress`), time passes, schedules fire:
n8n's scheduler and the request timeouts give these. An error trigger that is
pending fires and a scan is started again and again although the run slots may
be taken for a while (`SF`): the slots are a bound of the model, not of n8n.
Producers without an answer send again (`SF` on `Resend`): `contracts/INTERFACE.md` asks
for at-least-once delivery. The schedule of the compliance worker fires and a run it
started goes on (`WF` on its `Progress`); that is enough for its three liveness
properties, since the faults of a behaviour are bounded and a crash frees the slot.
Losses, crashes, users and operators are never fair, and `operations` has no fairness.

## Proofs

All are for any sets of rows, runs, executions and any bounds.

*DlqReplay.* `TypeCorrect` proves the types. `PublishedBeforeResolved` holds with any
number of schedulers; its invariant adds to `ResolvedIsPublished` that a run's
confirmed items are published: the resolution is written by a run that may have
lost its lease, so only what the run has seen, and that side effects are never
undone, can justify it. The other theorems assume `OneScheduler`. Then no two
runs are alive together: a run is younger than the time since the trigger
(`RunShorterThanInterval`). So what a run planned is still true when it leases,
and its lease, as old as its plan, outlives it (`RunShorterThanLease`). That
invariant gives `ReplaysUnderLease`, `ActiveLeaseKept`, `ResolvedForGood` and
`Implementation`, the refinement of `DlqLifecycle`. Without `OneScheduler` the
second fails (`replay_stolen`).

*DlqCapture.* The invariant `IInv` says that a run past *Fetch* has as its target the first
context of its own execution, that a run at *Send* or *Persist* has its row, that
one at *Persist* has sent, and that every row is of a first context. The first
context of a listing is the first of its own execution (`FirstOfItsExecution`)
and unique (`FirstContextUnique`): so `RowsAreUnique`. That messages have rows and
receipts have messages are parts of it (`MessageHasRow`, `ReceiptHasMessage`).
`MessagesStop` follows because a run gets
to *Send* only from a row without a receipt or from one it has just created.
`Implementation` maps each step of a node to one of `DlqMirror` or to none (`MirrorStep`). A
retry that creates a row again, sends or writes a receipt again is none or the same step;
`RowsAreUnique` is what allows a row only for an execution without one, and
`OnlyFailures` what makes it the row of a failure: a run is started by a failed execution or
by a scan of them, and *Fetch* takes its target from there.

*EventIngestion.* `RunsAtNodes` says what a run knows at each node; with the types it
is inductive (`IngestionTypes`). `LInv` ties the table to its tokens: only valid events
that were sent are stored, and a token of an id and month is known exactly when the id
has a row of that month. `AnswersWarranted` gives the reason for each answer that is given or
about to be: 200 a row, 202 a token, 409 an id that is not honest. Rows and tokens only
grow (`TableGrows`), so a reason stays one (`WarrantedStays`). Hence `AcknowledgedStored` and
`LedgerKept`, the refinement of `EventLedger`, for any months. `OneRowForAnId`,
`StoredEventStays` and `ConflictsAreReal` assume that the valid contents of an id
occurred in one month (`Steady`): tokens are remembered by partition, so a reused id of
another month is stored a second time and replaces what the views show. The run makes the same
assumption by its constants.

*Deployment.* `TInv` says that a run stands at a resource of its plan (`DeployTypeOKHolds`).
`StoppedIsRecoverableHolds`: of a run that nobody has interfered with, each resource was
either saved as it was found or not written yet (`Recoverable`), because all of them are
saved before the first is written. `RolesAreExactHolds` and `RoutesHaveUpstreamHolds` hold
for any number of interleaved runs: nothing is ever removed (`NothingRemoved`), a policy
under a name that stays with its workload always reads what that workload is
approved for (`PoliciesApproved`), and a run past a policy, or past its upstream, has stored it
(`PastPolicies`, `PastUpstream`). Both `PoliciesApproved` and `RolesAreExact` speak of those names only (`NameKept`): when two workloads exchange
the names of their policies, there is a moment at which a role has the policy
of the other. The code does not forbid the exchange. `FinishedIsDeployedHolds` needs no such
restriction. Its invariant (`AppliedSoFar`) says of a run that nobody has interfered with that the puts
before the one it is at are stored, the open route excepted that the submit route has replaced
(`IsReplaced`; in a plan of Vault no two puts are of one resource, `VaultPutsDiffer`), and that from the end of
the preflight, or of its own write, the URL of the auth configuration is that of its configuration: no put
of a plan touches it (`PutsLeaveAuth`). So the exchange of names is over when the run is.

*ComplianceWorker.* `RunInv` says what a run knows at each node: its snapshot is of a known
input, and what it planned is planned for expectations of that input. With the types it is
inductive (`ComplianceTypes`). `CommitsAreTrue` and `DigestsHaveRows` are conjuncts of
`CInv`, which adds why they last: a run that is past *Create* has a row for everybody it
planned one for (`UpsertsRecorded`), a digest that is planned names users who had a row
in the snapshot or get one before the digests are sent (`DigestsPlanned`,
`SnapshotRecorded`), and rows are never deleted. *Commit Action ID*
takes the first item of a list and a run goes on to the next node with items, so the
types need that such a first exists (`HasLeast`, from the well-foundedness of `<` on `Nat`).

The others need more of the inputs or of the order of the nodes:

- `OnTimeIsSafe` assumes `OneDueTime`, that the rules for one report of a user are due
  together: a check-in that is late by one rule and on time by another is stored once. Its
  invariant (`OInv`) carries the clock from the snapshot to the plan: whoever is planned for a
  violation had not reported when a due time had passed, so cannot become on time.
- `AbsentAreLeftAlone` and `RollupsReconcile` assume `AbsentAreAway`, that the sources
  call absent who is inactive, on approved leave or on holiday: `Absent` of an input is
  written down with it, and the theorem is about the builder agreeing with it. The rollup
  counts rows, the facts count users: the proof maps the rows of a pod one to one to the
  keys of who owes a report, which are kept apart by pod, user and type.
- `RunsAreThorough` assumes `AbsentAreAway` as well. It is the part of `MissedIsRecorded`,
  `LateIsResolved` and `GroupEscalated` that needs no fairness: what the snapshot calls for is
  planned unless it has come about, and at its end a run has done all of its plan. The plan
  leaves out what is committed, which was done (`CommittedWasDone`, by `CallsAnswered`); behind
  each node what it had to do is done (`DInv`, with `UpsertsRecorded`), and a node is passed
  only when there is nothing for it to do (`GoesPast`). That runs are started and reach their
  end is what is left to fairness and to the bound on faults.
- `RepetitionsAreBounded` has no assumption. `SendsCounted` says that each message beyond the
  ids committed or staged is paid for by a trouble. It holds because a branch plans nothing
  committed (`PlanIsNew`) and stages at most one id of a kind, and only at its own node
  (`StagedInOrder`): a run that is lost loses one id of a kind, and is one trouble.

TLC evaluates both assumptions on the inputs of the run (`InputsAsProved`).

*VaultSmoke.* `SmokeTypes`; then `RotationIsObserved`: by `VersionsKnown` a
version that the present run has seen is the stored one unless the path was written since the
run began, and one in the evidence unless it was written since the run that left it began.
`SmokeIsolates` uses the invariants of `Deployment`, of which a step of the smoke test is a step or
none (`SmokeDeploys`). `ProvedSoFar` says how far a run that is calm has come: roles and policies of the workloads it has passed are stored as its
configuration has them. It rests on `RolesArePlanned` and `PoliciesArePlanned`: whatever is stored
under a name is what some configuration puts there, so a login and reads that answer as they should
leave no other choice, also where `NameKept` does not hold. It assumes `TestsAreComplete`: a
staging configuration binds every path and each workload to some. `smoke_vault.py` does not validate its configuration and tries to read
only paths that the configuration binds, so a role that is granted an unbound path passes it.

*RetryLoop, EventMetrics, ArchiveCalendar.* `RetriesSlow`: `Waits` says what has been waited
for at each step, that a row comes due no sooner than its last delay after the last try, and
that a lease is as old as the replay it was taken for; a lease (fifteen minutes) is longer than any delay
`RetryPolicy` accepts (five) and a replay together, which is the assumption `LeaseLongerThanDelays`.
`MetricsAgree`: as long as no id was reused, the ledger is the set of sound events
that were delivered (`SoundDelivered`), whatever came twice or out of order; that is the first part of
`MetricsReconcile`, and the only one that excludes conflicts. For the others the reference
and the view are two joins of the same sets (`ViewCounts`), also for groups that only one of them has a
row for (`RowsCount`). Where codes differ the view may have fewer submitted, which the theorem says,
and the other columns are not in it. `DaysAreReported`: a date is past the one on
which the refresh names the day only when the day is archived, and nothing expires before the
month after (`Kept24`). That months are counted the same backwards as forwards
(`InMonthIsDate`, `NumberOfMonth`), leap years included, makes the refresh name every day whose number the
23rd month later has (`HasLaterDay`), and no other (`NamedHasLaterDay`): the theorem says that the
former are reported once throughout, unless their refresh failed (`missed`), and that the others are lost at the
change-over.

*MCOperations.* `TypesHold` puts the parts together: a step of the composition is a step of one part
and none of the others (`PartSteps`), a step of the smoke test is one of an operator or none to
the deployment (`SmokeDeploys`), so the invariants of all parts are kept together (`PartsInv`).
A Vault that is deployed already, where *rotation* starts, is typed because the deployed configuration is
valid (`DeployedIsPlannable`, which TLC evaluates).

Every safety property, every action property and every refinement that a run checks is proved.
Only model-checked is what is about liveness: `EveryRowSettles`,
`FailureMirrored`, `SubmitterNotified`, `EventuallyAnswered`, `MissedIsRecorded`, `LateIsResolved` and
`GroupEscalated`. The provers have neither fairness nor ENABLED.

## Differences with the documents

- `replay_stolen`: ADR-0009 says an active lease cannot be stolen; the lease is an
  unconditional PATCH. With one active scheduler, which the runbook asks for, it holds.
- `replay_first_only`: ADR-0009 says a successful replay resolves the row; one
  resolution is built for a run, the others wait for their lease to expire. One row
  that can never be confirmed ends every run it is leased in, and with it the
  resolution of the others.
- `capture_unmirrored`: ADR-0003 says reconciliation mirrors any unrecorded failure; a
  scan mirrors the first of its listing, again and again, and nothing at all while the
  context of that one is refused.
- `capture_two_messages`: the runbook's drill asks for one message; the trigger and a
  scan may overlap.
- `ingestion_conflict`: ADR-0008 says reuse of an id must never be silently accepted;
  two deliveries at once are both answered 202.

Seen while modelling, without a run: the row of an execution that failed at a later
side effect records the one first in the alphabet; ADR-0003 says the message is
attempted immediately, the workflow sends it after the row exists, so not while
Baserow is down.

Of the compliance worker:

- *Commit Action ID* runs once for a branch and commits the first item, so the other
  nudges and digests of a run are sent again by the next one; `compliance-operations.md:22-24`
  expects one of each and counts that do not grow. `SendsBounded` is what holds.
- Digests have one id for a pod, day and type: a user who is due, or missing,
  later than the first digest is named in none (`architecture.md:97-98` groups unresolved
  violations at SLA plus 24 hours).
- Beyond ten thousand ids `commit-action.js` drops the first in the alphabet, the digests,
  whatever their age, and what is dropped is sent again. `SendsBounded` speaks of behaviours in which nothing was
dropped yet.
- When the answer of *Create* is lost, every try after it is refused and the run fails;
  the next run finds the row.
- *Resolve* is a PATCH by id and overwrites a waiver written in between. A leave approved
  after the violation leaves it open, and one approved after the fetch does not keep the run from recording it.
- A snapshot without a time is planned with the planner's clock; a check-in accepted between
  fetch and plan is then taken for missing. `OnTimeNotViolated` is about snapshots with one.
- At a change of clocks `zonedTimeToUtc` (JavaScript) and `_local_due` (Python) may disagree;
  a zone is an offset here.

Of the archive: the refresh copies the day with today's number 23 months ago, so a day whose
number its 23rd later month does not have (31 March, 31 May, and others) is never copied and
leaves the report at month 23, while `003_archive_rollups.sql:2` says each day is copied.
`DayReported` states this loss. A day whose refresh failed with all its retries is not copied
either; of such a day `DayReported` says only that it is reported until then.

Of the metrics: `reconcile_metrics` (`analytics.py:114`, "Reproduce Grafana reporting metrics")
sums blocked tasks over every submitter, the view over the expected ones and once for each
of their expectations, and the view also joins on the SLA code. `MetricsReconcile` therefore compares
expected and submitting members, the latter as equal only where the codes agree (`CodesAgree`).

The view's other columns, rates and latencies among them, are not compared.

Of `reliability.py`: `build_dlq_record` refuses any count of attempts but the policy's, so a
failure that was not retried has no row.

Of the deployment: roles and policies that a configuration no longer names are not deleted; two
routes with one id are accepted, and the second put replaces the first; the
preflight compares the auth configuration once, without its certificates, and another operator may change it before the
puts; a secret that is written while the baseline of a rotation is being read counts as rotated;
`smoke_vault.py` does not validate its configuration.

## Not modelled

- More rows that never settle than a page of the fetch holds: they would keep every later row
  from being replayed. `EveryRowSettles` is about rows that can settle.
- `checkin-context.lua`, rate limiting, tracing: one function from a request to headers,
  without state; the rest is APISIX's own.
- The workflows that fetch a week's rows and post the rollup, and that insert expectations:
  the functions they call are modelled, their requests keep no state of their own.
- Rates, latencies and proofs of `analytics.py`, the event-health view: statistics of the same rows.
  The other two archives have the form of the one modelled; grants are configuration.
- `render_n8n.py`, `build_release.py`, `release_manifest.py`, `scan_secrets.py`,
  `validate_contracts.py`, `validate_hardening.py`, `smoke_gateway.py`: one-shot tools that read and
  write files or send one request after another; nothing of them outlives a call.
- Contracts, dashboards, load scripts: declarations.

## Plan

1. Proofs: the steps the liveness properties rest on, as safety (what a run at a node
   leads to).
2. A composition of capture and replay on one table.
3. Two compliance schedulers at once, which the runbook excludes.
