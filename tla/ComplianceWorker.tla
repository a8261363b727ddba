-------------------------- MODULE ComplianceWorker --------------------------
(***************************************************************************)
(* The compliance workflow: every five minutes a run fetches a snapshot of *)
(* one cycle date, plans (module Compliance), and works through the        *)
(* branches of Route Action from top to bottom: nudges, new violations,    *)
(* resolutions, digests.  What was sent is remembered in the workflow's    *)
(* static data, a copy of which the run changes and n8n saves when the run *)
(* ends.                                                                   *)
(*                                                                         *)
(* Runs do not overlap: the runbook wants one active scheduler and a run   *)
(* that completes within the five minutes, which its timeouts guarantee.   *)
(* A node sends one request per item and is tried again with all of them;  *)
(* a try is one step here, since nothing else writes what its requests     *)
(* write.                                                                  *)
(***************************************************************************)
EXTENDS Compliance, Sequences

CONSTANTS
  Inputs,      \* sequence: roster, rules, leave and holidays of the sources, what
               \* is listed twice, who is absent, and whether a snapshot carries
               \* its time
  CycleDay,    \* the date of the snapshots
  KeepIds,     \* ids the static data holds (10000 in commit-action.js)
  MaxTries,    \* tries of a writing node (3 in the template)
  MaxFaults,   \* bound: lost requests, lost answers, crashes in a behaviour
  Horizon,     \* bound: the instant at which the model's clock stops
  MaxSent      \* bound: where the counts of sent messages saturate

ASSUME BoundsAssumption ==
  /\ KeepIds \in Nat /\ MaxFaults \in Nat /\ Horizon \in Nat
  /\ MaxTries \in Nat \ {0} /\ MaxSent \in Nat \ {0}

\* Users, pods and codes are numbers in the order of their strings.
ASSUME InputsAssumption ==
  /\ DOMAIN Inputs \subseteq Nat \ {0} /\ CycleDay \in Int
  /\ \A i \in DOMAIN Inputs :
       /\ DOMAIN Inputs[i] = {"roster", "rules", "leave", "holidays", "twice", "absent", "timed"}
       /\ IsFiniteSet(Inputs[i].roster) /\ IsFiniteSet(Inputs[i].rules)
       /\ \A member \in Inputs[i].roster :
            member.user \in Nat /\ member.pod \in Nat /\ member.zone[CycleDay] \in Int
       /\ \A rule \in Inputs[i].rules : rule.code \in Nat /\ rule.at \in Int

VARIABLES
  clock,       \* the present instant
  sources,       \* which of the Inputs the sources hold
  checkins,    \* [Keys]: "none", "on_time" or "late", as the Submit workflow writes
  violations,  \* [Keys]: status of the PI-6 row, "none" when there is none
  nudged,      \* [Slots]: nudges sent for an expectation
  digested,    \* [Groups]: digests sent for a group
  named,       \* [Groups]: expectations named in one of them
  static,      \* saved ids of committed actions
  evicted,     \* was an id ever dropped from the static data
  at,          \* the node the run is at
  snapshot,    \* what the run fetched
  plan,        \* the actions it planned
  missing,     \* the violations Find Existing Violation did not find
  tries,       \* number of this try of the node
  staged,      \* ids committed by this run
  troubles     \* failed tries and crashes so far

world    == <<checkins, violations, nudged, digested, named>>
runVars  == <<at, snapshot, plan, missing, tries, staged>>
vars     == <<clock, sources, world, static, evicted, runVars, troubles>>

Built  == [i \in DOMAIN Inputs |-> Expectations(Inputs[i], CycleDay)]
Broken == {i \in DOMAIN Inputs : BuildFails(Inputs[i])}
Usable == DOMAIN Inputs \ Broken
Absent == [i \in DOMAIN Inputs \cup {0} |-> IF i = 0 THEN {} ELSE Inputs[i].absent]
Owed   == [i \in DOMAIN Inputs |->
             IF i \in Broken THEN {}
             ELSE {e \in Built[i] : e.type = "EOD" /\ e.user \notin Absent[i]}]

Current == Built[sources]
Slots   == UNION {Built[i] : i \in DOMAIN Inputs}
SlotIds == {NudgeId(e) : e \in Slots}
Keys    == {Key(e) : e \in Slots}
Groups  == {Group(e) : e \in Slots}
Ids     == SlotIds \cup {UpsertId(k) : k \in Keys} \cup {ResolutionId(k) : k \in Keys}
             \cup {EscalationId(g) : g \in Groups}

NoSnapshot == [input |-> 0, accepted |-> {}, status |-> <<>>, now |-> -1]

Init ==
  /\ clock = 0
  /\ sources \in DOMAIN Inputs
  /\ checkins = [k \in Keys |-> "none"]
  /\ violations = [k \in Keys |-> "none"]
  /\ nudged = [i \in SlotIds |-> 0]
  /\ digested = [g \in Groups |-> 0]
  /\ named = [g \in Groups |-> {}]
  /\ static = {} /\ evicted = FALSE
  /\ at = "idle" /\ snapshot = NoSnapshot /\ plan = {} /\ missing = {}
  /\ tries = 1 /\ staged = {} /\ troubles = 0
-----------------------------------------------------------------------------
(* Committed ids *)

Rank == [esc |-> 1, nudge |-> 2, resolve |-> 3, upsert |-> 4]

\* Ids that are never dropped.
KeptAll(S) == {S}

\* The ids saved from S: the last KeepIds in the order of the strings, which
\* is the order of the prefixes and arbitrary among digests of one prefix.
KeptFrom(S) ==
  {K \in SUBSET S :
     /\ Cardinality(K) = IF Cardinality(S) <= KeepIds THEN Cardinality(S) ELSE KeepIds
     /\ \A dropped \in S \ K, kept \in K : Rank[dropped[1]] <= Rank[kept[1]]}

Save ==
  \E K \in KeptFrom(static \cup staged) :
    /\ static' = K
    /\ evicted' = (evicted \/ K # static \cup staged)

\* The order of the plan: <<user, date, type, code>> or <<pod, date, type>>,
\* compared from the left.
Precedes(a, b) ==
  LET x == a.id[2]
      y == b.id[2]
      differ == {i \in DOMAIN x : x[i] # y[i]}
      first == CHOOSE i \in differ : \A j \in differ : i <= j
  IN differ = {} \/ IF first = 3 THEN x[3] = "EOD" ELSE x[first] < y[first]

First(S) == CHOOSE a \in S : \A b \in S : Precedes(a, b)

\* Nothing committed, and the whole plan.
CommitNone(S) == {}
CommitPlanned(S) == {a.id : a \in plan}

\* Commit Action ID after a node that was given the items S: it runs once and
\* takes the action of the first item.
Commit(S) == IF S = {} THEN {} ELSE {First(S).id}
-----------------------------------------------------------------------------
(* Nodes *)

Of(kind, acts) == {a \in acts : a.kind = kind}

\* Digests at the top of the canvas.
NodesDigestFirst == <<"digest", "nudge", "find", "create", "resolve">>

\* The nodes, in the order n8n runs the branches.
Nodes == <<"nudge", "find", "create", "resolve", "digest">>

ItemsAt(node, acts, miss) ==
  CASE node = "nudge"   -> Of("nudge", acts)
    [] node = "find"    -> Of("upsert", acts)
    [] node = "create"  -> miss
    [] node = "resolve" -> Of("resolve", acts)
    [] node = "digest"  -> Of("digest", acts)

Items == ItemsAt(at, plan, missing)

\* A run that is over at an empty branch.
GoOnWhileItems(i, acts, miss) ==
  /\ at' = IF i < Len(Nodes) /\ ItemsAt(Nodes[i + 1], acts, miss) # {} THEN Nodes[i + 1] ELSE "end"
  /\ plan' = acts /\ missing' = miss /\ tries' = 1

\* The run goes on at the first node after position i that has an item.
GoOn(i, acts, miss) ==
  LET next == {j \in (i + 1)..Len(Nodes) : ItemsAt(Nodes[j], acts, miss) # {}}
  IN /\ at' = IF next = {} THEN "end"
              ELSE Nodes[CHOOSE j \in next : \A l \in next : j <= l]
     /\ plan' = acts /\ missing' = miss /\ tries' = 1

Position(node) == CHOOSE j \in DOMAIN Nodes : Nodes[j] = node

Leave == GoOn(Position(at), plan, missing) /\ UNCHANGED snapshot

EndRun ==
  /\ at' = "idle" /\ snapshot' = NoSnapshot /\ plan' = {} /\ missing' = {}
  /\ tries' = 1 /\ staged' = {}

\* A run that ends with an error: its static data may have been saved.
FailRun == EndRun /\ (Save \/ UNCHANGED <<static, evicted>>)

\* A failed try is repeated with all items, until the last one fails the run.
RetryOrFail ==
  \/ /\ tries < MaxTries
     /\ tries' = tries + 1
     /\ UNCHANGED <<at, snapshot, plan, missing, staged, static, evicted>>
  \/ tries >= MaxTries /\ FailRun

Trouble == troubles' = troubles + 1
Fault == troubles < MaxFaults /\ Trouble
-----------------------------------------------------------------------------
(* The world *)

\* A run reads the clock only until it has planned; the rest of it is over
\* before the next tick.
Tick ==
  /\ clock < Horizon /\ at \in {"idle", "plan"}
  /\ clock' = clock + 1
  /\ UNCHANGED <<sources, world, static, evicted, runVars, troubles>>

\* The Submit workflow accepts a check-in of a member.
Submit(e) ==
  /\ e \in Current /\ checkins[Key(e)] = "none"
  /\ checkins' = [checkins EXCEPT ![Key(e)] = IF clock < e.due THEN "on_time" ELSE "late"]
  /\ UNCHANGED <<clock, sources, violations, nudged, digested, named, static, evicted,
                 runVars, troubles>>

\* A requested leave is approved; the user is then absent on its days.
ApproveLeave(record) ==
  /\ record.status = "requested"
  /\ \E i \in DOMAIN Inputs :
       /\ Inputs[i].leave = (Inputs[sources].leave \ {record})
                              \cup {[record EXCEPT !.status = "approved"]}
       /\ Inputs[i] = [Inputs[sources] EXCEPT !.leave = Inputs[i].leave,
                                            !.absent = Inputs[i].absent]
       /\ sources' = i
  /\ UNCHANGED <<clock, world, static, evicted, runVars, troubles>>

\* An operator waives an open violation, by hand, in Baserow.
Waive(k) ==
  /\ violations[k] = "open"
  /\ violations' = [violations EXCEPT ![k] = "waived"]
  /\ UNCHANGED <<clock, sources, checkins, nudged, digested, named, static, evicted,
                 runVars, troubles>>

\* n8n stops in the middle of a run: its static data is lost.
Crash ==
  /\ at # "idle"
  /\ Fault /\ EndRun
  /\ UNCHANGED <<clock, sources, world, static, evicted>>
-----------------------------------------------------------------------------
(* The workflow *)

Accepted == {k \in Keys : checkins[k] # "none"}

\* Fetch Compliance Snapshot: the sources as they are, with their time or
\* without it.  A fetch that fails changes nothing.
Fetch ==
  /\ at = "idle" /\ at' = "plan"
  /\ snapshot' = [input |-> sources, accepted |-> Accepted, status |-> violations,
                  now |-> IF Inputs[sources].timed THEN clock ELSE -1]
  /\ UNCHANGED <<clock, sources, world, static, evicted, plan, missing, tries, staged,
                 troubles>>

\* Build Expectations and Plan Compliance Actions: one execution of code.  The
\* clock is the snapshot's, else the planner's own.  The ids committed are those
\* of the static data: existing_action_ids, a field of the snapshot that the
\* planner would add to them, is left out: nothing in the repository fills it.
Plan ==
  /\ at = "plan"
  /\ \/ snapshot.input \in Broken /\ FailRun
     \/ /\ snapshot.input \notin Broken
        /\ \E acts \in {PlanComplianceActions(
                          Built[snapshot.input], snapshot.accepted, snapshot.status,
                          IF snapshot.now = -1 THEN clock ELSE snapshot.now, static)} :
             GoOn(0, acts, {})
        /\ snapshot' = [snapshot EXCEPT !.accepted = {}, !.status = <<>>]
        /\ UNCHANGED <<staged, static, evicted>>
  /\ UNCHANGED <<clock, sources, world, troubles>>

OneMore(n) == IF n < MaxSent THEN n + 1 ELSE n

Nudge(S) ==
  nudged' = [i \in SlotIds |-> IF \E a \in S : a.id = i THEN OneMore(nudged[i])
                               ELSE nudged[i]]

SendNudges ==
  /\ at = "nudge"
  /\ Nudge(Items) /\ staged' = staged \cup Commit(Items) /\ Leave
  /\ UNCHANGED <<clock, sources, checkins, violations, digested, named, static, evicted,
                 troubles>>

SendNudgesFailed ==
  /\ at = "nudge"
  /\ Fault /\ \E S \in SUBSET Items : Nudge(S)
  /\ RetryOrFail
  /\ UNCHANGED <<clock, sources, checkins, violations, digested, named>>

\* Find Existing Violation and Violation Missing; what was found is committed
\* after the branch of what was not, and only here when that is empty.
Unknown == {a \in Items : violations[a.key] = "none"}

Find ==
  /\ at = "find"
  /\ staged' = IF Unknown = {} THEN staged \cup Commit(Items) ELSE staged
  /\ GoOn(Position("find"), plan, Unknown) /\ UNCHANGED snapshot
  /\ UNCHANGED <<clock, sources, world, static, evicted, troubles>>

\* The nodes that look a violation up are tried once.
FindFailed ==
  /\ at = "find"
  /\ Fault /\ FailRun
  /\ UNCHANGED <<clock, sources, world>>

Open(S) ==
  violations' = [k \in Keys |-> IF violations[k] = "none" /\ \E a \in S : a.key = k
                                  THEN "open" ELSE violations[k]]

\* Baserow refuses a second row of one violation_id.
Refused(S) ==
  \/ \E a \in S : violations[a.key] # "none"
  \/ \E a, b \in S : a # b /\ a.key = b.key

Create ==
  /\ at = "create" /\ ~Refused(Items)
  /\ Open(Items)
  /\ staged' = staged \cup Commit(Items) \cup Commit(Of("upsert", plan) \ Items)
  /\ Leave
  /\ UNCHANGED <<clock, sources, checkins, nudged, digested, named, static, evicted,
                 troubles>>

CreateRefused ==
  /\ at = "create" /\ Refused(Items)
  /\ Open(Items) /\ Trouble
  /\ RetryOrFail
  /\ UNCHANGED <<clock, sources, checkins, nudged, digested, named>>

CreateFailed ==
  /\ at = "create"
  /\ Fault /\ \E S \in SUBSET Items : Open(S)
  /\ RetryOrFail
  /\ UNCHANGED <<clock, sources, checkins, nudged, digested, named>>

Close(S) ==
  violations' = [k \in Keys |-> IF \E a \in S : a.key = k THEN "resolved" ELSE violations[k]]

\* Find Violation to Resolve and Resolve PI-6 Violation, a PATCH that looks at
\* nothing.
Resolve ==
  /\ at = "resolve"
  /\ Close(Items) /\ staged' = staged \cup Commit(Items) /\ Leave
  /\ UNCHANGED <<clock, sources, checkins, nudged, digested, named, static, evicted,
                 troubles>>

ResolveFailed ==
  /\ at = "resolve"
  /\ Fault
  /\ \/ (\E S \in SUBSET Items : Close(S)) /\ RetryOrFail
     \/ tries = 1 /\ UNCHANGED violations /\ FailRun
  /\ UNCHANGED <<clock, sources, checkins, nudged, digested, named>>

Digest(S) ==
  /\ digested' = [g \in Groups |-> IF \E a \in S : a.key = g THEN OneMore(digested[g])
                                     ELSE digested[g]]
  /\ named' = [g \in Groups |-> named[g] \cup UNION {a.rows : a \in {a \in S : a.key = g}}]

SendDigests ==
  /\ at = "digest"
  /\ Digest(Items) /\ staged' = staged \cup Commit(Items) /\ Leave
  /\ UNCHANGED <<clock, sources, checkins, violations, nudged, static, evicted, troubles>>

SendDigestsFailed ==
  /\ at = "digest"
  /\ Fault /\ \E S \in SUBSET Items : Digest(S)
  /\ RetryOrFail
  /\ UNCHANGED <<clock, sources, checkins, violations, nudged>>

\* The run succeeds and n8n saves its static data.
Finish ==
  /\ at = "end"
  /\ EndRun /\ Save
  /\ UNCHANGED <<clock, sources, world, troubles>>

Progress ==
  \/ Fetch \/ Plan \/ SendNudges \/ Find \/ Create \/ CreateRefused \/ Resolve \/ SendDigests
  \/ Finish

Disturbance ==
  \/ SendNudgesFailed \/ FindFailed \/ CreateFailed \/ ResolveFailed
  \/ SendDigestsFailed \/ Crash

Environment ==
  \/ Tick
  \/ \E e \in Current : Submit(e)
  \/ \E record \in Inputs[sources].leave : ApproveLeave(record)
  \/ \E k \in Keys : Waive(k)

Next == Progress \/ Disturbance \/ Environment

Spec == Init /\ [][Next]_vars

\* n8n fires the schedule and goes on with a started run.
FairSpec == Spec /\ WF_vars(Progress)
-----------------------------------------------------------------------------
(* What some of the theorems ask of the inputs *)

\* The rules for one report of a user are due together.
OneDueTime ==
  \A i \in Usable : \A e, f \in Built[i] : Key(e) = Key(f) => e.due = f.due

\* The sources call those absent who are inactive, on approved leave or on
\* holiday.
AbsentAreAway ==
  \A i \in Usable : \A member \in Inputs[i].roster :
    member.user \in Inputs[i].absent <=>
      \/ ~IsActive(member, CycleDay)
      \/ OnApprovedLeave(member.user, CycleDay, Inputs[i].leave)
      \/ IsHoliday(member.pod, CycleDay, Inputs[i].holidays)

-----------------------------------------------------------------------------
(* Properties *)

RunPhases == {"idle", "plan", "end"} \cup {Nodes[i] : i \in DOMAIN Nodes}

\* Types: the state stays within what Baserow, n8n and the model can hold.
TypeOK ==
  /\ clock \in 0..Horizon
  /\ checkins \in [Keys -> {"none", "on_time", "late"}]
  /\ violations \in [Keys -> {"none", "open", "resolved", "waived"}]
  /\ nudged \in [SlotIds -> 0..MaxSent]
  /\ digested \in [Groups -> 0..MaxSent]
  /\ static \subseteq Ids /\ Cardinality(static) <= KeepIds
  /\ staged \subseteq {a.id : a \in plan}
  /\ evicted \in BOOLEAN
  /\ at \in RunPhases
  /\ missing \subseteq plan
  /\ tries \in 1..MaxTries
  /\ troubles \in Nat

\* An action is committed, by the run or in the saved static data, only when
\* it was carried out: no failure, crash or branch order loses an action for
\* good (commit-action.js runs after the node that carries it out).
CommittedWasDone ==
  /\ \A i \in (static \cup staged) \cap SlotIds : nudged[i] > 0
  /\ \A k \in Keys :
       /\ UpsertId(k) \in static \cup staged => violations[k] # "none"
       /\ ResolutionId(k) \in static \cup staged => violations[k] = "resolved"
  /\ \A g \in Groups : EscalationId(g) \in static \cup staged => digested[g] > 0

\* A digest names only users whose violation is recorded, also when the
\* creation of some of them failed: the digest branch comes last.
DigestHasRows ==
  \A g \in Groups : \A e \in named[g] : violations[Key(e)] # "none"

\* Without evictions a message is repeated at most once for every message of
\* its kind, because a run commits only the first of a branch, and once for
\* every failed try, crash or refused row.
SendsBounded ==
  ~evicted =>
    /\ \A i \in SlotIds :
         nudged[i] <= Cardinality({NudgeId(e) : e \in Current}) + troubles
    /\ \A g \in Groups :
         digested[g] <= Cardinality({Group(e) : e \in Current}) + troubles

\* A violation is never recorded against an on-time check-in when the snapshot
\* carries its own time; with the planner's clock a check-in accepted between
\* the fetch and the plan would be overlooked.
OnTimeNotViolated ==
  [][\A k \in Keys :
       violations[k] = "none" /\ violations'[k] = "open" /\ snapshot.now # -1
         => checkins[k] # "on_time"]_vars

\* Nobody who was away when the snapshot was taken, by leave, holiday, dates or
\* deactivation, is nudged, violated or named in a digest, nor when the sources
\* contradict each other (compliance-operations.md, routine checks).
SuppressedUntouched ==
  [][\A e \in Slots : e.user \in Absent[snapshot.input] =>
       /\ nudged'[NudgeId(e)] = nudged[NudgeId(e)]
       /\ violations[Key(e)] = "none" => violations'[Key(e)] = "none"
       /\ e \in named'[Group(e)] => e \in named[Group(e)]]_vars

\* What a snapshot calls for: a missed end of day, an open violation whose
\* check-in came, a pod with a violation past its escalation time.
PlanTime == IF snapshot.now = -1 THEN clock ELSE snapshot.now

MissedThen ==
  {e \in Owed[snapshot.input] : e.due <= PlanTime /\ Key(e) \notin snapshot.accepted}

CalledFor ==
  {[kind |-> "upsert", key |-> Key(e)] : e \in MissedThen}
    \cup {[kind |-> "resolve", key |-> Key(e)] :
            e \in {e \in Owed[snapshot.input] :
                    Key(e) \in snapshot.accepted /\ snapshot.status[Key(e)] = "open"}}
    \cup {[kind |-> "digest", key |-> Group(e)] :
            e \in {e \in MissedThen : /\ e.due + EscalateAfter <= PlanTime
                                     /\ snapshot.status[Key(e)] \in {"none", "open"}}}

Effected(a) ==
  /\ a.kind = "nudge" => nudged[a.id] > 0
  /\ a.kind = "upsert" => violations[a.key] # "none"
  /\ a.kind = "resolve" => violations[a.key] = "resolved"
  /\ a.kind = "digest" => digested[a.key] > 0

\* What the snapshot calls for is planned unless it has come about, whatever
\* earlier runs committed and lost; and a run that reaches its end has carried
\* out all of its plan, the branches behind an empty one too, and has named
\* in its digests everyone it meant to.
NothingIsSkipped ==
  [][/\ at = "plan" /\ at' \notin {"idle", "plan"} =>
          \A c \in CalledFor :
            Effected(c) \/ \E a \in plan' : a.kind = c.kind /\ a.key = c.key
     /\ at = "end" =>
          \A a \in plan : Effected(a) /\ (a.kind = "digest" => a.rows \subseteq named[a.key])]_vars

\* The check-ins for the expectations exps as the rollup is given them: every
\* one is listed twice.
CheckinRows(exps, ci) ==
  LET row(e, n) == [user |-> e.user, date |-> e.date, type |-> e.type, pod |-> e.pod,
                    sla |-> ci[Key(e)], nth |-> n]
      made == {e \in exps : ci[Key(e)] # "none"}
  IN {row(e, 1) : e \in made} \cup {row(e, 2) : e \in made}

\* The weekly rollup agrees with the facts: of each pod it counts who had to
\* report once, whatever the number of rules, who did and who did not, once
\* although their check-ins are listed twice.
RollupReconciles ==
  LET exps == Current
      rows == CheckinRows(exps, checkins)
      owing == {e \in exps : e.user \notin Absent[sources]}
      count(pod, sla) ==
        Cardinality({Key(e) : e \in {e \in owing : e.pod = pod /\ checkins[Key(e)] \in sla}})
      tally(pod) == [pod |-> pod, expected |-> count(pod, {"none", "on_time", "late"}),
                     submitted |-> count(pod, {"on_time", "late"}),
                     missing |-> count(pod, {"none"}),
                     on_time |-> count(pod, {"on_time"}), late |-> count(pod, {"late"})]
  IN sources \notin Broken =>
       /\ WeeklyRollup(exps, rows, CycleDay - 6, CycleDay) = {tally(pod) : pod \in {e.pod : e \in owing}}
       /\ WeeklyRollup(exps, rows, CycleDay + 1, CycleDay + 7) = {}

\* The end-of-day updates that are due from users who are not away.
Due == {e \in Owed[sources] : e.due <= clock}

OwedKeys   == {Key(e) : e \in UNION {Owed[i] : i \in DOMAIN Inputs}}
OwedGroups == {Group(e) : e \in UNION {Owed[i] : i \in DOMAIN Inputs}}

Owes(k) == \E e \in Due : Key(e) = k

\* Whoever misses the end of day gets a violation in the end, whatever tries,
\* runs and ids are lost.
MissedIsRecorded ==
  \A k \in OwedKeys :
    (Owes(k) /\ checkins[k] = "none")
      ~> (violations[k] # "none" \/ checkins[k] # "none" \/ ~Owes(k))

\* A violation whose check-in came late, or crossed the run that recorded it,
\* does not stay open.
LateIsResolved ==
  \A k \in OwedKeys :
    (Owes(k) /\ violations[k] = "open" /\ checkins[k] # "none")
      ~> (violations[k] # "open" \/ ~Owes(k))

Escalatable(g) ==
  \E e \in Due : /\ Group(e) = g /\ e.due + EscalateAfter <= clock
                 /\ checkins[Key(e)] = "none" /\ violations[Key(e)] = "open"

\* A pod with an open violation past its escalation time gets a digest.
GroupEscalated ==
  \A g \in OwedGroups : Escalatable(g) ~> (digested[g] > 0 \/ ~Escalatable(g))
=============================================================================
