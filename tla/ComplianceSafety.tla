-------------------------- MODULE ComplianceSafety --------------------------
(***************************************************************************)
(* Proofs about ComplianceWorker that need more than the plan of a run:    *)
(* nobody who was on time is violated, nobody who is away is touched, a    *)
(* message is repeated only as often as the workflow forgets, the weekly   *)
(* rollup counts every report once, and a run skips nothing.               *)
(***************************************************************************)
EXTENDS ComplianceProofs

-----------------------------------------------------------------------------
(* Nobody who was on time *)

SameRoster(i, j) ==
  /\ Inputs[i].roster = Inputs[j].roster /\ Inputs[i].rules = Inputs[j].rules
  /\ Inputs[i].twice = Inputs[j].twice

\* A snapshot is of the sources as they are, up to leave.  It is not ahead of
\* the clock; whoever reported on time after it was before the due time, and
\* whoever is to be violated is past it, not having reported on time.
SnapshotNow ==
  at # "idle" =>
    /\ SameRoster(sources, snapshot.input)
    /\ snapshot.now # -1 => snapshot.now \in Nat /\ snapshot.now <= clock

PlanOnTime ==
  at = "plan" /\ snapshot.now # -1 /\ snapshot.input \in Usable =>
    \A e \in Built[snapshot.input] :
      Key(e) \notin snapshot.accepted /\ checkins[Key(e)] = "on_time" => snapshot.now < e.due

UpsertsLate ==
  Working /\ snapshot.now # -1 =>
    \A a \in Of("upsert", plan) :
      /\ checkins[a.key] # "on_time"
      /\ \E e \in Built[snapshot.input] : Key(e) = a.key /\ e.due <= clock

OInv == SnapshotNow /\ PlanOnTime /\ UpsertsLate

\* The slots of two inputs with the same roster and rules are the same.
LEMMA SameSlots ==
  ASSUME NEW i \in DOMAIN Inputs, NEW j \in DOMAIN Inputs, SameRoster(i, j), NEW e \in Built[i]
  PROVE  \E f \in Built[j] : /\ Key(f) = Key(e) /\ Group(f) = Group(e) /\ NudgeId(f) = NudgeId(e)
                             /\ f.due = e.due /\ f.user = e.user
<1>1. PICK mr \in Applications(Inputs[i]) :
        e = [user |-> mr[1].user, pod |-> mr[1].pod, date |-> CycleDay,
             type |-> mr[2].type, code |-> mr[2].code,
             due |-> LocalDue(CycleDay, mr[1].zone, mr[2].at),
             state |-> AttendanceState(mr[1], CycleDay, Inputs[i])]
  BY DEF Built, Expectations
<1>2. mr \in Applications(Inputs[j])
  BY DEF Applications, SameRoster
<1> DEFINE f == [user |-> mr[1].user, pod |-> mr[1].pod, date |-> CycleDay,
                 type |-> mr[2].type, code |-> mr[2].code,
                 due |-> LocalDue(CycleDay, mr[1].zone, mr[2].at),
                 state |-> AttendanceState(mr[1], CycleDay, Inputs[j])]
<1>3. f \in Built[j]
  BY <1>2 DEF Built, Expectations
<1>4. /\ f.user = e.user /\ f.pod = e.pod /\ f.date = e.date /\ f.type = e.type /\ f.code = e.code
      /\ f.due = e.due
  BY <1>1
<1> HIDE DEF f
<1> QED
  BY <1>3, <1>4 DEF Key, Group, NudgeId

\* A usable roster stays usable when leave is approved.
LEMMA SameUsable ==
  ASSUME NEW i \in DOMAIN Inputs, NEW j \in DOMAIN Inputs, SameRoster(i, j), i \in Usable
  PROVE  j \in Usable
BY DEF Usable, Broken, BuildFails, Applications, SameRoster

LEMMA LeaveKeepsRoster ==
  ASSUME SourcesOK, NEW record, ApproveLeave(record)
  PROVE  SourcesOK' /\ SameRoster(sources', sources)
<1>1. PICK i \in DOMAIN Inputs :
        /\ Inputs[i] = [Inputs[sources] EXCEPT !.leave = Inputs[i].leave, !.absent = Inputs[i].absent]
        /\ sources' = i
  BY DEF ApproveLeave
<1>2. DOMAIN Inputs[sources] = {"roster", "rules", "leave", "holidays", "twice", "absent", "timed"}
  BY InputsAssumption DEF SourcesOK
<1>3. /\ Inputs[i].roster = Inputs[sources].roster /\ Inputs[i].rules = Inputs[sources].rules
      /\ Inputs[i].twice = Inputs[sources].twice
  BY <1>1, <1>2
<1> QED
  BY <1>1, <1>3 DEF SourcesOK, SameRoster

\* The clock, the sources and the check-ins move only with the environment.
LEMMA OthersKept ==
  ASSUME [Next]_vars
  PROVE  \/ Environment
         \/ UNCHANGED <<clock, sources, checkins>>
BY DEF Next, Progress, Disturbance, Fetch, Plan, SendNudges, Find, Create, CreateRefused, Resolve,
   SendDigests, Finish, SendNudgesFailed, FindFailed, CreateFailed, ResolveFailed,
   SendDigestsFailed, Crash, vars, world

\* A step of the environment: time goes on, leave is approved, an on-time
\* check-in is before its due time.
LEMMA EnvironmentMoves ==
  ASSUME TInv, Environment
  PROVE  /\ UNCHANGED <<at, snapshot, plan, missing>>
         /\ clock' \in Nat /\ clock <= clock' /\ (at \notin {"idle", "plan"} => clock' = clock)
         /\ SameRoster(sources', sources)
         /\ \A k \in Keys : checkins'[k] = "on_time" /\ checkins[k] # "on_time" =>
              \E e \in Current : Key(e) = k /\ clock < e.due /\ clock' = clock /\ sources' = sources
<1>1. clock \in Nat /\ checkins \in [Keys -> {"none", "on_time", "late"}] /\ SourcesOK
  BY BoundsAssumption DEF TInv, TypeOK
<1>2. CASE Tick
  BY <1>1, <1>2 DEF Tick, SameRoster, world, runVars
<1>3. ASSUME NEW e \in Current, Submit(e)
      PROVE  /\ UNCHANGED <<at, snapshot, plan, missing>>
             /\ clock' = clock /\ sources' = sources
             /\ \A k \in Keys : checkins'[k] = "on_time" /\ checkins[k] # "on_time" =>
                  Key(e) = k /\ clock < e.due
  BY <1>1, <1>3 DEF Submit, runVars
<1>4. ASSUME NEW record \in Inputs[sources].leave, ApproveLeave(record)
      PROVE  /\ UNCHANGED <<at, snapshot, plan, missing>>
             /\ clock' = clock /\ checkins' = checkins /\ SameRoster(sources', sources)
  BY <1>1, <1>4, LeaveKeepsRoster DEF ApproveLeave, world, runVars
<1>5. ASSUME NEW k \in Keys, Waive(k)
      PROVE  /\ UNCHANGED <<at, snapshot, plan, missing>>
             /\ clock' = clock /\ checkins' = checkins /\ sources' = sources
  BY <1>5 DEF Waive, runVars
<1>6. SameRoster(sources, sources)
  BY DEF SameRoster
<1>7. clock <= clock
  BY <1>1
<1> QED
  BY <1>1, <1>2, <1>3, <1>4, <1>5, <1>6, <1>7 DEF Environment

LEMMA NowStep ==
  ASSUME TInv, SnapshotNow, [Next]_vars
  PROVE  SnapshotNow'
<1>1. clock \in Nat /\ SourcesOK
  BY BoundsAssumption DEF TInv, TypeOK
<1>2. CASE Environment
  <2>1. /\ UNCHANGED <<at, snapshot>> /\ clock' \in Nat /\ clock <= clock'
        /\ SameRoster(sources', sources)
    BY <1>2, EnvironmentMoves
  <2> QED
    BY <1>1, <2>1 DEF SnapshotNow, SameRoster
<1>3. CASE UNCHANGED <<clock, sources, checkins>>
  <2>1. CASE UNCHANGED <<at, snapshot>>
    BY <1>3, <2>1 DEF SnapshotNow, SameRoster
  <2>2. CASE at' = "idle"
    BY <2>2 DEF SnapshotNow
  <2>3. CASE Fetch
    <3>1. snapshot'.input = sources /\ snapshot'.now \in {clock, -1}
      BY <2>3 DEF Fetch
    <3>2. clock <= clock
      BY <1>1
    <3> QED
      BY <1>1, <1>3, <3>1, <3>2 DEF SnapshotNow, SameRoster
  <2>4. CASE at # "idle" /\ snapshot'.input = snapshot.input /\ snapshot'.now = snapshot.now
    BY <1>3, <2>4 DEF SnapshotNow, SameRoster
  <2>5. CASE Plan /\ ~FailRun
    BY <2>4, <2>5, PlanMade DEF Plan
  <2>6. CASE Leave /\ (SendNudges \/ Create \/ Resolve \/ SendDigests)
    BY <2>4, <2>6 DEF Leave, SendNudges, Create, Resolve, SendDigests
  <2>7. CASE Find
    BY <2>4, <2>7 DEF Find
  <2> QED
    BY <2>1, <2>2, <2>3, <2>5, <2>6, <2>7, RunMoves
<1> QED
  BY <1>2, <1>3, OthersKept

LEMMA PlanOnTimeStep ==
  ASSUME OneDueTime, TInv, OInv, [Next]_vars
  PROVE  PlanOnTime'
<1>1. clock \in Nat /\ SourcesOK
  BY BoundsAssumption DEF TInv, TypeOK
<1>2. SUFFICES ASSUME at' = "plan", snapshot'.now # -1, snapshot'.input \in Usable,
                      NEW e \in Built[snapshot'.input],
                      Key(e) \notin snapshot'.accepted, checkins'[Key(e)] = "on_time"
               PROVE  snapshot'.now < e.due
  BY DEF PlanOnTime
<1>3. Key(e) \in Keys /\ e.due \in Int
  BY <1>2, SlotIsKnown, BuiltShape DEF Usable
<1>4. CASE Fetch
  <2>1. snapshot'.accepted = Accepted /\ checkins' = checkins
    BY <1>4 DEF Fetch, world
  <2> QED
    BY <1>2, <1>3, <2>1 DEF Accepted
<1>5. CASE UNCHANGED <<at, snapshot>>
  <2>1. CASE checkins[Key(e)] = "on_time"
    BY <1>2, <1>5, <2>1 DEF OInv, PlanOnTime
  <2>2. CASE checkins[Key(e)] # "on_time"
    <3>1. Environment
      BY <1>2, <2>2, OthersKept
    <3>2. PICK f \in Current : Key(f) = Key(e) /\ clock < f.due
      BY <1>2, <1>3, <2>2, <3>1, EnvironmentMoves
    <3>3. SameRoster(sources, snapshot.input) /\ snapshot.now \in Nat /\ snapshot.now <= clock
      BY <1>2, <1>5 DEF OInv, SnapshotNow
    <3>4. PICK h \in Built[snapshot.input] : Key(h) = Key(f) /\ h.due = f.due
      BY <1>1, <1>2, <1>5, <3>3, SameSlots DEF Current, SourcesOK, Usable
    <3>5. h.due = e.due
      BY <1>2, <1>5, <3>2, <3>4 DEF OneDueTime
    <3> QED
      BY <1>1, <1>3, <1>5, <3>2, <3>3, <3>4, <3>5
  <2> QED
    BY <2>1, <2>2
<1>6. CASE Plan /\ ~FailRun
  BY <1>2, <1>6, PlanMade
<1>7. CASE Leave /\ (SendNudges \/ Create \/ Resolve \/ SendDigests)
  <2>1. GoOn(Position(at), plan, missing) /\ Position(at) \in 0..5
    BY <1>7, Places DEF Leave, SendNudges, Create, Resolve, SendDigests
  <2> QED
    BY <1>2, <2>1, GoesOnTo
<1>8. CASE Find
  BY <1>2, <1>8, FindLeads
<1> QED
  BY <1>2, <1>4, <1>5, <1>6, <1>7, <1>8, RunMoves

LEMMA UpsertsLateStep ==
  ASSUME OneDueTime, TInv, OInv, [Next]_vars
  PROVE  UpsertsLate'
<1>1. clock \in Nat /\ clock' \in Nat /\ clock <= clock' /\ SourcesOK /\ RunInv
  <2>1. clock \in Nat /\ SourcesOK /\ RunInv
    BY BoundsAssumption DEF TInv, TypeOK
  <2>2. clock <= clock
    BY <2>1
  <2> QED
    BY <2>1, <2>2, OthersKept, EnvironmentMoves
<1>2. \A a \in Of("upsert", plan) : a.key \in Keys
  BY PlannedKnown
<1>3. SUFFICES ASSUME Working', snapshot'.now # -1, NEW a \in Of("upsert", plan')
               PROVE  /\ checkins'[a.key] # "on_time"
                      /\ \E e \in Built[snapshot'.input] : Key(e) = a.key /\ e.due <= clock'
  <2>1. Of("upsert", plan)' = Of("upsert", plan')
    BY DEF Of
  <2> QED
    BY <1>3, <2>1 DEF UpsertsLate
<1>4. CASE plan' = plan /\ snapshot' = snapshot /\ Working
  <2>1. a \in Of("upsert", plan) /\ snapshot.now # -1
    BY <1>3, <1>4
  <2>2. PICK e \in Built[snapshot.input] : Key(e) = a.key /\ e.due <= clock
    BY <1>4, <2>1 DEF OInv, UpsertsLate
  <2>3. snapshot.input \in Usable
    BY <1>1, <1>4 DEF RunInv
  <2>4. e.due <= clock'
    BY <1>1, <2>2, <2>3, BuiltShape
  <2>5. checkins[a.key] # "on_time"
    BY <1>4, <2>1 DEF OInv, UpsertsLate
  <2>6. ASSUME checkins'[a.key] = "on_time" PROVE FALSE
    <3>1. Environment
      BY <2>5, <2>6, OthersKept
    <3>2. PICK f \in Current : Key(f) = a.key /\ clock < f.due
      BY <1>2, <2>1, <2>5, <2>6, <3>1, EnvironmentMoves
    <3>3. SameRoster(sources, snapshot.input)
      BY <1>4 DEF OInv, SnapshotNow, Working
    <3>4. PICK h \in Built[snapshot.input] : Key(h) = Key(f) /\ h.due = f.due
      BY <1>1, <2>3, <3>3, SameSlots DEF Current, SourcesOK, Usable
    <3>5. h.due = e.due /\ h.due \in Int
      BY <2>2, <2>3, <3>2, <3>4, BuiltShape DEF OneDueTime
    <3> QED
      BY <1>1, <2>2, <3>2, <3>4, <3>5
  <2> QED
    BY <1>4, <2>2, <2>4, <2>6
<1>5. CASE Plan /\ ~FailRun
  <2> DEFINE i == snapshot.input
             now == IF snapshot.now = -1 THEN clock ELSE snapshot.now
  <2>1. /\ plan' = PlanComplianceActions(Built[i], snapshot.accepted, snapshot.status, now, static)
        /\ snapshot.input \in Usable
        /\ snapshot'.input = snapshot.input /\ snapshot'.now = snapshot.now
    BY <1>5, PlanMade
  <2>2. at = "plan" /\ UNCHANGED <<clock, checkins>>
    BY <1>5 DEF Plan, world
  <2>3. snapshot.now # -1 /\ now = snapshot.now /\ now \in Nat /\ now <= clock
    BY <1>3, <2>1, <2>2 DEF OInv, SnapshotNow
  <2>4. a \in Upserts(Built[i], snapshot.accepted, snapshot.status, now, static)
    BY <1>3, <2>1 DEF PlanComplianceActions, Nudges, Digests, Resolutions, Of
  <2>5. PICK e \in Built[i] : a.key = Key(e) /\ Breached(e, snapshot.accepted, now)
    BY <2>4 DEF Upserts
  <2>6. Key(e) \notin snapshot.accepted /\ e.due <= now /\ e.due \in Int
    BY <2>1, <2>5, BuiltShape DEF Breached, Missing
  <2>7. e.due <= clock
    BY <1>1, <2>3, <2>6
  <2>8. checkins[Key(e)] # "on_time"
    <3>1. checkins[Key(e)] = "on_time" => snapshot.now < e.due
      BY <2>1, <2>2, <2>3, <2>6 DEF OInv, PlanOnTime
    <3> QED
      BY <2>3, <2>6, <3>1
  <2> QED
    BY <2>1, <2>2, <2>5, <2>7, <2>8
<1>6. CASE UNCHANGED <<at, snapshot, plan, missing>>
  BY <1>3, <1>4, <1>6 DEF Working
<1>7. CASE Leave /\ (SendNudges \/ Create \/ Resolve \/ SendDigests)
  BY <1>4, <1>7 DEF Leave, GoOn, SendNudges, Create, Resolve, SendDigests, Working
<1>8. CASE Find
  BY <1>4, <1>8, FindLeads DEF Find, Working
<1> QED
  BY <1>3, <1>5, <1>6, <1>7, <1>8, RunMoves DEF Fetch, Working

LEMMA OnTimeInductive ==
  ASSUME OneDueTime, TInv, OInv, [Next]_vars
  PROVE  OInv'
BY NowStep, PlanOnTimeStep, UpsertsLateStep DEF OInv

LEMMA OnTimeInitially ==
  ASSUME Init
  PROVE  OInv
BY DEF Init, OInv, SnapshotNow, PlanOnTime, UpsertsLate, Working

\* A violation is opened by the node that creates them, for an upsert.
LEMMA OpensUpsert ==
  ASSUME TInv, [Next]_vars, NEW k \in Keys, violations[k] = "none", violations'[k] = "open"
  PROVE  at = "create" /\ \E a \in Of("upsert", plan) : a.key = k
<1>1. violations \in [Keys -> Statuses]
  BY DEF TInv, TypeOK, Statuses
<1>2. CASE UNCHANGED violations
  BY <1>2
<1>3. ASSUME NEW S \in SUBSET Items, at = "create", Open(S)
      PROVE  \E a \in Of("upsert", plan) : a.key = k
  <2>1. \E a \in S : a.key = k
    BY <1>1, <1>3, OpenWrites
  <2>2. S \subseteq Of("upsert", plan)
    BY <1>3 DEF Items, ItemsAt, TInv, RunInv
  <2> QED
    BY <2>1, <2>2
<1>4. ASSUME NEW S, Close(S) PROVE FALSE
  BY <1>1, <1>4, CloseWrites
<1>5. ASSUME NEW l \in Keys, Waive(l) PROVE FALSE
  BY <1>1, <1>5 DEF Waive
<1>6. CASE Create \/ CreateRefused \/ CreateFailed
  BY <1>3, <1>6 DEF Create, CreateRefused, CreateFailed
<1>7. CASE Resolve \/ ResolveFailed
  BY <1>2, <1>4, <1>7 DEF Resolve, ResolveFailed
<1> QED
  BY <1>2, <1>5, <1>6, <1>7 DEF Next, Environment, Progress, Disturbance, Tick, Submit, ApproveLeave,
     Fetch, Plan, SendNudges, Find, SendDigests, Finish, SendNudgesFailed, FindFailed,
     SendDigestsFailed, Crash, vars, world

\* No violation is recorded against an on-time check-in, if the rules for one
\* report are due together and the snapshot carries its time.
THEOREM OnTimeIsSafe ==
  ASSUME OneDueTime
  PROVE  Spec => OnTimeNotViolated
<1>1. TInv /\ OInv /\ [Next]_vars =>
        [\A k \in Keys :
           violations[k] = "none" /\ violations'[k] = "open" /\ snapshot.now # -1
             => checkins[k] # "on_time"]_vars
  <2> SUFFICES ASSUME TInv, OInv, [Next]_vars, NEW k \in Keys,
                      violations[k] = "none", violations'[k] = "open", snapshot.now # -1
               PROVE  checkins[k] # "on_time"
    OBVIOUS
  <2>1. at = "create" /\ \E a \in Of("upsert", plan) : a.key = k
    BY OpensUpsert
  <2> QED
    BY <2>1 DEF OInv, UpsertsLate, Working
<1>2. TInv /\ OInv /\ [Next]_vars => TInv' /\ OInv'
  BY TypesInductive, OnTimeInductive
<1>3. Init => TInv /\ OInv
  BY TypesInitially, OnTimeInitially
<1> QED
  BY <1>1, <1>2, <1>3, PTL DEF Spec, OnTimeNotViolated

-----------------------------------------------------------------------------
(* Nobody who was away *)

LEMMA ExpectedPresent ==
  ASSUME AbsentAreAway, NEW i \in Usable, NEW e \in Expected(i)
  PROVE  e.user \notin Absent[i]
<1>1. PICK member \in Inputs[i].roster :
        e.user = member.user /\ e.state = AttendanceState(member, CycleDay, Inputs[i])
  BY ApplicationShape DEF Expected, Usable
<1>2. AttendanceState(member, CycleDay, Inputs[i]) = "expected"
  BY <1>1 DEF Expected
<1>3. IsActive(member, CycleDay)
  BY <1>2 DEF AttendanceState
<1>4. ~OnApprovedLeave(member.user, CycleDay, Inputs[i].leave)
  BY <1>2, <1>3 DEF AttendanceState
<1>5. ~IsHoliday(member.pod, CycleDay, Inputs[i].holidays)
  BY <1>2, <1>3, <1>4 DEF AttendanceState
<1>6. member.user \notin Inputs[i].absent
  BY <1>3, <1>4, <1>5 DEF AbsentAreAway
<1>7. Absent[i] = Inputs[i].absent
  BY InputsAssumption DEF Absent, Usable
<1> QED
  BY <1>1, <1>6, <1>7

\* Planned actions are about users who are present.
LEMMA PlannedPresent ==
  ASSUME AbsentAreAway, TInv, NEW e, e.user \in Absent[snapshot.input]
  PROVE  /\ \A a \in Of("nudge", plan) : a.id # NudgeId(e)
         /\ \A a \in plan : a.kind \in {"upsert", "resolve"} => a.key # Key(e)
         /\ \A a \in Of("digest", plan) : e \notin a.rows
<1>1. \A a \in plan : snapshot.input \in Usable /\ PlannedFor(a, snapshot.input)
  BY DEF TInv, RunInv, Working
<1>2. ASSUME NEW a \in plan, NEW f \in Expected(snapshot.input) PROVE f.user # e.user
  BY <1>1, ExpectedPresent
<1>3. ASSUME NEW a \in plan
      PROVE  /\ a.kind = "nudge" => a.id # NudgeId(e)
             /\ a.kind \in {"upsert", "resolve"} => a.key # Key(e)
             /\ a.kind = "digest" => e \notin a.rows
  <2>1. PlannedFor(a, snapshot.input)
    BY <1>1
  <2>2. a.kind = "nudge" => a.id # NudgeId(e)
    BY <1>2, <2>1, PlannedShape, IdsDiffer
  <2>3. a.kind \in {"upsert", "resolve"} => a.key # Key(e)
    BY <1>2, <2>1, PlannedShape, IdsDiffer
  <2>4. a.kind = "digest" => e \notin a.rows
    BY <1>2, <2>1, PlannedShape
  <2> QED
    BY <2>2, <2>3, <2>4
<1> QED
  BY <1>3 DEF Of

LEMMA AbsentUntouched ==
  ASSUME AbsentAreAway, TInv, [Next]_vars, NEW e \in Slots, e.user \in Absent[snapshot.input]
  PROVE  /\ nudged'[NudgeId(e)] = nudged[NudgeId(e)]
         /\ violations[Key(e)] = "none" => violations'[Key(e)] = "none"
         /\ e \in named'[Group(e)] => e \in named[Group(e)]
<1>1. /\ nudged \in [SlotIds -> 0..MaxSent] /\ digested \in [Groups -> 0..MaxSent]
      /\ violations \in [Keys -> Statuses] /\ missing \subseteq Of("upsert", plan)
  BY DEF TInv, TypeOK, RunInv, Statuses
<1>2. Key(e) \in Keys /\ Group(e) \in Groups /\ NudgeId(e) \in SlotIds
  BY DEF Keys, Groups, SlotIds
<1>3. /\ \A a \in Of("nudge", plan) : a.id # NudgeId(e)
      /\ \A a \in Of("upsert", plan) \cup Of("resolve", plan) : a.key # Key(e)
      /\ \A a \in Of("digest", plan) : e \notin a.rows
  BY PlannedPresent DEF Of
<1>4. nudged'[NudgeId(e)] = nudged[NudgeId(e)]
  <2>1. CASE UNCHANGED nudged
    BY <2>1
  <2>2. ASSUME NEW S \in SUBSET Items, at = "nudge", Nudge(S)
        PROVE  nudged'[NudgeId(e)] = nudged[NudgeId(e)]
    <3>1. S \subseteq Of("nudge", plan)
      BY <2>2 DEF Items, ItemsAt
    <3> QED
      BY <1>1, <1>2, <1>3, <2>2, <3>1, NudgeWrites
  <2> QED
    BY <2>1, <2>2 DEF Next, Environment, Progress, Disturbance, Tick, Submit, ApproveLeave, Waive,
       Fetch, Plan, SendNudges, Find, Create, CreateRefused, Resolve, SendDigests, Finish,
       SendNudgesFailed, FindFailed, CreateFailed, ResolveFailed, SendDigestsFailed, Crash, vars, world
<1>5. violations[Key(e)] = "none" => violations'[Key(e)] = "none"
  <2>1. CASE UNCHANGED violations
    BY <2>1
  <2>2. ASSUME NEW S \in SUBSET Items, at = "create", Open(S)
        PROVE  violations'[Key(e)] = violations[Key(e)]
    <3>1. S \subseteq Of("upsert", plan)
      BY <1>1, <2>2 DEF Items, ItemsAt
    <3> QED
      BY <1>1, <1>2, <1>3, <2>2, <3>1, OpenWrites
  <2>3. ASSUME NEW S \in SUBSET Items, at = "resolve", Close(S)
        PROVE  violations'[Key(e)] = violations[Key(e)]
    <3>1. S \subseteq Of("resolve", plan)
      BY <2>3 DEF Items, ItemsAt
    <3> QED
      BY <1>1, <1>2, <1>3, <2>3, <3>1, CloseWrites
  <2>4. ASSUME NEW l \in Keys, Waive(l), violations[Key(e)] = "none"
        PROVE  violations'[Key(e)] = "none"
    BY <1>1, <1>2, <2>4 DEF Waive
  <2> QED
    BY <2>1, <2>2, <2>3, <2>4 DEF Next, Environment, Progress, Disturbance, Tick, Submit, ApproveLeave,
       Fetch, Plan, SendNudges, Find, Create, CreateRefused, Resolve, SendDigests, Finish,
       SendNudgesFailed, FindFailed, CreateFailed, ResolveFailed, SendDigestsFailed, Crash, vars, world
<1>6. e \in named'[Group(e)] => e \in named[Group(e)]
  <2>1. CASE UNCHANGED named
    BY <2>1
  <2>2. ASSUME NEW S \in SUBSET Items, at = "digest", Digest(S)
        PROVE  e \in named'[Group(e)] => e \in named[Group(e)]
    <3>1. S \subseteq Of("digest", plan)
      BY <2>2 DEF Items, ItemsAt
    <3> QED
      BY <1>1, <1>2, <1>3, <2>2, <3>1, DigestWrites
  <2> QED
    BY <2>1, <2>2 DEF Next, Environment, Progress, Disturbance, Tick, Submit, ApproveLeave, Waive,
       Fetch, Plan, SendNudges, Find, Create, CreateRefused, Resolve, SendDigests, Finish,
       SendNudgesFailed, FindFailed, CreateFailed, ResolveFailed, SendDigestsFailed, Crash, vars, world
<1> QED
  BY <1>4, <1>5, <1>6

\* Nobody who was away when the snapshot was taken is nudged, violated or named
\* in a digest, whatever is retried and however often.
THEOREM AbsentAreLeftAlone ==
  ASSUME AbsentAreAway
  PROVE  Spec => SuppressedUntouched
<1>1. TInv /\ [Next]_vars =>
        [\A e \in Slots : e.user \in Absent[snapshot.input] =>
           /\ nudged'[NudgeId(e)] = nudged[NudgeId(e)]
           /\ violations[Key(e)] = "none" => violations'[Key(e)] = "none"
           /\ e \in named'[Group(e)] => e \in named[Group(e)]]_vars
  BY AbsentUntouched
<1> QED
  BY <1>1, TypesInitially, TypesInductive, PTL DEF Spec, SuppressedUntouched
-----------------------------------------------------------------------------
(* Finite sets *)

LEMMA ImageIsFinite ==
  ASSUME NEW S, IsFiniteSet(S), NEW f
  PROVE  /\ IsFiniteSet({f[x] : x \in S})
         /\ Cardinality({f[x] : x \in S}) <= Cardinality(S)
<1> DEFINE T == {f[x] : x \in S}
           g == [x \in S |-> f[x]]
<1>1. g \in Surjection(S, T)
  BY DEF Surjection
<1> HIDE DEF g, T
<1>2. IsFiniteSet(T) /\ Cardinality(T) <= Cardinality(S)
  BY <1>1, FS_Surjection
<1> QED
  BY <1>2 DEF T

LEMMA BuiltIsFinite ==
  ASSUME NEW i \in DOMAIN Inputs
  PROVE  IsFiniteSet(Built[i])
<1> DEFINE f == [mr \in Applications(Inputs[i]) |->
                   [user |-> mr[1].user, pod |-> mr[1].pod, date |-> CycleDay,
                    type |-> mr[2].type, code |-> mr[2].code,
                    due |-> LocalDue(CycleDay, mr[1].zone, mr[2].at),
                    state |-> AttendanceState(mr[1], CycleDay, Inputs[i])]]
<1>1. IsFiniteSet(Inputs[i].roster \X Inputs[i].rules)
  BY InputsAssumption, FS_Product
<1>2. Applications(Inputs[i]) \in SUBSET (Inputs[i].roster \X Inputs[i].rules)
  BY DEF Applications
<1>3. IsFiniteSet(Applications(Inputs[i]))
  BY <1>1, <1>2, FS_Subset
<1>4. Built[i] = {f[mr] : mr \in Applications(Inputs[i])}
  BY DEF Built, Expectations
<1> HIDE DEF f
<1> QED
  BY <1>3, <1>4, ImageIsFinite

\* What can be nudged and digested of the sources.
Nudgeable == {NudgeId(e) : e \in Current}
Digestible == {Group(e) : e \in Current}

LEMMA CurrentIsFinite ==
  ASSUME SourcesOK
  PROVE  /\ IsFiniteSet(Nudgeable) /\ Cardinality(Nudgeable) \in Nat
         /\ IsFiniteSet(Digestible) /\ Cardinality(Digestible) \in Nat
<1> DEFINE f == [e \in Current |-> NudgeId(e)]
           g == [e \in Current |-> Group(e)]
<1>1. IsFiniteSet(Current)
  BY BuiltIsFinite DEF Current, SourcesOK
<1>2. Nudgeable = {f[e] : e \in Current} /\ Digestible = {g[e] : e \in Current}
  BY DEF Nudgeable, Digestible
<1> HIDE DEF f, g
<1>3. IsFiniteSet(Nudgeable) /\ IsFiniteSet(Digestible)
  BY <1>1, <1>2, ImageIsFinite
<1> QED
  BY <1>3, FS_CardinalityType

\* A set that gains one element, or loses at most one.
LEMMA GainsOne ==
  ASSUME NEW S, IsFiniteSet(S), NEW x, x \notin S
  PROVE  Cardinality(S \cup {x}) = Cardinality(S) + 1
BY FS_AddElement

LEMMA LosesAtMostOne ==
  ASSUME NEW S, IsFiniteSet(S), NEW T, IsFiniteSet(T), NEW x, S \subseteq T \cup {x}
  PROVE  Cardinality(S) <= Cardinality(T) + 1
<1>1. /\ IsFiniteSet(T \cup {x})
      /\ Cardinality(T \cup {x}) = IF x \in T THEN Cardinality(T) ELSE Cardinality(T) + 1
  BY FS_AddElement
<1>2. Cardinality(S) <= Cardinality(T \cup {x})
  BY <1>1, FS_Subset
<1>3. Cardinality(T) \in Nat /\ Cardinality(S) \in Nat /\ Cardinality(T \cup {x}) \in Nat
  BY <1>1, FS_CardinalityType
<1> QED
  BY <1>1, <1>2, <1>3

-----------------------------------------------------------------------------
(* How often messages are repeated *)

\* The expectations and groups whose message is committed.
NudgedIds == {i \in SlotIds : i \in static \cup staged}
DigestedGroups == {g \in Groups : EscalationId(g) \in static \cup staged}

\* A run plans nothing that is committed, has committed no message of a branch
\* before it is behind it, and then only one.
PlanIsNew == \A a \in plan : a.id \notin static

StagedInOrder ==
  /\ at \in {"idle", "plan", "nudge"} => \A i \in SlotIds : i \notin staged
  /\ \A i, j \in SlotIds : i \in staged /\ j \in staged => i = j
  /\ at # "end" => \A g \in Groups : EscalationId(g) \notin staged
  /\ \A g, h \in Groups : EscalationId(g) \in staged /\ EscalationId(h) \in staged => g = h

\* What is committed is of the present roster.
CommittedIsCurrent == NudgedIds \subseteq Nudgeable /\ DigestedGroups \subseteq Digestible

\* Each repetition beyond the committed messages is paid for by a trouble.
SendsCounted ==
  ~evicted =>
    /\ \A i \in SlotIds : nudged[i] <= Cardinality(NudgedIds) + troubles
    /\ \A g \in Groups : digested[g] <= Cardinality(DigestedGroups) + troubles

BInv == SnapshotNow /\ PlanIsNew /\ StagedInOrder /\ CommittedIsCurrent /\ SendsCounted

LEMMA PlanIsNewStep ==
  ASSUME TInv, PlanIsNew, [Next]_vars
  PROVE  PlanIsNew'
<1>1. CASE plan' = {}
  BY <1>1 DEF PlanIsNew
<1>2. CASE plan' = plan /\ static' = static
  BY <1>2 DEF PlanIsNew
<1>3. CASE Plan /\ ~FailRun
  <2>1. /\ plan' = PlanComplianceActions(
                      Built[snapshot.input], snapshot.accepted, snapshot.status,
                      IF snapshot.now = -1 THEN clock ELSE snapshot.now, static)
        /\ static' = static
    BY <1>3, PlanMade
  <2> DEFINE now == IF snapshot.now = -1 THEN clock ELSE snapshot.now
  <2> HIDE DEF now
  <2>2. \A a \in PlanComplianceActions(Built[snapshot.input], snapshot.accepted, snapshot.status,
                                       now, static) : a.id \notin static
    BY DEF PlanComplianceActions, Nudges, Upserts, Resolutions, Digests
  <2> QED
    BY <2>1, <2>2 DEF PlanIsNew, now
<1>4. CASE RetryOrFail \/ FailRun \/ EndRun
  BY <1>1, <1>2, <1>4 DEF RetryOrFail, FailRun, EndRun
<1>5. CASE Leave /\ static' = static
  BY <1>2, <1>5 DEF Leave, GoOn
<1>6. CASE Environment \/ Fetch \/ UNCHANGED vars
  BY <1>2, <1>6 DEF Environment, Tick, Submit, ApproveLeave, Waive, Fetch, vars, runVars
<1>7. CASE Find
  BY <1>2, <1>7, FindLeads DEF Find
<1>8. CASE Plan
  BY <1>3, <1>4, <1>8
<1>9. CASE SendNudges \/ Create \/ Resolve \/ SendDigests
  BY <1>5, <1>9 DEF SendNudges, Create, Resolve, SendDigests
<1>10. CASE SendNudgesFailed \/ FindFailed \/ CreateFailed \/ CreateRefused \/ ResolveFailed
            \/ SendDigestsFailed \/ Crash \/ Finish
  BY <1>4, <1>10 DEF SendNudgesFailed, FindFailed, CreateFailed, CreateRefused,
     ResolveFailed, SendDigestsFailed, Crash, Finish
<1> QED
  BY <1>6, <1>7, <1>8, <1>9, <1>10 DEF Next, Progress, Disturbance

\* How a step moves the committed ids: they stay, are saved or dropped, are lost
\* with the run, or a node commits.
LEMMA CommittedMoves ==
  ASSUME TInv, [Next]_vars
  PROVE  \/ UNCHANGED <<static, staged, evicted>>
         \/ staged' = {} /\ (evicted' \/ static' = static \cup staged) /\ (evicted => evicted')
         \/ staged' = {} /\ UNCHANGED <<static, evicted>> /\ troubles' = troubles + 1
         \/ /\ UNCHANGED <<static, evicted>>
            /\ \/ (SendNudges \/ Find \/ Resolve \/ SendDigests)
                    /\ (staged' = staged \/ staged' = staged \cup Commit(Items))
               \/ Create /\ staged' = staged \cup Commit(Items) \cup Commit(Of("upsert", plan) \ Items)
<1>1. CASE EndRun /\ Save
  BY <1>1 DEF EndRun, Save
<1>2. CASE EndRun /\ UNCHANGED <<static, evicted>> /\ troubles' = troubles + 1
  BY <1>2 DEF EndRun
<1>3. CASE FailRun /\ troubles' = troubles + 1
  BY <1>1, <1>2, <1>3 DEF FailRun
<1>4. CASE RetryOrFail /\ troubles' = troubles + 1
  BY <1>3, <1>4 DEF RetryOrFail
<1>5. CASE Environment \/ Fetch \/ UNCHANGED vars
  BY <1>5 DEF Environment, Tick, Submit, ApproveLeave, Waive, Fetch, vars, runVars
<1>6. CASE SendNudges \/ Find \/ Create \/ Resolve \/ SendDigests
  BY <1>6 DEF SendNudges, Find, Create, Resolve, SendDigests
<1>7. CASE SendNudgesFailed \/ FindFailed \/ CreateFailed \/ CreateRefused \/ ResolveFailed
            \/ SendDigestsFailed
  BY <1>3, <1>4, <1>7 DEF SendNudgesFailed, FindFailed, CreateFailed, CreateRefused,
     ResolveFailed, SendDigestsFailed, Fault, Trouble
<1>8. CASE Crash \/ Finish
  BY <1>1, <1>2, <1>8 DEF Crash, Finish, Fault, Trouble
<1>9. CASE Plan
  <2>1. CASE FailRun
    <3>1. staged = {}
      BY <1>9 DEF TInv, RunInv, TypeOK, Plan
    <3> QED
      BY <1>1, <2>1, <3>1 DEF FailRun, EndRun
  <2>2. CASE ~FailRun
    BY <1>9, <2>2, PlanMade
  <2> QED
    BY <2>1, <2>2
<1> QED
  BY <1>5, <1>6, <1>7, <1>8, <1>9 DEF Next, Progress, Disturbance

\* Committing works by kind: a nudge is committed by Send Nudge alone, a digest by
\* Send Escalation Digest alone.
LEMMA CommitKinds ==
  ASSUME TInv, AtNode, NEW S \in SUBSET Of(Kind(at), plan), NEW i \in Commit(S)
  PROVE  /\ i \in SlotIds => at = "nudge"
         /\ \A g \in Groups : i = EscalationId(g) => at = "digest" /\ \E a \in S : a.key = g
<1>1. PICK a \in S : i = a.id
  BY CommitsItem DEF TInv, AtNode
<1>2. a \in Of(Kind(at), plan)
  OBVIOUS
<1>3. CASE at = "nudge"
  <2>1. i \in SlotIds
    BY <1>1, <1>2, <1>3, PlannedKnown DEF Kind
  <2> QED
    BY <1>3, <2>1, IdsDiffer DEF SlotIds
<1>4. CASE at \in {"find", "create"}
  <2>1. i = UpsertId(a.key)
    BY <1>1, <1>2, <1>4, PlannedKnown DEF Kind
  <2> QED
    BY <2>1, IdsDiffer DEF SlotIds
<1>5. CASE at = "resolve"
  <2>1. i = ResolutionId(a.key)
    BY <1>1, <1>2, <1>5, PlannedKnown DEF Kind
  <2> QED
    BY <2>1, IdsDiffer DEF SlotIds
<1>6. CASE at = "digest"
  <2>1. i = EscalationId(a.key)
    BY <1>1, <1>2, <1>6, PlannedKnown DEF Kind
  <2> QED
    BY <1>6, <2>1, IdsDiffer DEF SlotIds
<1> QED
  BY <1>3, <1>4, <1>5, <1>6 DEF AtNode

LEMMA ItemsCommit ==
  ASSUME TInv, AtNode
  PROVE  /\ Items \in SUBSET Of(Kind(at), plan)
         /\ Commit(Items) = {} \/ \E a \in Items : Commit(Items) = {a.id}
         /\ Items = {} => Commit(Items) = {}
         /\ Items # {} => \E a \in Items : Commit(Items) = {a.id}
<1>1. Items \in SUBSET Of(Kind(at), plan)
  BY ItemsOfKind DEF TInv
<1>2. snapshot.input \in Usable /\ \A a \in plan : PlannedFor(a, snapshot.input)
  BY DEF TInv, RunInv, Working, AtNode
<1>3. \A a \in Items : PlannedFor(a, snapshot.input) /\ a.kind = Kind(at)
  BY <1>1, <1>2 DEF Of
<1> DEFINE S == Items
<1>4. \A a \in S : PlannedFor(a, snapshot.input) /\ a.kind = Kind(at)
  BY <1>3
<1> HIDE DEF S
<1>5. /\ S = {} => Commit(S) = {}
      /\ S # {} => \E a \in S : Commit(S) = {a.id}
  BY <1>2, <1>4, CommitsOne
<1> QED
  BY <1>1, <1>5 DEF S

LEMMA NewNudge ==
  ASSUME TInv, [Next]_vars, NEW i \in SlotIds, i \in static' \cup staged', i \notin static \cup staged
  PROVE  SendNudges /\ staged' = staged \cup {i} /\ UNCHANGED static /\ \E a \in Items : i = a.id
<1>1. CASE static' \cup staged' \subseteq static \cup staged
  BY <1>1
<1>2. CASE static' = static /\ staged' = staged \cup Commit(Items)
             /\ (SendNudges \/ Find \/ Resolve \/ SendDigests)
  <2>1. AtNode /\ i \in Commit(Items)
    BY <1>2 DEF AtNode, SendNudges, Find, Resolve, SendDigests
  <2>2. at = "nudge"
    BY <2>1, CommitKinds, ItemsCommit
  <2>3. \E a \in Items : Commit(Items) = {a.id}
    BY <2>1, ItemsCommit
  <2> QED
    BY <1>2, <2>1, <2>2, <2>3 DEF Find, Resolve, SendDigests
<1>3. CASE Create /\ staged' = staged \cup Commit(Items) \cup Commit(Of("upsert", plan) \ Items)
             /\ static' = static
  <2>1. AtNode /\ at = "create"
    BY <1>3 DEF AtNode, Create
  <2>2. /\ Items \in SUBSET Of(Kind(at), plan)
        /\ Of("upsert", plan) \ Items \in SUBSET Of(Kind(at), plan)
    BY <2>1, ItemsOfKind DEF TInv
  <2> QED
    BY <1>3, <2>1, <2>2, CommitKinds
<1> QED
  BY <1>1, <1>2, <1>3, CommitsWhere

LEMMA NewDigest ==
  ASSUME TInv, [Next]_vars, NEW g \in Groups,
         EscalationId(g) \in static' \cup staged', EscalationId(g) \notin static \cup staged
  PROVE  /\ SendDigests /\ staged' = staged \cup {EscalationId(g)} /\ UNCHANGED static
         /\ \E a \in Items : a.key = g
<1> DEFINE i == EscalationId(g)
<1>1. CASE static' \cup staged' \subseteq static \cup staged
  BY <1>1
<1>2. CASE static' = static /\ staged' = staged \cup Commit(Items)
             /\ (SendNudges \/ Find \/ Resolve \/ SendDigests)
  <2>1. AtNode /\ i \in Commit(Items)
    BY <1>2 DEF AtNode, SendNudges, Find, Resolve, SendDigests
  <2>2. at = "digest" /\ \E a \in Items : a.key = g
    BY <2>1, CommitKinds, ItemsCommit
  <2>3. \E a \in Items : Commit(Items) = {a.id}
    BY <2>1, ItemsCommit
  <2> QED
    BY <1>2, <2>1, <2>2, <2>3 DEF Find, Resolve, SendNudges
<1>3. CASE Create /\ staged' = staged \cup Commit(Items) \cup Commit(Of("upsert", plan) \ Items)
             /\ static' = static
  <2>1. AtNode /\ at = "create"
    BY <1>3 DEF AtNode, Create
  <2>2. /\ Items \in SUBSET Of(Kind(at), plan)
        /\ Of("upsert", plan) \ Items \in SUBSET Of(Kind(at), plan)
    BY <2>1, ItemsOfKind DEF TInv
  <2>3. i \in Commit(Items) \/ i \in Commit(Of("upsert", plan) \ Items)
    BY <1>3
  <2> QED
    BY <2>1, <2>2, <2>3, CommitKinds
<1> QED
  BY <1>1, <1>2, <1>3, CommitsWhere

\* The order of the nodes.
LEMMA InOrder ==
  ASSUME TInv, [Next]_vars
  PROVE  /\ at' \in {"plan", "nudge"} => at \in {"idle", "plan", "nudge"}
         /\ at' = "idle" => at = "idle" \/ staged' = {}
         /\ at = "end" => at' = "end" \/ staged' = {}
         /\ SendNudges => at' \notin {"idle", "plan", "nudge"}
         /\ SendDigests => at' = "end"
<1>1. RunOK /\ RunInv
  BY TypeParts DEF TInv
<1>2. CASE SendNudges \/ Create \/ Resolve \/ SendDigests
  <2>1. AtNode /\ Leave
    BY <1>2 DEF AtNode, SendNudges, Create, Resolve, SendDigests
  <2>2. GoOn(Position(at), plan, missing) /\ Position(at) \in 1..5
    BY <2>1, Places DEF Leave, AtNode
  <2>3. at' \in {"find", "create", "resolve", "digest", "end"}
    BY <2>2, GoesOnTo
  <2>4. ASSUME SendDigests PROVE at' = "end"
    <3>1. Position(at) = 5
      BY <2>4, Places DEF SendDigests
    <3>2. PICK n \in (5 + 1)..6 : at' = IF n = 6 THEN "end" ELSE Nodes[n]
      BY <2>2, <3>1, GoesOn
    <3>3. n = 6
      OBVIOUS
    <3> QED
      BY <3>2, <3>3
  <2>5. at # "end"
    BY <2>1 DEF AtNode
  <2> QED
    BY <2>3, <2>4, <2>5
<1>3. ASSUME ~SendNudges, ~SendDigests,
             at' = at \/ (at' = "idle" /\ staged' = {}) \/ (at = "idle" /\ at' = "plan")
      PROVE  /\ at' \in {"plan", "nudge"} => at \in {"idle", "plan", "nudge"}
             /\ at' = "idle" => at = "idle" \/ staged' = {}
             /\ at = "end" => at' = "end" \/ staged' = {}
             /\ SendNudges => at' \notin {"idle", "plan", "nudge"}
             /\ SendDigests => at' = "end"
  BY <1>3
<1>4. CASE ~SendNudges /\ ~SendDigests /\ (Environment \/ Fetch \/ UNCHANGED vars)
  <2>1. at' = at \/ (at = "idle" /\ at' = "plan")
    BY <1>4 DEF Environment, Tick, Submit, ApproveLeave, Waive, Fetch, vars, runVars
  <2> QED
    BY <1>3, <1>4, <2>1
<1>5. CASE ~SendNudges /\ ~SendDigests
            /\ (\/ SendNudgesFailed \/ FindFailed \/ CreateFailed \/ CreateRefused \/ ResolveFailed
                \/ SendDigestsFailed \/ Crash \/ Finish)
  <2>1. at' = at \/ (at' = "idle" /\ staged' = {})
    BY <1>5 DEF SendNudgesFailed, FindFailed, CreateFailed, CreateRefused,
     ResolveFailed, SendDigestsFailed, Crash, Finish, RetryOrFail, FailRun, EndRun
  <2> QED
    BY <1>3, <1>5, <2>1
<1>6. CASE Find
  <2>1. at = "find" /\ at' \in {"create", "resolve", "digest", "end"}
    BY <1>6, FindLeads DEF Find
  <2> QED
    BY <2>1 DEF SendNudges, SendDigests
<1>7. CASE Plan
  <2>1. at = "plan"
    BY <1>7 DEF Plan
  <2>2. CASE FailRun
    <3>1. at' = "idle" /\ staged' = {}
      BY <2>2 DEF FailRun, EndRun
    <3> QED
      BY <2>1, <3>1 DEF SendNudges, SendDigests
  <2>3. CASE ~FailRun
    BY <1>7, <2>1, <2>3, PlanMade DEF SendNudges, SendDigests
  <2> QED
    BY <2>2, <2>3
<1> QED
  BY <1>2, <1>4, <1>5, <1>6, <1>7 DEF Next, Progress, Disturbance

\* A run stages ids of its plan.
LEMMA StagesPlanned ==
  ASSUME TInv, [Next]_vars, NEW i \in staged', i \notin staged
  PROVE  \E a \in plan : i = a.id
<1>1. ASSUME AtNode, NEW S \in SUBSET Of(Kind(at), plan), i \in Commit(S)
      PROVE  \E a \in plan : i = a.id
  BY <1>1, CommitsPlanned DEF TInv
<1>2. CASE i \in Commit(Items) /\ AtNode
  BY <1>1, <1>2, ItemsCommit
<1>3. CASE i \in Commit(Of("upsert", plan) \ Items) /\ AtNode /\ at = "create"
  BY <1>1, <1>3, ItemsOfKind DEF TInv
<1>4. (SendNudges \/ Find \/ Resolve \/ SendDigests \/ Create) => AtNode
  BY DEF AtNode, SendNudges, Find, Resolve, SendDigests, Create
<1>5. Create => at = "create"
  BY DEF Create
<1> QED
  BY <1>2, <1>3, <1>4, <1>5, CommittedMoves

LEMMA StagedInOrderStep ==
  ASSUME TInv, PlanIsNew, StagedInOrder, [Next]_vars
  PROVE  StagedInOrder'
<1>1. CASE staged' = {}
  BY <1>1 DEF StagedInOrder
<1>2. ASSUME NEW i \in staged', i \notin staged PROVE i \notin static
  BY <1>2, StagesPlanned DEF PlanIsNew
<1>3. ASSUME NEW i \in SlotIds, i \in staged', i \notin staged
      PROVE  SendNudges /\ staged' = staged \cup {i}
  BY <1>2, <1>3, NewNudge
<1>4. ASSUME NEW g \in Groups, EscalationId(g) \in staged', EscalationId(g) \notin staged
      PROVE  SendDigests /\ staged' = staged \cup {EscalationId(g)}
  BY <1>2, <1>4, NewDigest
<1>5. CASE staged' # {}
  <2>1. /\ at' \in {"plan", "nudge"} => at \in {"idle", "plan", "nudge"}
        /\ at' = "idle" => at = "idle"
        /\ at = "end" => at' = "end"
        /\ SendNudges => at' \notin {"idle", "plan", "nudge"} /\ at = "nudge"
        /\ SendDigests => at' = "end" /\ at # "end"
    BY <1>5, InOrder DEF SendNudges, SendDigests
  <2>2. ASSUME at' \in {"idle", "plan", "nudge"}, NEW i \in SlotIds, i \in staged' PROVE FALSE
    <3>1. at \in {"idle", "plan", "nudge"} /\ ~SendNudges
      BY <2>1, <2>2
    <3>2. i \notin staged
      BY <3>1 DEF StagedInOrder
    <3> QED
      BY <1>3, <2>2, <3>1, <3>2
  <2>3. ASSUME NEW i \in SlotIds, NEW j \in SlotIds, i \in staged', j \in staged' PROVE i = j
    <3>1. CASE i \in staged /\ j \in staged
      BY <3>1 DEF StagedInOrder
    <3>2. CASE i \notin staged
      <4>1. staged' = staged \cup {i} /\ j \notin staged
        BY <1>3, <2>1, <2>3, <3>2 DEF StagedInOrder
      <4> QED
        BY <2>3, <4>1
    <3>3. CASE j \notin staged
      <4>1. staged' = staged \cup {j} /\ i \notin staged
        BY <1>3, <2>1, <2>3, <3>3 DEF StagedInOrder
      <4> QED
        BY <2>3, <4>1
    <3> QED
      BY <3>1, <3>2, <3>3
  <2>4. ASSUME at' # "end", NEW g \in Groups, EscalationId(g) \in staged' PROVE FALSE
    <3>1. at # "end" /\ ~SendDigests
      BY <2>1, <2>4
    <3>2. EscalationId(g) \notin staged
      BY <3>1 DEF StagedInOrder
    <3> QED
      BY <1>4, <2>4, <3>1, <3>2
  <2>5. ASSUME NEW g \in Groups, NEW h \in Groups, EscalationId(g) \in staged', EscalationId(h) \in staged'
        PROVE  g = h
    <3>1. CASE EscalationId(g) \in staged /\ EscalationId(h) \in staged
      BY <3>1 DEF StagedInOrder
    <3>2. CASE EscalationId(g) \notin staged
      <4>1. staged' = staged \cup {EscalationId(g)} /\ EscalationId(h) \notin staged
        BY <1>4, <2>1, <2>5, <3>2 DEF StagedInOrder
      <4> QED
        BY <2>5, <4>1, IdsDiffer
    <3>3. CASE EscalationId(h) \notin staged
      <4>1. staged' = staged \cup {EscalationId(h)} /\ EscalationId(g) \notin staged
        BY <1>4, <2>1, <2>5, <3>3 DEF StagedInOrder
      <4> QED
        BY <2>5, <4>1, IdsDiffer
    <3> QED
      BY <3>1, <3>2, <3>3
  <2> QED
    BY <2>2, <2>3, <2>4, <2>5 DEF StagedInOrder
<1> QED
  BY <1>1, <1>5

\* What is committed is of the present roster.
LEMMA CommittedIsCurrentStep ==
  ASSUME TInv, SnapshotNow, CommittedIsCurrent, [Next]_vars
  PROVE  CommittedIsCurrent'
<1>1. SourcesOK /\ SourcesOK' /\ RunInv
  BY TypesInductive DEF TInv
<1>2. SameRoster(sources, sources')
  BY OthersKept, EnvironmentMoves DEF SameRoster
<1>3. Nudgeable' = {NudgeId(e) : e \in Built[sources']} /\ Digestible' = {Group(e) : e \in Built[sources']}
  BY DEF Nudgeable, Digestible, Current
<1>4. Nudgeable \subseteq Nudgeable' /\ Digestible \subseteq Digestible'
  <2>1. ASSUME NEW e \in Built[sources]
        PROVE  \E f \in Built[sources'] : NudgeId(f) = NudgeId(e) /\ Group(f) = Group(e)
    <3> DEFINE s == sources'
    <3>1. s \in DOMAIN Inputs /\ sources \in DOMAIN Inputs /\ SameRoster(sources, s)
      BY <1>1, <1>2 DEF SourcesOK
    <3> HIDE DEF s
    <3>2. \E f \in Built[s] : NudgeId(f) = NudgeId(e) /\ Group(f) = Group(e)
      BY <3>1, SameSlots
    <3> QED
      BY <3>2 DEF s
  <2> QED
    BY <1>3, <2>1 DEF Nudgeable, Digestible, Current
<1>5. ASSUME Working
      PROVE  \A e \in Expected(snapshot.input) : NudgeId(e) \in Nudgeable /\ Group(e) \in Digestible
  <2>1. /\ SameRoster(snapshot.input, sources)
        /\ snapshot.input \in DOMAIN Inputs /\ sources \in DOMAIN Inputs
    BY <1>1, <1>5 DEF SnapshotNow, SameRoster, Working, RunInv, SourcesOK
  <2>2. ASSUME NEW e \in Built[snapshot.input]
        PROVE  \E f \in Current : NudgeId(f) = NudgeId(e) /\ Group(f) = Group(e)
    BY <2>1, SameSlots DEF Current
  <2> QED
    BY <2>2 DEF Expected, Nudgeable, Digestible
<1>6. ASSUME NEW i \in SlotIds, i \in static' \cup staged' PROVE i \in Nudgeable'
  <2>1. CASE i \in static \cup staged
    BY <1>4, <2>1 DEF CommittedIsCurrent, NudgedIds
  <2>2. CASE i \notin static \cup staged
    <3>1. SendNudges /\ \E a \in Items : i = a.id
      BY <1>6, <2>2, NewNudge
    <3>2. PICK a \in Of("nudge", plan) : i = a.id
      BY <3>1 DEF SendNudges, Items, ItemsAt
    <3>3. Working /\ PlannedFor(a, snapshot.input)
      BY <1>1, <3>1, <3>2 DEF SendNudges, Working, RunInv, Of
    <3>4. \E e \in Expected(snapshot.input) : i = NudgeId(e)
      BY <3>2, <3>3, PlannedShape DEF Of
    <3> QED
      BY <1>4, <1>5, <3>3, <3>4
  <2> QED
    BY <2>1, <2>2
<1>7. ASSUME NEW g \in Groups, EscalationId(g) \in static' \cup staged' PROVE g \in Digestible'
  <2>1. CASE EscalationId(g) \in static \cup staged
    BY <1>4, <2>1 DEF CommittedIsCurrent, DigestedGroups
  <2>2. CASE EscalationId(g) \notin static \cup staged
    <3>1. SendDigests /\ \E a \in Items : a.key = g
      BY <1>7, <2>2, NewDigest
    <3>2. PICK a \in Of("digest", plan) : a.key = g
      BY <3>1 DEF SendDigests, Items, ItemsAt
    <3>3. Working /\ PlannedFor(a, snapshot.input)
      BY <1>1, <3>1, <3>2 DEF SendDigests, Working, RunInv, Of
    <3>4. \E e \in Expected(snapshot.input) : g = Group(e)
      BY <3>2, <3>3, PlannedShape DEF Of
    <3> QED
      BY <1>4, <1>5, <3>3, <3>4
  <2> QED
    BY <2>1, <2>2
<1> QED
  BY <1>6, <1>7 DEF CommittedIsCurrent, NudgedIds, DigestedGroups

LEMMA InputIsFinite ==
  ASSUME NEW i \in DOMAIN Inputs
  PROVE  IsFiniteSet({NudgeId(e) : e \in Built[i]}) /\ IsFiniteSet({Group(e) : e \in Built[i]})
<1> DEFINE S == Built[i]
           f == [e \in S |-> NudgeId(e)]
           g == [e \in S |-> Group(e)]
<1>1. IsFiniteSet(S)
  BY BuiltIsFinite
<1>2. {NudgeId(e) : e \in S} = {f[e] : e \in S} /\ {Group(e) : e \in S} = {g[e] : e \in S}
  OBVIOUS
<1> HIDE DEF f, g, S
<1>3. IsFiniteSet({f[e] : e \in S}) /\ IsFiniteSet({g[e] : e \in S})
  BY <1>1, ImageIsFinite
<1> QED
  BY <1>2, <1>3 DEF S

LEMMA CommittedIsFinite ==
  ASSUME SourcesOK, CommittedIsCurrent, SourcesOK', CommittedIsCurrent'
  PROVE  /\ IsFiniteSet(NudgedIds) /\ Cardinality(NudgedIds) \in Nat
         /\ IsFiniteSet(DigestedGroups) /\ Cardinality(DigestedGroups) \in Nat
         /\ IsFiniteSet(NudgedIds') /\ Cardinality(NudgedIds') \in Nat
         /\ IsFiniteSet(DigestedGroups') /\ Cardinality(DigestedGroups') \in Nat
<1>1. /\ Nudgeable = {NudgeId(e) : e \in Built[sources]}
      /\ Digestible = {Group(e) : e \in Built[sources]}
      /\ Nudgeable' = {NudgeId(e) : e \in Built[sources']}
      /\ Digestible' = {Group(e) : e \in Built[sources']}
  BY DEF Nudgeable, Digestible, Current
<1>2. IsFiniteSet(Nudgeable) /\ IsFiniteSet(Digestible)
  BY <1>1, InputIsFinite DEF SourcesOK
<1>3. IsFiniteSet(Nudgeable') /\ IsFiniteSet(Digestible')
  <2> DEFINE s == sources'
  <2>1. s \in DOMAIN Inputs
    BY DEF SourcesOK
  <2> HIDE DEF s
  <2>2. IsFiniteSet({NudgeId(e) : e \in Built[s]}) /\ IsFiniteSet({Group(e) : e \in Built[s]})
    BY <2>1, InputIsFinite
  <2> QED
    BY <1>1, <2>2 DEF s
<1>4. /\ NudgedIds \subseteq Nudgeable /\ DigestedGroups \subseteq Digestible
      /\ NudgedIds' \subseteq Nudgeable' /\ DigestedGroups' \subseteq Digestible'
  BY DEF CommittedIsCurrent
<1> DEFINE A == NudgedIds
           B == DigestedGroups
           C == NudgedIds'
           D == DigestedGroups'
           U == Nudgeable
           V == Digestible
           W == Nudgeable'
           X == Digestible'
<1>5. IsFiniteSet(U) /\ IsFiniteSet(V) /\ IsFiniteSet(W) /\ IsFiniteSet(X)
  BY <1>2, <1>3
<1>6. A \subseteq U /\ B \subseteq V /\ C \subseteq W /\ D \subseteq X
  BY <1>4
<1> HIDE DEF A, B, C, D, U, V, W, X
<1>7. IsFiniteSet(A) /\ IsFiniteSet(B) /\ IsFiniteSet(C) /\ IsFiniteSet(D)
  BY <1>5, <1>6, FS_Subset
<1>8. /\ Cardinality(A) \in Nat /\ Cardinality(B) \in Nat
      /\ Cardinality(C) \in Nat /\ Cardinality(D) \in Nat
  BY <1>7, FS_CardinalityType
<1> QED
  BY <1>7, <1>8 DEF A, B, C, D

\* What becomes of the committed ids as long as none is dropped: of each kind one
\* is lost at most, and that is a trouble; the node of the kind loses none.
LEMMA CommittedKept ==
  ASSUME TInv, StagedInOrder, [Next]_vars, ~evicted'
  PROVE  /\ ~evicted /\ troubles' \in {troubles, troubles + 1}
         /\ \/ NudgedIds \subseteq NudgedIds'
            \/ troubles' = troubles + 1 /\ \E x : NudgedIds \subseteq NudgedIds' \cup {x}
         /\ \/ DigestedGroups \subseteq DigestedGroups'
            \/ troubles' = troubles + 1 /\ \E x : DigestedGroups \subseteq DigestedGroups' \cup {x}
         /\ at = "nudge" => NudgedIds \subseteq NudgedIds'
         /\ at = "digest" => DigestedGroups \subseteq DigestedGroups'
<1>1. troubles' \in {troubles, troubles + 1}
  BY DEF Next, Environment, Progress, Disturbance, Tick, Submit, ApproveLeave, Waive,
     Fetch, Plan, SendNudges, Find, Create, CreateRefused, Resolve, SendDigests, Finish,
     SendNudgesFailed, FindFailed, CreateFailed, ResolveFailed, SendDigestsFailed, Crash, vars,
     Fault, Trouble
<1>2. CASE static \cup staged \subseteq static' \cup staged' /\ ~evicted
  BY <1>1, <1>2 DEF NudgedIds, DigestedGroups
<1>3. CASE staged' = {} /\ UNCHANGED <<static, evicted>> /\ troubles' = troubles + 1
  <2>1. \E x : NudgedIds \subseteq NudgedIds' \cup {x}
    <3>1. CASE \A i \in SlotIds : i \notin staged
      BY <1>3, <3>1 DEF NudgedIds
    <3>2. ASSUME NEW i \in SlotIds, i \in staged PROVE \E x : NudgedIds \subseteq NudgedIds' \cup {x}
      <4>1. NudgedIds \subseteq NudgedIds' \cup {i}
        BY <1>3, <3>2 DEF NudgedIds, StagedInOrder
      <4> QED
        BY <4>1
    <3> QED
      BY <3>1, <3>2
  <2>2. \E x : DigestedGroups \subseteq DigestedGroups' \cup {x}
    <3>1. CASE \A g \in Groups : EscalationId(g) \notin staged
      BY <1>3, <3>1 DEF DigestedGroups
    <3>2. ASSUME NEW g \in Groups, EscalationId(g) \in staged
          PROVE  \E x : DigestedGroups \subseteq DigestedGroups' \cup {x}
      <4>1. DigestedGroups \subseteq DigestedGroups' \cup {g}
        BY <1>3, <3>2 DEF DigestedGroups, StagedInOrder
      <4> QED
        BY <4>1
    <3> QED
      BY <3>1, <3>2
  <2>3. at = "nudge" => NudgedIds \subseteq NudgedIds'
    BY <1>3 DEF NudgedIds, StagedInOrder
  <2>4. at = "digest" => DigestedGroups \subseteq DigestedGroups'
    BY <1>3 DEF DigestedGroups, StagedInOrder
  <2> QED
    BY <1>3, <2>1, <2>2, <2>3, <2>4
<1> QED
  BY <1>2, <1>3, CommittedMoves

\* What a step sends: a message of a node that commits a new id, or of one that fails.
LEMMA NudgesMove ==
  ASSUME TInv, [Next]_vars, NEW i \in SlotIds
  PROVE  /\ nudged[i] \in Nat /\ nudged'[i] \in Nat /\ nudged'[i] <= nudged[i] + 1
         /\ \/ nudged'[i] <= nudged[i]
            \/ at = "nudge" /\ troubles' = troubles + 1
            \/ SendNudges /\ Items # {}
<1>1. nudged \in [SlotIds -> 0..MaxSent] /\ MaxSent \in Nat
  BY BoundsAssumption DEF TInv, TypeOK
<1>2. nudged[i] \in 0..MaxSent
  BY <1>1
<1>3. CASE UNCHANGED nudged
  BY <1>1, <1>2, <1>3
<1>4. ASSUME NEW S, Nudge(S)
      PROVE  /\ nudged'[i] \in Nat /\ nudged'[i] <= nudged[i] + 1
             /\ S = {} => nudged'[i] <= nudged[i]
  <2>1. nudged'[i] = IF \E a \in S : a.id = i THEN OneMore(nudged[i]) ELSE nudged[i]
    BY <1>4 DEF Nudge
  <2>2. OneMore(nudged[i]) \in Nat /\ OneMore(nudged[i]) <= nudged[i] + 1
    BY <1>1, <1>2 DEF OneMore
  <2> QED
    BY <1>1, <1>2, <2>1, <2>2
<1>5. CASE SendNudges
  BY <1>2, <1>4, <1>5 DEF SendNudges
<1>6. CASE SendNudgesFailed
  BY <1>2, <1>4, <1>6 DEF SendNudgesFailed, Fault, Trouble
<1> QED
  BY <1>3, <1>5, <1>6 DEF Next, Environment, Progress, Disturbance, Tick, Submit, ApproveLeave, Waive,
     Fetch, Plan, Find, Create, CreateRefused, Resolve, SendDigests, Finish,
     FindFailed, CreateFailed, ResolveFailed, SendDigestsFailed, Crash, vars, world

LEMMA DigestsMove ==
  ASSUME TInv, [Next]_vars, NEW g \in Groups
  PROVE  /\ digested[g] \in Nat /\ digested'[g] \in Nat /\ digested'[g] <= digested[g] + 1
         /\ \/ digested'[g] <= digested[g]
            \/ at = "digest" /\ troubles' = troubles + 1
            \/ SendDigests /\ Items # {}
<1>1. digested \in [Groups -> 0..MaxSent] /\ MaxSent \in Nat
  BY BoundsAssumption DEF TInv, TypeOK
<1>2. digested[g] \in 0..MaxSent
  BY <1>1
<1>3. CASE UNCHANGED digested
  BY <1>1, <1>2, <1>3
<1>4. ASSUME NEW S, Digest(S)
      PROVE  /\ digested'[g] \in Nat /\ digested'[g] <= digested[g] + 1
             /\ S = {} => digested'[g] <= digested[g]
  <2>1. digested'[g] = IF \E a \in S : a.key = g THEN OneMore(digested[g]) ELSE digested[g]
    BY <1>4 DEF Digest
  <2>2. OneMore(digested[g]) \in Nat /\ OneMore(digested[g]) <= digested[g] + 1
    BY <1>1, <1>2 DEF OneMore
  <2> QED
    BY <1>1, <1>2, <2>1, <2>2
<1>5. CASE SendDigests
  BY <1>2, <1>4, <1>5 DEF SendDigests
<1>6. CASE SendDigestsFailed
  BY <1>2, <1>4, <1>6 DEF SendDigestsFailed, Fault, Trouble
<1> QED
  BY <1>3, <1>5, <1>6 DEF Next, Environment, Progress, Disturbance, Tick, Submit, ApproveLeave, Waive,
     Fetch, Plan, Find, Create, CreateRefused, Resolve, SendNudges, Finish,
     FindFailed, CreateFailed, ResolveFailed, SendNudgesFailed, Crash, vars, world

\* A node that sends commits an id that was not committed.
LEMMA SendNudgesCommits ==
  ASSUME TInv, PlanIsNew, StagedInOrder, SendNudges, Items # {}
  PROVE  troubles' = troubles /\ \E x : x \notin NudgedIds /\ NudgedIds' = NudgedIds \cup {x}
<1>1. AtNode /\ at = "nudge"
  BY DEF SendNudges, AtNode
<1>2. PICK a \in Items : Commit(Items) = {a.id}
  BY <1>1, ItemsCommit
<1>3. a \in Of("nudge", plan) /\ a \in plan
  BY <1>1 DEF Items, ItemsAt, Of
<1>4. a.id \in SlotIds
  BY <1>3, PlannedKnown
<1>5. a.id \notin static /\ a.id \notin staged
  BY <1>1, <1>3, <1>4 DEF PlanIsNew, StagedInOrder
<1>6. staged' = staged \cup {a.id} /\ static' = static /\ troubles' = troubles
  BY <1>2 DEF SendNudges
<1> QED
  BY <1>4, <1>5, <1>6 DEF NudgedIds

LEMMA SendDigestsCommits ==
  ASSUME TInv, PlanIsNew, StagedInOrder, SendDigests, Items # {}
  PROVE  troubles' = troubles /\ \E x : x \notin DigestedGroups /\ DigestedGroups' = DigestedGroups \cup {x}
<1>1. AtNode /\ at = "digest"
  BY DEF SendDigests, AtNode
<1>2. PICK a \in Items : Commit(Items) = {a.id}
  BY <1>1, ItemsCommit
<1>3. a \in Of("digest", plan) /\ a \in plan
  BY <1>1 DEF Items, ItemsAt, Of
<1>4. a.key \in Groups /\ a.id = EscalationId(a.key)
  BY <1>3, PlannedKnown
<1>5. a.id \notin static /\ a.id \notin staged
  BY <1>1, <1>3, <1>4 DEF PlanIsNew, StagedInOrder
<1>6. staged' = staged \cup {a.id} /\ static' = static /\ troubles' = troubles
  BY <1>2 DEF SendDigests
<1>7. \A g \in Groups : EscalationId(g) = a.id => g = a.key
  BY <1>4, IdsDiffer
<1>8. a.key \notin DigestedGroups /\ DigestedGroups' = DigestedGroups \cup {a.key}
  BY <1>4, <1>5, <1>6, <1>7 DEF DigestedGroups
<1> QED
  BY <1>6, <1>8

\* The arithmetic of a step: n messages against c committed and t troubles.
LEMMA Balance ==
  ASSUME NEW N, IsFiniteSet(N), NEW M, IsFiniteSet(M), NEW t \in Nat, NEW u \in {t, t + 1},
         NEW n \in Nat, NEW m \in Nat, n <= Cardinality(N) + t, m <= n + 1,
         N \subseteq M \/ (u = t + 1 /\ \E x : N \subseteq M \cup {x}),
         \/ m <= n
         \/ u = t + 1 /\ N \subseteq M
         \/ u = t /\ \E x : x \notin N /\ M = N \cup {x}
  PROVE  m <= Cardinality(M) + u
<1>1. Cardinality(N) \in Nat /\ Cardinality(M) \in Nat
  BY FS_CardinalityType
<1>2. N \subseteq M => Cardinality(N) <= Cardinality(M)
  BY FS_Subset
<1>3. (\E x : N \subseteq M \cup {x}) => Cardinality(N) <= Cardinality(M) + 1
  BY LosesAtMostOne
<1>4. (\E x : x \notin N /\ M = N \cup {x}) => Cardinality(M) = Cardinality(N) + 1
  BY GainsOne
<1> QED
  BY <1>1, <1>2, <1>3, <1>4

LEMMA SendsCountedStep ==
  ASSUME TInv, BInv, [Next]_vars
  PROVE  SendsCounted'
<1>1. /\ SourcesOK /\ SourcesOK' /\ troubles \in Nat
      /\ PlanIsNew /\ StagedInOrder /\ CommittedIsCurrent /\ CommittedIsCurrent'
  BY TypesInductive, CommittedIsCurrentStep DEF TInv, TypeOK, BInv
<1>2. SUFFICES ASSUME ~evicted'
               PROVE  /\ \A i \in SlotIds : nudged'[i] <= Cardinality(NudgedIds') + troubles'
                      /\ \A g \in Groups : digested'[g] <= Cardinality(DigestedGroups') + troubles'
  BY DEF SendsCounted
<1>3. /\ ~evicted /\ troubles' \in {troubles, troubles + 1}
      /\ \/ NudgedIds \subseteq NudgedIds'
         \/ troubles' = troubles + 1 /\ \E x : NudgedIds \subseteq NudgedIds' \cup {x}
      /\ \/ DigestedGroups \subseteq DigestedGroups'
         \/ troubles' = troubles + 1 /\ \E x : DigestedGroups \subseteq DigestedGroups' \cup {x}
      /\ at = "nudge" => NudgedIds \subseteq NudgedIds'
      /\ at = "digest" => DigestedGroups \subseteq DigestedGroups'
  BY <1>1, <1>2, CommittedKept
<1>4. /\ IsFiniteSet(NudgedIds) /\ IsFiniteSet(DigestedGroups)
      /\ IsFiniteSet(NudgedIds') /\ IsFiniteSet(DigestedGroups')
  BY <1>1, CommittedIsFinite
<1>5. ASSUME NEW i \in SlotIds PROVE nudged'[i] <= Cardinality(NudgedIds') + troubles'
  <2> DEFINE N == NudgedIds
             M == NudgedIds'
             u == troubles'
             n == nudged[i]
             m == nudged'[i]
  <2>1. n <= Cardinality(N) + troubles
    BY <1>3 DEF BInv, SendsCounted
  <2>2. n \in Nat /\ m \in Nat /\ m <= n + 1
    BY NudgesMove
  <2>3. \/ m <= n
        \/ u = troubles + 1 /\ N \subseteq M
        \/ u = troubles /\ \E x : x \notin N /\ M = N \cup {x}
    BY <1>1, <1>3, NudgesMove, SendNudgesCommits
  <2>4. /\ u \in {troubles, troubles + 1} /\ IsFiniteSet(N) /\ IsFiniteSet(M)
        /\ N \subseteq M \/ (u = troubles + 1 /\ \E x : N \subseteq M \cup {x})
    BY <1>3, <1>4
  <2> HIDE DEF N, M, u, n, m
  <2>5. m <= Cardinality(M) + u
    BY <1>1, <2>1, <2>2, <2>3, <2>4, Balance
  <2> QED
    BY <2>5 DEF M, u, m
<1>6. ASSUME NEW g \in Groups PROVE digested'[g] <= Cardinality(DigestedGroups') + troubles'
  <2> DEFINE N == DigestedGroups
             M == DigestedGroups'
             u == troubles'
             n == digested[g]
             m == digested'[g]
  <2>1. n <= Cardinality(N) + troubles
    BY <1>3 DEF BInv, SendsCounted
  <2>2. n \in Nat /\ m \in Nat /\ m <= n + 1
    BY DigestsMove
  <2>3. \/ m <= n
        \/ u = troubles + 1 /\ N \subseteq M
        \/ u = troubles /\ \E x : x \notin N /\ M = N \cup {x}
    BY <1>1, <1>3, DigestsMove, SendDigestsCommits
  <2>4. /\ u \in {troubles, troubles + 1} /\ IsFiniteSet(N) /\ IsFiniteSet(M)
        /\ N \subseteq M \/ (u = troubles + 1 /\ \E x : N \subseteq M \cup {x})
    BY <1>3, <1>4
  <2> HIDE DEF N, M, u, n, m
  <2>5. m <= Cardinality(M) + u
    BY <1>1, <2>1, <2>2, <2>3, <2>4, Balance
  <2> QED
    BY <2>5 DEF M, u, m
<1> QED
  BY <1>5, <1>6

LEMMA SendsInductive ==
  ASSUME TInv, BInv, [Next]_vars
  PROVE  BInv'
BY NowStep, PlanIsNewStep, StagedInOrderStep, CommittedIsCurrentStep, SendsCountedStep DEF BInv

LEMMA SendsInitially ==
  ASSUME Init
  PROVE  BInv
<1>1. NudgedIds = {} /\ DigestedGroups = {} /\ Cardinality({}) = 0
  BY FS_EmptySet DEF Init, NudgedIds, DigestedGroups
<1> DEFINE N == NudgedIds
           D == DigestedGroups
<1>2. Cardinality(N) + 0 = 0 /\ Cardinality(D) + 0 = 0 /\ N = {} /\ D = {}
  BY <1>1
<1> HIDE DEF N, D
<1>3. SendsCounted
  BY <1>2 DEF Init, SendsCounted, N, D
<1>4. CommittedIsCurrent
  BY <1>1 DEF CommittedIsCurrent
<1> QED
  BY <1>3, <1>4 DEF Init, BInv, SnapshotNow, PlanIsNew, StagedInOrder

\* A message is repeated at most once for every message of its kind, and once for
\* every failed try, crash or refused row, for any number of them.
THEOREM RepetitionsAreBounded == Spec => []SendsBounded
<1>1. TInv /\ BInv => SendsBounded
  <2> SUFFICES ASSUME TInv, BInv, ~evicted
               PROVE  /\ \A i \in SlotIds : nudged[i] <= Cardinality(Nudgeable) + troubles
                      /\ \A g \in Groups : digested[g] <= Cardinality(Digestible) + troubles
    BY DEF SendsBounded, Nudgeable, Digestible
  <2>1. SourcesOK /\ troubles \in Nat
    BY DEF TInv, TypeOK
  <2>2. /\ IsFiniteSet(Nudgeable) /\ Cardinality(Nudgeable) \in Nat
        /\ IsFiniteSet(Digestible) /\ Cardinality(Digestible) \in Nat
    BY <2>1, CurrentIsFinite
  <2>3. NudgedIds \subseteq Nudgeable /\ DigestedGroups \subseteq Digestible
    BY DEF BInv, CommittedIsCurrent
  <2>4. /\ Cardinality(NudgedIds) \in Nat /\ Cardinality(NudgedIds) <= Cardinality(Nudgeable)
        /\ Cardinality(DigestedGroups) \in Nat /\ Cardinality(DigestedGroups) <= Cardinality(Digestible)
    BY <2>2, <2>3, FS_Subset, FS_CardinalityType
  <2>5. /\ \A i \in SlotIds : nudged[i] \in Nat
        /\ \A g \in Groups : digested[g] \in Nat
    BY BoundsAssumption DEF TInv, TypeOK
  <2>6. /\ \A i \in SlotIds : nudged[i] <= Cardinality(NudgedIds) + troubles
        /\ \A g \in Groups : digested[g] <= Cardinality(DigestedGroups) + troubles
    BY DEF BInv, SendsCounted
  <2> DEFINE c == Cardinality(NudgedIds)
             d == Cardinality(DigestedGroups)
             cc == Cardinality(Nudgeable)
             dd == Cardinality(Digestible)
  <2>7. c \in Nat /\ d \in Nat /\ cc \in Nat /\ dd \in Nat /\ c <= cc /\ d <= dd
    BY <2>2, <2>4
  <2>8. /\ \A i \in SlotIds : nudged[i] <= c + troubles
        /\ \A g \in Groups : digested[g] <= d + troubles
    BY <2>6
  <2> HIDE DEF c, d, cc, dd
  <2>9. /\ \A i \in SlotIds : nudged[i] <= cc + troubles
        /\ \A g \in Groups : digested[g] <= dd + troubles
    BY <2>1, <2>5, <2>7, <2>8
  <2> QED
    BY <2>9 DEF cc, dd
<1>2. TInv /\ BInv /\ [Next]_vars => TInv' /\ BInv'
  BY TypesInductive, SendsInductive
<1>3. Init => TInv /\ BInv
  BY TypesInitially, SendsInitially
<1> QED
  BY <1>1, <1>2, <1>3, PTL DEF Spec

-----------------------------------------------------------------------------
(* The weekly rollup of a roster, with the check-ins ci *)

Owing(i) == {e \in Built[i] : e.user \notin Absent[i]}

KeysOf(i, ci, pod, sla) ==
  {Key(e) : e \in {e \in Owing(i) : e.pod = pod /\ ci[Key(e)] \in sla}}

PodKeys(i, pod) == {Key(e) : e \in {e \in Owing(i) : e.pod = pod}}

RowsOf(rows, pod, sla) == {c \in rows : c.pod = pod /\ c.sla \in sla}

Tally(i, ci, pod) ==
  [pod |-> pod, expected |-> Cardinality(KeysOf(i, ci, pod, {"none", "on_time", "late"})),
   submitted |-> Cardinality(KeysOf(i, ci, pod, {"on_time", "late"})),
   missing |-> Cardinality(KeysOf(i, ci, pod, {"none"})),
   on_time |-> Cardinality(KeysOf(i, ci, pod, {"on_time"})),
   late |-> Cardinality(KeysOf(i, ci, pod, {"late"}))]

\* Whoever is not absent is expected.
LEMMA PresentExpected ==
  ASSUME AbsentAreAway, NEW i \in Usable, NEW e \in Built[i], e.user \notin Absent[i]
  PROVE  e.state = "expected"
<1>1. PICK member \in Inputs[i].roster :
        e.user = member.user /\ e.state = AttendanceState(member, CycleDay, Inputs[i])
  BY ApplicationShape DEF Usable
<1>2. member.user \notin Inputs[i].absent
  BY <1>1, InputsAssumption DEF Absent, Usable
<1>3. /\ IsActive(member, CycleDay)
      /\ ~OnApprovedLeave(member.user, CycleDay, Inputs[i].leave)
      /\ ~IsHoliday(member.pod, CycleDay, Inputs[i].holidays)
  BY <1>2 DEF AbsentAreAway
<1> QED
  BY <1>1, <1>3 DEF AttendanceState

LEMMA OwingIsExpected ==
  ASSUME AbsentAreAway, NEW i \in Usable
  PROVE  /\ Owing(i) = {e \in Built[i] : e.state = "expected" /\ e.date \in CycleDay - 6 .. CycleDay}
         /\ {e \in Built[i] : e.state = "expected" /\ e.date \in CycleDay + 1 .. CycleDay + 7} = {}
<1>1. \A e \in Built[i] : e.user \notin Absent[i] <=> e.state = "expected"
  BY PresentExpected, ExpectedPresent DEF Expected
<1>2. \A e \in Built[i] : e.date = CycleDay
  BY BuiltShape
<1>3. CycleDay \in CycleDay - 6 .. CycleDay /\ CycleDay \notin CycleDay + 1 .. CycleDay + 7
  BY InputsAssumption
<1> QED
  BY <1>1, <1>2, <1>3 DEF Owing

LEMMA KeysAreFinite ==
  ASSUME NEW i \in DOMAIN Inputs, NEW ci, NEW pod, NEW sla
  PROVE  IsFiniteSet(KeysOf(i, ci, pod, sla))
<1> DEFINE S == {e \in Owing(i) : e.pod = pod /\ ci[Key(e)] \in sla}
           f == [e \in S |-> Key(e)]
<1>1. S \in SUBSET Built[i]
  BY DEF Owing
<1>2. IsFiniteSet(S)
  BY <1>1, BuiltIsFinite, FS_Subset
<1>3. KeysOf(i, ci, pod, sla) = {f[e] : e \in S}
  BY DEF KeysOf
<1> HIDE DEF f, S
<1> QED
  BY <1>2, <1>3, ImageIsFinite

\* Every key of the pod is of one of the three kinds, and of one only.
LEMMA KeysSplit ==
  ASSUME NEW i \in Usable, NEW ci \in [Keys -> {"none", "on_time", "late"}], NEW pod
  PROVE  LET of(sla) == Cardinality(KeysOf(i, ci, pod, sla)) IN
         /\ of({"none", "on_time", "late"}) \in Nat /\ of({"on_time", "late"}) \in Nat
         /\ of({"none"}) \in Nat
         /\ of({"none", "on_time", "late"}) = of({"on_time", "late"}) + of({"none"})
<1> DEFINE A == KeysOf(i, ci, pod, {"none", "on_time", "late"})
           B == KeysOf(i, ci, pod, {"on_time", "late"})
           C == KeysOf(i, ci, pod, {"none"})
<1>1. A = B \cup C /\ B \cap C = {}
  BY DEF KeysOf
<1>2. IsFiniteSet(A) /\ IsFiniteSet(B) /\ IsFiniteSet(C)
  BY KeysAreFinite DEF Usable
<1> HIDE DEF A, B, C
<1>3. Cardinality(A) \in Nat /\ Cardinality(B) \in Nat /\ Cardinality(C) \in Nat
  BY <1>2, FS_CardinalityType
<1>4. Cardinality(A) = Cardinality(B) + Cardinality(C) - Cardinality(B \cap C)
  BY <1>1, <1>2, FS_Union
<1>5. Cardinality(B \cap C) = 0
  BY <1>1, FS_EmptySet
<1>6. Cardinality(A) = Cardinality(B) + Cardinality(C)
  BY <1>3, <1>4, <1>5
<1> QED
  BY <1>3, <1>6 DEF A, B, C

\* The rows that are last of their key are those listed the second time.
LEMMA LastAreSecond ==
  ASSUME NEW i, NEW ci, NEW c \in CheckinRows(Built[i], ci)
  PROVE  (\A d \in CheckinRows(Built[i], ci) : d.pod = c.pod /\ Key(d) = Key(c) => d.nth <= c.nth)
           <=> c.nth = 2
<1>1. \A d \in CheckinRows(Built[i], ci) : d.nth \in 1..2
  BY DEF CheckinRows
<1>2. \E d \in CheckinRows(Built[i], ci) : d.pod = c.pod /\ Key(d) = Key(c) /\ d.nth = 2
  <2>1. PICK e \in {e \in Built[i] : ci[Key(e)] # "none"} :
          \E n \in 1..2 :
            c = [user |-> e.user, date |-> e.date, type |-> e.type, pod |-> e.pod,
                 sla |-> ci[Key(e)], nth |-> n]
    BY DEF CheckinRows
  <2> DEFINE d == [user |-> e.user, date |-> e.date, type |-> e.type, pod |-> e.pod,
                   sla |-> ci[Key(e)], nth |-> 2]
  <2>2. d \in CheckinRows(Built[i], ci)
    BY DEF CheckinRows
  <2>3. d.pod = c.pod /\ Key(d) = Key(c) /\ d.nth = 2
    BY <2>1 DEF Key
  <2> QED
    BY <2>2, <2>3
<1> QED
  BY <1>1, <1>2

\* The rows of a pod's reports are as many as the reports.
LEMMA RowsAreKeys ==
  ASSUME NEW i \in Usable, NEW ci, NEW pod, NEW sla \in SUBSET {"on_time", "late"},
         NEW rows, \A c \in CheckinRows(Built[i], ci) : c.pod = pod =>
                     (c \in rows <=> c.nth = 2 /\ Key(c) \in PodKeys(i, pod)),
         rows \subseteq CheckinRows(Built[i], ci)
  PROVE  Cardinality(RowsOf(rows, pod, sla)) = Cardinality(KeysOf(i, ci, pod, sla))
<1> DEFINE S == RowsOf(rows, pod, sla)
           T == KeysOf(i, ci, pod, sla)
           row(k) == [user |-> k[1], date |-> k[2], type |-> k[3], pod |-> pod, sla |-> ci[k],
                      nth |-> 2]
           f == [k \in T |-> row(k)]
<1>1. \A c \in CheckinRows(Built[i], ci) :
        c.pod = pod /\ c.nth = 2 => c = row(Key(c)) /\ c.sla = ci[Key(c)]
  <2>1. SUFFICES ASSUME NEW c \in CheckinRows(Built[i], ci), c.pod = pod, c.nth = 2
                 PROVE  c = row(Key(c)) /\ c.sla = ci[Key(c)]
    OBVIOUS
  <2>2. PICK e \in Built[i] :
          c = [user |-> e.user, date |-> e.date, type |-> e.type, pod |-> e.pod, sla |-> ci[Key(e)],
               nth |-> 2]
    BY <2>1 DEF CheckinRows
  <2>3. Key(c) = Key(e) /\ Key(e)[1] = e.user /\ Key(e)[2] = e.date /\ Key(e)[3] = e.type
    BY <2>2 DEF Key
  <2>4. e.pod = pod /\ c.sla = ci[Key(c)]
    BY <2>1, <2>2, <2>3
  <2> QED
    BY <2>2, <2>3, <2>4
<1>2. ASSUME NEW k \in T
      PROVE  row(k) \in S /\ Key(row(k)) = k
  <2>1. PICK e \in Owing(i) : k = Key(e) /\ e.pod = pod /\ ci[Key(e)] \in sla
    BY DEF KeysOf
  <2>2. e \in Built[i] /\ ci[Key(e)] # "none"
    BY <2>1 DEF Owing
  <2>3. row(k) \in CheckinRows(Built[i], ci)
    BY <2>1, <2>2 DEF CheckinRows, Key
  <2>4. Key(row(k)) = k /\ row(k).pod = pod /\ row(k).nth = 2
    BY <2>1 DEF Key
  <2>5. row(k) \in rows
    BY <2>1, <2>3, <2>4 DEF PodKeys
  <2> QED
    BY <2>1, <2>4, <2>5 DEF RowsOf
<1>3. ASSUME NEW c \in S
      PROVE  Key(c) \in T /\ c = row(Key(c))
  <2>1. c \in CheckinRows(Built[i], ci) /\ c.pod = pod /\ c.sla \in sla /\ c \in rows
    BY DEF RowsOf
  <2>2. c.nth = 2 /\ \E e \in Owing(i) : Key(e) = Key(c) /\ e.pod = pod
    BY <2>1 DEF PodKeys
  <2>3. c = row(Key(c)) /\ c.sla = ci[Key(c)]
    BY <1>1, <2>1, <2>2
  <2> QED
    BY <2>1, <2>2, <2>3 DEF KeysOf
<1> HIDE DEF S, T, row
<1>4. f \in Bijection(T, S)
  <2>1. f \in [T -> S]
    BY <1>2
  <2>2. \A k, l \in T : f[k] = f[l] => k = l
    BY <1>2
  <2>3. \A c \in S : \E k \in T : f[k] = c
    BY <1>3
  <2> HIDE DEF f
  <2> QED
    BY <2>1, <2>2, <2>3 DEF Bijection, Injection, Surjection, IsInjective
<1>5. IsFiniteSet(T)
  BY KeysAreFinite DEF Usable, T
<1>6. Cardinality(S) = Cardinality(T)
  BY <1>4, <1>5, FS_Bijection DEF ExistsBijection
<1> QED
  BY <1>6 DEF S, T

LEMMA RollupIsTally ==
  ASSUME AbsentAreAway, NEW i \in Usable, NEW ci \in [Keys -> {"none", "on_time", "late"}]
  PROVE  WeeklyRollup(Built[i], CheckinRows(Built[i], ci), CycleDay - 6, CycleDay)
           = {Tally(i, ci, pod) : pod \in {e.pod : e \in Owing(i)}}
<1> DEFINE rows0 == CheckinRows(Built[i], ci)
           days == CycleDay - 6 .. CycleDay
           owing == {e \in Built[i] : e.state = "expected" /\ e.date \in days}
           keys == [pod \in {e.pod : e \in owing} |-> {Key(e) : e \in {e \in owing : e.pod = pod}}]
           listed == {c \in rows0 : c.date \in days}
           rows(pod) == LastRows(listed, pod, keys[pod])
           of(pod, sla) == Cardinality({c \in rows(pod) : c.sla = sla})
           total(pod) == Cardinality(keys[pod])
           submitted(pod) == Cardinality(rows(pod))
           line(pod) ==
             [pod |-> pod, expected |-> total(pod), submitted |-> submitted(pod),
              missing |-> IF submitted(pod) > total(pod) THEN 0 ELSE total(pod) - submitted(pod),
              on_time |-> of(pod, "on_time"), late |-> of(pod, "late")]
<1>1. WeeklyRollup(Built[i], rows0, CycleDay - 6, CycleDay) = {line(pod) : pod \in DOMAIN keys}
  BY DEF WeeklyRollup
<1>2. owing = Owing(i)
  BY OwingIsExpected
<1>3. DOMAIN keys = {e.pod : e \in Owing(i)}
  BY <1>2
<1>4. listed = rows0
  <2>1. \A e \in Built[i] : e.date = CycleDay
    BY BuiltShape
  <2> QED
    BY <2>1, InputsAssumption DEF CheckinRows
<1>5. ASSUME NEW pod \in DOMAIN keys
      PROVE  line(pod) = Tally(i, ci, pod)
  <2>1. keys[pod] = {Key(e) : e \in {e \in Owing(i) : e.pod = pod}}
    BY <1>2, <1>3
  <2>2. keys[pod] = KeysOf(i, ci, pod, {"none", "on_time", "late"})
    <3>1. \A e \in Owing(i) : ci[Key(e)] \in {"none", "on_time", "late"}
      BY SlotIsKnown DEF Owing, Usable
    <3> QED
      BY <2>1, <3>1 DEF KeysOf
  <2>3. \A c \in rows0 : c.pod = pod => (c \in rows(pod) <=> c.nth = 2 /\ Key(c) \in keys[pod])
    <3> HIDE DEF keys
    <3> QED
      BY <1>4, LastAreSecond DEF LastRows
  <2>4. rows(pod) \subseteq rows0 /\ \A c \in rows(pod) : c.pod = pod
    BY DEF LastRows
  <2> HIDE DEF keys, rows
  <2>5. ASSUME NEW sla \in SUBSET {"on_time", "late"}
        PROVE  Cardinality(RowsOf(rows(pod), pod, sla)) = Cardinality(KeysOf(i, ci, pod, sla))
    <3>1. \A c \in CheckinRows(Built[i], ci) : c.pod = pod =>
            (c \in rows(pod) <=> c.nth = 2 /\ Key(c) \in PodKeys(i, pod))
      BY <2>1, <2>3 DEF PodKeys
    <3> QED
      BY <2>4, <3>1, RowsAreKeys
  <2>6. /\ submitted(pod) = Cardinality(KeysOf(i, ci, pod, {"on_time", "late"}))
        /\ of(pod, "on_time") = Cardinality(KeysOf(i, ci, pod, {"on_time"}))
        /\ of(pod, "late") = Cardinality(KeysOf(i, ci, pod, {"late"}))
    <3>1. \A c \in rows0 : c.sla \in {"on_time", "late"}
      BY SlotIsKnown DEF CheckinRows, Usable
    <3>2. /\ rows(pod) = RowsOf(rows(pod), pod, {"on_time", "late"})
          /\ \A s \in {"on_time", "late"} :
               {c \in rows(pod) : c.sla = s} = RowsOf(rows(pod), pod, {s})
      BY <2>4, <3>1 DEF RowsOf
    <3> QED
      BY <2>5, <3>2
  <2> DEFINE a == Cardinality(KeysOf(i, ci, pod, {"none", "on_time", "late"}))
             b == Cardinality(KeysOf(i, ci, pod, {"on_time", "late"}))
             n == Cardinality(KeysOf(i, ci, pod, {"none"}))
  <2>7. a \in Nat /\ b \in Nat /\ n \in Nat /\ a = b + n
    BY KeysSplit
  <2>8. total(pod) = a /\ submitted(pod) = b
    BY <2>2, <2>6
  <2> HIDE DEF a, b, n, of, total, submitted
  <2>9. (IF submitted(pod) > total(pod) THEN 0 ELSE total(pod) - submitted(pod)) = n
    BY <2>7, <2>8
  <2> QED
    BY <2>6, <2>8, <2>9 DEF Tally, a, b, n, of, total, submitted
<1> HIDE DEF line, keys
<1> QED
  BY <1>1, <1>3, <1>5

LEMMA NothingOwedNextWeek ==
  ASSUME AbsentAreAway, NEW i \in Usable, NEW rows
  PROVE  WeeklyRollup(Built[i], rows, CycleDay + 1, CycleDay + 7) = {}
<1>1. {e \in Built[i] : e.state = "expected" /\ e.date \in CycleDay + 1 .. CycleDay + 7} = {}
  BY OwingIsExpected
<1> QED
  BY <1>1 DEF WeeklyRollup

\* The weekly rollup agrees with the facts, whatever the rules and the roster:
\* who has to report is counted once in the pod, and is submitted or missing.
THEOREM RollupsReconcile ==
  ASSUME AbsentAreAway
  PROVE  Spec => []RollupReconciles
<1>1. TypeOK /\ SourcesOK => RollupReconciles
  <2>1. SUFFICES ASSUME TypeOK, SourcesOK, sources \notin Broken
                 PROVE  /\ WeeklyRollup(Current, CheckinRows(Current, checkins), CycleDay - 6, CycleDay)
                             = {Tally(sources, checkins, pod) : pod \in {e.pod : e \in Owing(sources)}}
                        /\ WeeklyRollup(Current, CheckinRows(Current, checkins), CycleDay + 1, CycleDay + 7)
                             = {}
    BY DEF RollupReconciles, Tally, KeysOf, Owing, Current
  <2>2. sources \in Usable /\ checkins \in [Keys -> {"none", "on_time", "late"}]
    BY <2>1 DEF SourcesOK, Usable, TypeOK
  <2> QED
    BY <2>2, RollupIsTally, NothingOwedNextWeek DEF Current
<1>2. TInv => TypeOK /\ SourcesOK
  BY DEF TInv
<1>3. Init => TInv
  BY TypesInitially
<1>4. TInv /\ [Next]_vars => TInv'
  BY TypesInductive
<1> QED
  BY <1>1, <1>2, <1>3, <1>4, PTL DEF Spec
-----------------------------------------------------------------------------
(* Nothing is skipped *)

\* Behind a node, what it had to do is done; for violations see UpsertsRecorded.
NudgesSent ==
  at \in {"find", "create", "resolve", "digest", "end"} =>
    \A a \in Of("nudge", plan) : nudged[a.id] > 0

ResolvesMade ==
  at \in {"digest", "end"} => \A a \in Of("resolve", plan) : violations[a.key] = "resolved"

DigestsSent ==
  at = "end" =>
    \A a \in Of("digest", plan) : digested[a.key] > 0 /\ a.rows \subseteq named[a.key]

DInv == NudgesSent /\ ResolvesMade /\ DigestsSent

\* A node is passed only when there is nothing for it to do.
LEMMA GoesPast ==
  ASSUME NEW i \in 0..5, NEW acts, NEW miss, GoOn(i, acts, miss)
  PROVE  /\ i = 0 /\ at' # "nudge" => Of("nudge", acts) = {}
         /\ i <= 3 /\ at' \in {"digest", "end"} => Of("resolve", acts) = {}
         /\ i <= 4 /\ at' = "end" => Of("digest", acts) = {}
<1>1. PICK n \in (i + 1)..6 :
        /\ at' = IF n = 6 THEN "end" ELSE Nodes[n]
        /\ \A j \in (i + 1)..5 : j < n => ItemsAt(Nodes[j], acts, miss) = {}
  BY GoesOn
<1>2. n \in {1, 2, 3, 4, 5, 6}
  OBVIOUS
<1>3. /\ at' # "nudge" => n > 1
      /\ at' \in {"digest", "end"} => n > 4
      /\ at' = "end" => n > 5
  BY <1>1, <1>2, Places
<1>4. i = 0 /\ n > 1 => ItemsAt(Nodes[1], acts, miss) = {}
  BY <1>1
<1>5. i <= 3 /\ n > 4 => ItemsAt(Nodes[4], acts, miss) = {}
  BY <1>1
<1>6. i <= 4 /\ n > 5 => ItemsAt(Nodes[5], acts, miss) = {}
  BY <1>1
<1>7. /\ ItemsAt(Nodes[1], acts, miss) = Of("nudge", acts)
      /\ ItemsAt(Nodes[4], acts, miss) = Of("resolve", acts)
      /\ ItemsAt(Nodes[5], acts, miss) = Of("digest", acts)
  BY Places DEF ItemsAt
<1> QED
  BY <1>3, <1>4, <1>5, <1>6, <1>7

LEMMA DigestNames ==
  ASSUME NEW S, Digest(S)
  PROVE  /\ \A g \in Groups : named[g] \subseteq named'[g]
         /\ \A g \in Groups : \A a \in S : a.key = g => a.rows \subseteq named'[g]
BY DEF Digest

LEMMA NamesStay ==
  ASSUME [Next]_vars
  PROVE  \A g \in Groups : named[g] \subseteq named'[g]
<1>1. CASE UNCHANGED named
  BY <1>1
<1>2. ASSUME NEW S, Digest(S) PROVE \A g \in Groups : named[g] \subseteq named'[g]
  BY <1>2, DigestNames
<1> QED
  BY <1>1, <1>2 DEF Next, Environment, Progress, Disturbance, Tick, Submit, ApproveLeave, Waive,
     Fetch, Plan, SendNudges, Find, Create, CreateRefused, Resolve, SendDigests, Finish,
     SendNudgesFailed, FindFailed, CreateFailed, ResolveFailed, SendDigestsFailed, Crash, vars, world

\* How a branch that was carried out is left, by the node.
LEMMA BranchLeaves ==
  ASSUME TInv, Leave, AtNode
  PROVE  /\ UNCHANGED plan /\ at' \in {"find", "create", "resolve", "digest", "end"}
         /\ at \in {"nudge", "find", "create"} /\ at' \in {"digest", "end"} =>
              Of("resolve", plan) = {}
         /\ at # "digest" /\ at' = "end" => Of("digest", plan) = {}
         /\ at \in {"resolve", "digest"} => at' \in {"digest", "end"}
<1>1. /\ at = "nudge" => Position(at) = 1
      /\ at = "find" => Position(at) = 2
      /\ at = "create" => Position(at) = 3
      /\ at = "resolve" => Position(at) = 4
      /\ at = "digest" => Position(at) = 5
  BY Places
<1>2. Position(at) \in 1..5 /\ GoOn(Position(at), plan, missing)
  BY <1>1 DEF AtNode, Leave
<1>3. plan' = plan
  BY DEF Leave, GoOn
<1>4. PICK n \in (Position(at) + 1)..6 : at' = IF n = 6 THEN "end" ELSE Nodes[n]
  BY <1>2, GoesOn
<1>5. n \in {2, 3, 4, 5, 6} /\ n > Position(at)
  BY <1>2, <1>4
<1>6. /\ at' \in {"find", "create", "resolve", "digest", "end"}
      /\ at \in {"resolve", "digest"} => at' \in {"digest", "end"}
  BY <1>1, <1>4, <1>5, Places
<1>7. /\ Position(at) <= 3 /\ at' \in {"digest", "end"} => Of("resolve", plan) = {}
      /\ Position(at) <= 4 /\ at' = "end" => Of("digest", plan) = {}
  BY <1>2, GoesPast
<1> QED
  BY <1>1, <1>3, <1>6, <1>7 DEF AtNode

\* What was done stays done.
LEMMA DoneKept ==
  ASSUME TInv, [Next]_vars
  PROVE  /\ \A a \in Of("nudge", plan) : nudged[a.id] > 0 => nudged'[a.id] > 0
         /\ \A a \in Of("resolve", plan) :
              violations[a.key] = "resolved" => violations'[a.key] = "resolved"
         /\ \A a \in Of("digest", plan) :
              /\ digested[a.key] > 0 => digested'[a.key] > 0
              /\ a.rows \subseteq named[a.key] => a.rows \subseteq named'[a.key]
<1>1. \A a \in Of("nudge", plan) : nudged[a.id] > 0 => nudged'[a.id] > 0
  BY PlannedKnown, DoneStays
<1>2. \A a \in Of("resolve", plan) :
        violations[a.key] = "resolved" => violations'[a.key] = "resolved"
  BY PlannedKnown, DoneStays
<1>3. \A a \in Of("digest", plan) : digested[a.key] > 0 => digested'[a.key] > 0
  BY PlannedKnown, DoneStays
<1>4. ASSUME NEW a \in Of("digest", plan), a.rows \subseteq named[a.key]
      PROVE  a.rows \subseteq named'[a.key]
  <2>1. a.key \in Groups
    BY PlannedKnown
  <2>2. named[a.key] \subseteq named'[a.key]
    BY <2>1, NamesStay
  <2> QED
    BY <1>4, <2>2
<1> QED
  BY <1>1, <1>2, <1>3, <1>4

LEMMA ThoroughStep ==
  ASSUME TInv, DInv, [Next]_vars
  PROVE  DInv'
<1>1. /\ nudged \in [SlotIds -> 0..MaxSent] /\ digested \in [Groups -> 0..MaxSent]
      /\ violations \in [Keys -> Statuses]
  BY DEF TInv, TypeOK, Statuses
<1>2. CASE UNCHANGED <<at, snapshot, plan, missing>>
  <2>1. \A kind : Of(kind, plan)' = Of(kind, plan)
    BY <1>2 DEF Of
  <2> QED
    BY <1>2, <2>1, DoneKept DEF DInv, NudgesSent, ResolvesMade, DigestsSent
<1>3. CASE at' \in {"idle", "plan"}
  BY <1>3 DEF DInv, NudgesSent, ResolvesMade, DigestsSent
<1>4. CASE Plan /\ ~FailRun
  <2>1. PICK acts : GoOn(0, acts, {})
    BY <1>4 DEF Plan
  <2>2. /\ plan' = acts
        /\ at' # "nudge" => Of("nudge", acts) = {}
        /\ at' \in {"digest", "end"} => Of("resolve", acts) = {}
        /\ at' = "end" => Of("digest", acts) = {}
    BY <2>1, GoesOn, GoesPast
  <2>3. \A kind : Of(kind, plan)' = Of(kind, acts)
    BY <2>2 DEF Of
  <2> QED
    BY <2>2, <2>3 DEF DInv, NudgesSent, ResolvesMade, DigestsSent
<1>5. CASE Leave /\ (SendNudges \/ Create \/ Resolve \/ SendDigests)
  <2>1. AtNode /\ at # "find"
    BY <1>5 DEF AtNode, SendNudges, Create, Resolve, SendDigests
  <2>2. /\ UNCHANGED plan /\ at' \in {"find", "create", "resolve", "digest", "end"}
        /\ at \in {"nudge", "find", "create"} /\ at' \in {"digest", "end"} =>
             Of("resolve", plan) = {}
        /\ at # "digest" /\ at' = "end" => Of("digest", plan) = {}
        /\ at \in {"resolve", "digest"} => at' \in {"digest", "end"}
    BY <1>5, <2>1, BranchLeaves
  <2>3. \A kind : Of(kind, plan)' = Of(kind, plan)
    BY <2>2 DEF Of
  <2>4. NudgesSent'
    <3>1. CASE at = "nudge"
      <4>1. Nudge(Of("nudge", plan))
        BY <1>5, <3>1 DEF Items, ItemsAt, SendNudges, Create, Resolve, SendDigests
      <4>2. \A a \in Of("nudge", plan) : nudged'[a.id] > 0
        BY <1>1, <4>1, NudgeWrites, PlannedKnown
      <4> QED
        BY <2>3, <4>2 DEF NudgesSent
    <3>2. CASE at # "nudge"
      BY <2>1, <2>3, <3>2, DoneKept DEF DInv, NudgesSent, AtNode
    <3> QED
      BY <3>1, <3>2
  <2>5. ResolvesMade'
    <3>1. CASE at = "resolve"
      <4>1. Close(Of("resolve", plan))
        BY <1>5, <3>1 DEF Items, ItemsAt, SendNudges, Create, Resolve, SendDigests
      <4>2. \A a \in Of("resolve", plan) : violations'[a.key] = "resolved"
        BY <1>1, <4>1, CloseWrites, PlannedKnown
      <4> QED
        BY <2>3, <4>2 DEF ResolvesMade
    <3>2. CASE at = "digest"
      BY <2>3, <3>2, DoneKept DEF DInv, ResolvesMade
    <3>3. CASE at \in {"nudge", "create"}
      BY <2>2, <2>3, <3>3 DEF ResolvesMade
    <3> QED
      BY <2>1, <3>1, <3>2, <3>3 DEF AtNode
  <2>6. DigestsSent'
    <3>1. CASE at = "digest"
      <4>1. Digest(Of("digest", plan))
        BY <1>5, <3>1 DEF Items, ItemsAt, SendNudges, Create, Resolve, SendDigests
      <4>2. \A a \in Of("digest", plan) : a.key \in Groups
        BY PlannedKnown
      <4>3. \A a \in Of("digest", plan) : digested'[a.key] > 0
        BY <1>1, <4>1, <4>2, DigestWrites
      <4>4. \A a \in Of("digest", plan) : a.rows \subseteq named'[a.key]
        BY <4>1, <4>2, DigestNames
      <4> QED
        BY <2>3, <4>3, <4>4 DEF DigestsSent
    <3>2. CASE at # "digest"
      BY <2>2, <2>3, <3>2 DEF DigestsSent
    <3> QED
      BY <3>1, <3>2
  <2> QED
    BY <2>4, <2>5, <2>6 DEF DInv
<1>6. CASE Find
  <2>1. at = "find" /\ plan' = plan /\ at' \in {"create", "resolve", "digest", "end"}
    BY <1>6, FindLeads DEF Find
  <2>2. GoOn(2, plan, Unknown)
    BY <1>6, Places DEF Find
  <2>3. /\ at' \in {"digest", "end"} => Of("resolve", plan) = {}
        /\ at' = "end" => Of("digest", plan) = {}
    <3> HIDE DEF Unknown
    <3> QED
      BY <2>2, GoesPast
  <2>4. \A kind : Of(kind, plan)' = Of(kind, plan)
    BY <2>1 DEF Of
  <2> QED
    BY <2>1, <2>3, <2>4, DoneKept DEF DInv, NudgesSent, ResolvesMade, DigestsSent
<1> QED
  BY <1>2, <1>3, <1>4, <1>5, <1>6, RunMoves DEF Fetch

\* What the snapshot calls for is planned, or has come about: an id is dropped
\* from the plan only when it is committed, and is committed only when done.
LEMMA CallsAnswered ==
  ASSUME AbsentAreAway, TInv, CInv, Plan, at' \notin {"idle", "plan"}, NEW c \in CalledFor
  PROVE  Effected(c) \/ \E a \in plan' : a.kind = c.kind /\ a.key = c.key
<1> DEFINE i == snapshot.input
           status == snapshot.status
<1>1. /\ i \in Usable /\ at = "plan"
      /\ plan' = PlanComplianceActions(Built[i], snapshot.accepted, status, PlanTime, static)
  BY PlanMade DEF Plan, FailRun, EndRun, PlanTime
<1>2. \A e \in Owed[i] : /\ e \in Built[i] /\ e.type = "EOD" /\ e.state = "expected"
                         /\ Key(e) \in Keys /\ Group(e) \in Groups
  <2>1. i \in DOMAIN Inputs /\ i \notin Broken
    BY <1>1 DEF Usable
  <2>2. \A e \in Owed[i] : e \in Built[i] /\ e.type = "EOD" /\ e.user \notin Absent[i]
    BY <2>1 DEF Owed
  <2> QED
    BY <1>1, <2>1, <2>2, PresentExpected, SlotIsKnown
<1>3. /\ \A k \in Keys : /\ status[k] # "none" => violations[k] # "none"
                         /\ UpsertId(k) \in static => violations[k] # "none"
                         /\ ResolutionId(k) \in static => violations[k] = "resolved"
      /\ \A g \in Groups : EscalationId(g) \in static => digested[g] > 0
  BY <1>1 DEF CInv, SnapshotRecorded, CommittedWasDone
<1> HIDE DEF i, status
<1>4. \A e \in MissedThen : e \in Owed[i] /\ Breached(e, snapshot.accepted, PlanTime)
  BY <1>2 DEF MissedThen, Breached, Missing, i
<1>5. ASSUME NEW e \in MissedThen, c = [kind |-> "upsert", key |-> Key(e)]
      PROVE  Effected(c) \/ \E a \in plan' : a.kind = c.kind /\ a.key = c.key
  <2> DEFINE a == [kind |-> "upsert", id |-> UpsertId(Key(e)), key |-> Key(e), rows |-> {e}]
  <2>1. CASE status[Key(e)] = "none" /\ UpsertId(Key(e)) \notin static
    <3>1. a \in Upserts(Built[i], snapshot.accepted, status, PlanTime, static)
      BY <1>2, <1>4, <2>1 DEF Upserts
    <3>2. a \in plan' /\ a.kind = c.kind /\ a.key = c.key
      BY <1>1, <1>5, <3>1 DEF PlanComplianceActions
    <3> QED
      BY <3>2
  <2>2. CASE status[Key(e)] # "none" \/ UpsertId(Key(e)) \in static
    BY <1>2, <1>3, <1>4, <1>5, <2>2 DEF Effected
  <2> QED
    BY <2>1, <2>2
<1>6. ASSUME NEW e \in Owed[i], Key(e) \in snapshot.accepted, status[Key(e)] = "open",
             c = [kind |-> "resolve", key |-> Key(e)]
      PROVE  Effected(c) \/ \E a \in plan' : a.kind = c.kind /\ a.key = c.key
  <2> DEFINE a == [kind |-> "resolve", id |-> ResolutionId(Key(e)), key |-> Key(e), rows |-> {}]
  <2>1. CASE ResolutionId(Key(e)) \notin static
    <3>1. a \in Resolutions(Built[i], snapshot.accepted, status, static)
      BY <1>2, <1>6, <2>1 DEF Resolutions
    <3>2. a \in plan' /\ a.kind = c.kind /\ a.key = c.key
      BY <1>1, <1>6, <3>1 DEF PlanComplianceActions
    <3> QED
      BY <3>2
  <2>2. CASE ResolutionId(Key(e)) \in static
    BY <1>2, <1>3, <1>6, <2>2 DEF Effected
  <2> QED
    BY <2>1, <2>2
<1>7. ASSUME NEW e \in MissedThen, e.due + EscalateAfter <= PlanTime,
             status[Key(e)] \in {"none", "open"}, c = [kind |-> "digest", key |-> Group(e)]
      PROVE  Effected(c) \/ \E a \in plan' : a.kind = c.kind /\ a.key = c.key
  <2> DEFINE overdue == Overdue(Built[i], snapshot.accepted, status, PlanTime)
             a == [kind |-> "digest", id |-> EscalationId(Group(e)), key |-> Group(e),
                   rows |-> {f \in overdue : Group(f) = Group(e)}]
  <2>1. CASE EscalationId(Group(e)) \notin static
    <3>1. e \in overdue
      BY <1>2, <1>4, <1>7 DEF Overdue
    <3>2. a \in Digests(Built[i], snapshot.accepted, status, PlanTime, static)
      BY <2>1, <3>1 DEF Digests
    <3>3. a \in plan' /\ a.kind = c.kind /\ a.key = c.key
      BY <1>1, <1>7, <3>2 DEF PlanComplianceActions
    <3> QED
      BY <3>3
  <2>2. CASE EscalationId(Group(e)) \in static
    BY <1>2, <1>3, <1>4, <1>7, <2>2 DEF Effected
  <2> QED
    BY <2>1, <2>2
<1> QED
  BY <1>5, <1>6, <1>7 DEF CalledFor, i, status

\* At the end of a run the invariants leave nothing of the plan undone.
LEMMA EndIsThorough ==
  ASSUME TInv, CInv, DInv, at = "end", NEW a \in plan
  PROVE  Effected(a) /\ (a.kind = "digest" => a.rows \subseteq named[a.key])
<1>1. /\ \A b \in Of("nudge", plan) : nudged[b.id] > 0
      /\ \A b \in Of("upsert", plan) : violations[b.key] # "none"
      /\ \A b \in Of("resolve", plan) : violations[b.key] = "resolved"
      /\ \A b \in Of("digest", plan) : digested[b.key] > 0 /\ b.rows \subseteq named[b.key]
  BY DEF DInv, NudgesSent, ResolvesMade, DigestsSent, CInv, UpsertsRecorded
<1> QED
  BY <1>1 DEF Of, Effected

\* What a snapshot calls for comes about or is planned, and a run that reaches
\* its end has done all it planned, whatever was lost and retried before.
THEOREM RunsAreThorough ==
  ASSUME AbsentAreAway
  PROVE  Spec => NothingIsSkipped
<1>1. Init => TInv /\ CInv /\ DInv
  BY TypesInitially, CommitsInitially DEF Init, DInv, NudgesSent, ResolvesMade, DigestsSent
<1>2. TInv /\ CInv /\ DInv /\ [Next]_vars => (TInv /\ CInv /\ DInv)'
  BY TypesInductive, CommitsInductive, ThoroughStep
<1>3. TInv /\ CInv /\ DInv /\ [Next]_vars =>
        [/\ at = "plan" /\ at' \notin {"idle", "plan"} =>
              \A c \in CalledFor :
                Effected(c) \/ \E a \in plan' : a.kind = c.kind /\ a.key = c.key
         /\ at = "end" =>
              \A a \in plan : Effected(a) /\ (a.kind = "digest" => a.rows \subseteq named[a.key])]_vars
  <2>1. SUFFICES ASSUME TInv, CInv, DInv, [Next]_vars, ~UNCHANGED vars
                 PROVE  /\ at = "plan" /\ at' \notin {"idle", "plan"} =>
                             \A c \in CalledFor :
                               Effected(c) \/ \E a \in plan' : a.kind = c.kind /\ a.key = c.key
                        /\ at = "end" =>
                             \A a \in plan :
                               Effected(a) /\ (a.kind = "digest" => a.rows \subseteq named[a.key])
    OBVIOUS
  <2>2. at = "plan" /\ at' \notin {"idle", "plan"} => Plan
    BY <2>1, RunMoves DEF Fetch, Find, SendNudges, Create, Resolve, SendDigests
  <2> QED
    BY <2>1, <2>2, CallsAnswered, EndIsThorough
<1> QED
  BY <1>1, <1>2, <1>3, PTL DEF Spec, NothingIsSkipped
=============================================================================
