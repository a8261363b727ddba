----------------------------- MODULE Compliance -----------------------------
(***************************************************************************)
(* The pure planner of checkin_platform/compliance.py, which the Code      *)
(* nodes expectation-builder.js, compliance-planner.js and                 *)
(* weekly-rollup.js repeat.  Days and instants are numbers; a zone is its  *)
(* offset on every day; digests of ids.py are injective, so an action id   *)
(* is the tuple that is digested.                                          *)
(***************************************************************************)
EXTENDS Integers, FiniteSets

CONSTANTS
  TicksPerDay,     \* length of a day
  NudgeBefore,     \* nudge_before_minutes
  EscalateAfter,   \* escalation_after_hours
  AnyPod,          \* pod_id of a rule for every pod
  NoCode           \* an empty sla_code

ASSUME TimingAssumption ==
  /\ TicksPerDay \in Nat \ {0}
  /\ NudgeBefore \in Nat \ {0}
  /\ EscalateAfter \in Nat \ {0}
-----------------------------------------------------------------------------
(* Expectations.  An input is [roster, rules, leave, holidays], four sets  *)
(* of records, and twice, the members and rules that are listed twice.     *)

IsActive(member, day) == member.active /\ day \in member.from .. member.until

OnApprovedLeave(user, day, leave) ==
  \E record \in leave :
    /\ record.user = user
    /\ record.status = "approved"
    /\ day \in record.start .. record.end

IsHoliday(pod, day, holidays) ==
  \E holiday \in holidays :
    /\ holiday.date = day
    /\ holiday.scope = "global" \/ (holiday.scope = "pod" /\ holiday.pod = pod)

\* Leave that is not looked at.
AttendanceIgnoringLeave(member, day, input) ==
  IF ~IsActive(member, day) THEN "inactive"
  ELSE IF IsHoliday(member.pod, day, input.holidays) THEN "holiday" ELSE "expected"

AttendanceState(member, day, input) ==
  CASE ~IsActive(member, day) -> "inactive"
    [] IsActive(member, day)
         /\ OnApprovedLeave(member.user, day, input.leave) -> "approved_leave"
    [] IsActive(member, day)
         /\ ~OnApprovedLeave(member.user, day, input.leave)
         /\ IsHoliday(member.pod, day, input.holidays) -> "holiday"
    [] OTHER -> "expected"

LocalDue(day, zone, localTime) == day * TicksPerDay + localTime - zone[day]

Applies(rule, member) == rule.pod \in {AnyPod, member.pod}

Applications(input) ==
  {mr \in input.roster \X input.rules : Applies(mr[2], mr[1])}

\* ComplianceError: a user or an expectation occurs twice, or a rule is of no
\* known type or without code.
BuildFails(input) ==
  \/ \E m \in input.roster : m \in input.twice \/ \E n \in input.roster : m # n /\ m.user = n.user
  \/ input.roster # {} /\ \E rule \in input.rules : rule.type \notin {"SOD", "EOD"}
  \/ \E x \in Applications(input) : x[2].code = NoCode \/ x[2] \in input.twice
  \/ \E x, y \in Applications(input) :
       /\ x # y
       /\ <<x[1].user, x[2].type, x[2].code>> = <<y[1].user, y[2].type, y[2].code>>

Expectations(input, day) ==
  {[user |-> mr[1].user, pod |-> mr[1].pod, date |-> day,
    type |-> mr[2].type, code |-> mr[2].code,
    due |-> LocalDue(day, mr[1].zone, mr[2].at),
    state |-> AttendanceState(mr[1], day, input)] : mr \in Applications(input)}

Key(row) == <<row.user, row.date, row.type>>
-----------------------------------------------------------------------------
(* The plan, from expectations, the keys of accepted check-ins, the status *)
(* of the PI-6 violation of each key ("none" if there is none), the clock, *)
(* and the ids already committed.                                          *)

NudgeId(e) == <<"nudge", <<e.user, e.date, e.type, e.code>>>>
ResolutionId(key) == <<"resolve", key>>
UpsertId(key) == <<"upsert", key>>
EscalationId(group) == <<"esc", group>>

Group(e) == <<e.pod, e.date, e.type>>

Missing(e, accepted) == e.state = "expected" /\ Key(e) \notin accepted

Nudges(exps, accepted, now, committed) ==
  {[kind |-> "nudge", id |-> NudgeId(e), key |-> Key(e), rows |-> {e}] :
     e \in {e \in exps : /\ Missing(e, accepted)
                         /\ e.due - NudgeBefore <= now /\ now < e.due
                         /\ NudgeId(e) \notin committed}}

\* A breach from the nudge on.
BreachedAtNudge(e, accepted, now) ==
  Missing(e, accepted) /\ e.type = "EOD" /\ e.due - NudgeBefore <= now

\* A breach that is looked for until it escalates.
BreachedRecently(e, accepted, now) ==
  Missing(e, accepted) /\ e.type = "EOD" /\ e.due <= now /\ now < e.due + EscalateAfter

Breached(e, accepted, now) ==
  Missing(e, accepted) /\ e.type = "EOD" /\ e.due <= now

Upserts(exps, accepted, status, now, committed) ==
  {[kind |-> "upsert", id |-> UpsertId(Key(e)), key |-> Key(e), rows |-> {e}] :
     e \in {e \in exps : /\ Breached(e, accepted, now)
                         /\ status[Key(e)] = "none"
                         /\ UpsertId(Key(e)) \notin committed}}

\* The id of the wrong action looked up.
ResolutionsUnlessRecorded(exps, accepted, status, committed) ==
  {[kind |-> "resolve", id |-> ResolutionId(Key(e)), key |-> Key(e), rows |-> {}] :
     e \in {e \in exps : /\ e.state = "expected" /\ Key(e) \in accepted
                         /\ status[Key(e)] = "open"
                         /\ UpsertId(Key(e)) \notin committed}}

Resolutions(exps, accepted, status, committed) ==
  {[kind |-> "resolve", id |-> ResolutionId(Key(e)), key |-> Key(e), rows |-> {}] :
     e \in {e \in exps : /\ e.state = "expected" /\ Key(e) \in accepted
                         /\ status[Key(e)] = "open"
                         /\ ResolutionId(Key(e)) \notin committed}}

\* Only violations this run records.
OverdueIfNew(exps, accepted, status, now) ==
  {e \in exps : /\ Breached(e, accepted, now) /\ e.due + EscalateAfter <= now
                /\ status[Key(e)] = "none"}

Overdue(exps, accepted, status, now) ==
  {e \in exps : /\ Breached(e, accepted, now)
                /\ e.due + EscalateAfter <= now
                /\ status[Key(e)] \in {"none", "open"}}

Digests(exps, accepted, status, now, committed) ==
  LET overdue == Overdue(exps, accepted, status, now)
  IN {[kind |-> "digest", id |-> EscalationId(g), key |-> g,
       rows |-> {e \in overdue : Group(e) = g}] :
        g \in {g \in {Group(e) : e \in overdue} : EscalationId(g) \notin committed}}

PlanComplianceActions(exps, accepted, status, now, committed) ==
  Nudges(exps, accepted, now, committed)
    \cup Upserts(exps, accepted, status, now, committed)
    \cup Resolutions(exps, accepted, status, committed)
    \cup Digests(exps, accepted, status, now, committed)
-----------------------------------------------------------------------------
(* The weekly rollup, from expectations and check-ins [user, date, type,   *)
(* pod, sla, nth]: of those of a key the last in the list, the nth, counts. *)

RollupFails(start, end) == end < start \/ end - start > 6

\* The check-ins of a pod that have one of the keys, the last of each.
LastRows(listed, pod, keys) ==
  {c \in listed : /\ c.pod = pod /\ Key(c) \in keys
                  /\ \A d \in listed : d.pod = pod /\ Key(d) = Key(c) => d.nth <= c.nth}

\* One report for every rule.
RollupPerRule(exps, checkins, start, end) ==
  LET owing(pod) == {e \in exps : e.state = "expected" /\ e.date \in start .. end /\ e.pod = pod}
      listed == {c \in checkins : c.date \in start .. end}
      rows(pod) == LastRows(listed, pod, {Key(e) : e \in owing(pod)})
      of(pod, sla) == Cardinality({c \in rows(pod) : c.sla = sla})
  IN {[pod |-> pod, expected |-> Cardinality(owing(pod)), submitted |-> Cardinality(rows(pod)),
       missing |-> Cardinality(owing(pod)) - Cardinality(rows(pod)),
       on_time |-> of(pod, "on_time"), late |-> of(pod, "late")] :
        pod \in {pod \in {e.pod : e \in exps} : owing(pod) # {}}}

WeeklyRollup(exps, checkins, start, end) ==
  LET owing == {e \in exps : e.state = "expected" /\ e.date \in start .. end}
      keys == [pod \in {e.pod : e \in owing} |-> {Key(e) : e \in {e \in owing : e.pod = pod}}]
      listed == {c \in checkins : c.date \in start .. end}
      rows(pod) == LastRows(listed, pod, keys[pod])
      of(pod, sla) == Cardinality({c \in rows(pod) : c.sla = sla})
      total(pod) == Cardinality(keys[pod])
      submitted(pod) == Cardinality(rows(pod))
  IN {[pod |-> pod, expected |-> total(pod), submitted |-> submitted(pod),
       missing |-> IF submitted(pod) > total(pod) THEN 0 ELSE total(pod) - submitted(pod),
       on_time |-> of(pod, "on_time"), late |-> of(pod, "late")] : pod \in DOMAIN keys}
=============================================================================
