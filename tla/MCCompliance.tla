---------------------------- MODULE MCCompliance ----------------------------
(***************************************************************************)
(* Instances of ComplianceWorker for TLC: up to two members, the second a  *)
(* zone behind, and the reasons for which they may be away.                *)
(***************************************************************************)
EXTENDS ComplianceWorker

Member(u, p, offset) ==
  [user |-> u, pod |-> p, active |-> TRUE, from |-> -9, until |-> 9,
   zone |-> [d \in {CycleDay} |-> offset]]

Rule(p, t, c, tick) == [pod |-> p, type |-> t, code |-> c, at |-> tick]

EndOfDay == Rule(AnyPod, "EOD", 1, 1)

On(s, first, last) == [user |-> 2, status |-> s, start |-> first, end |-> last]

Holiday(d, s, p) == [date |-> d, scope |-> s, pod |-> p]

\* Two members of two pods.
Base ==
  [roster |-> {Member(1, 1, 0), Member(2, 2, 0)}, rules |-> {EndOfDay},
   leave |-> {}, holidays |-> {}, twice |-> {}, absent |-> {}, timed |-> TRUE]

\* One member, a zone behind, who also reports at the start of the day; the
\* planner reads its own clock.
BothReports == [Base EXCEPT !.roster = {Member(1, 1, -1)}, !.timed = FALSE,
                            !.rules = {Rule(1, "EOD", 1, 0), Rule(AnyPod, "SOD", 1, 0)}]

\* One pod; the second member is due a tick after the first.
TwoZones == [Base EXCEPT !.roster = {Member(1, 1, 0), Member(2, 1, -1)}]

\* Two rules for one report, due together.
TwoRules == [Base EXCEPT !.roster = {Member(1, 1, 0)},
                         !.rules = {EndOfDay, Rule(1, "EOD", 2, 1)}]

\* An old leave, and one that may be approved.
LeaveIs(status) ==
  [Base EXCEPT !.roster = {Member(2, 1, 0)},
               !.leave = {On("approved", -3, -1), On(status, 0, 1)},
               !.absent = IF status = "approved" THEN {2} ELSE {}]

SecondAway == [Base EXCEPT !.absent = {2}]

SecondAlone(m) == [SecondAway EXCEPT !.roster = {m}]

MCInputs ==
  <<Base, BothReports, TwoRules, TwoZones, LeaveIs("requested"), LeaveIs("approved"),
    [SecondAway EXCEPT !.leave = {On("approved", -1, 0)}],
    [SecondAlone(Member(2, 2, 0)) EXCEPT
       !.holidays = {Holiday(0, "pod", 2), Holiday(1, "global", 0)}],
    [SecondAway EXCEPT !.holidays = {Holiday(0, "global", 0)}, !.absent = {1, 2}],
    SecondAlone([Member(2, 2, 0) EXCEPT !.active = FALSE]),
    SecondAlone([Member(2, 2, 0) EXCEPT !.until = -1]),
    SecondAlone([Member(2, 2, 0) EXCEPT !.from = 1]),
    \* The roster contradicts itself, or repeats itself, or the rules do.
    [SecondAway EXCEPT !.roster = {Member(2, 2, 0), [Member(2, 2, 0) EXCEPT !.active = FALSE]}],
    [SecondAlone(Member(2, 2, 0)) EXCEPT !.twice = {Member(2, 2, 0)}],
    [SecondAway EXCEPT !.twice = {EndOfDay}]>>

\* What theorems ask of the inputs holds of these.
ASSUME InputsAsProved == OneDueTime /\ AbsentAreAway
=============================================================================
