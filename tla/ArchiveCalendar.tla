--------------------------- MODULE ArchiveCalendar ---------------------------
(***************************************************************************)
(* The daily metrics of one day: in the view over the detail tables, whose *)
(* rows expire after 24 months, and in the archive, into which a refresh   *)
(* copies the day that was 23 months ago.  The reporting view takes days   *)
(* up to 23 months old from the one and older ones from the other.         *)
(* Subtracting months from a date keeps the day of the month, or takes the *)
(* last one of a month that is too short.                                  *)
(***************************************************************************)
EXTENDS Naturals

CONSTANTS
  FirstYear,  \* years the day may be of
  LastYear,
  Kept        \* bound: months after the day, a few more than 24

ASSUME YearsAreNatural == {FirstYear, LastYear, Kept} \subseteq Nat /\ FirstYear > 0

VARIABLES
  day,       \* the day whose metrics are followed
  today,
  archived,  \* the archive has the day
  detail,    \* its detail rows are there
  refresh,   \* today's refresh: "due", "done" or "failed"
  missed     \* a refresh that would have copied the day failed

archiveVars == <<day, today, archived, detail, refresh, missed>>

IsLeap(y) == y % 4 = 0 /\ (y % 100 # 0 \/ y % 400 = 0)

DaysIn(y, m) ==
  IF m = 2 THEN IF IsLeap(y) THEN 29 ELSE 28
  ELSE IF m \in {4, 6, 9, 11} THEN 30 ELSE 31

Dates ==
  {d \in [y : FirstYear..LastYear, m : 1..12, d : 1..31] : d.d <= DaysIn(d.y, d.m)}

\* Months since year 0.
MonthNumber(d) == 12 * d.y + d.m - 1

\* The date in the month of a number, with the last day for a missing one.
InMonth(n, d) ==
  LET y == n \div 12
      m == (n % 12) + 1
  IN  [y |-> y, m |-> m, d |-> IF d.d <= DaysIn(y, m) THEN d.d ELSE DaysIn(y, m)]

MinusMonths(d, n) == InMonth(MonthNumber(d) - n, d)
PlusMonths(d, n)  == InMonth(MonthNumber(d) + n, d)

Before(a, b) ==
  \/ MonthNumber(a) < MonthNumber(b)
  \/ MonthNumber(a) = MonthNumber(b) /\ a.d < b.d

NextDay(d) ==
  IF d.d < DaysIn(d.y, d.m) THEN [d EXCEPT !.d = @ + 1]
  ELSE [InMonth(MonthNumber(d) + 1, d) EXCEPT !.d = 1]

ArchiveTypeOK ==
  /\ day \in Dates
  /\ archived \in BOOLEAN /\ detail \in BOOLEAN /\ missed \in BOOLEAN
  /\ refresh \in {"due", "done", "failed"}

\* Followed from the month before its 23rd month.
ArchiveInit ==
  /\ day \in Dates
  /\ today = [InMonth(MonthNumber(day) + 22, day) EXCEPT !.d = 28]
  /\ archived = FALSE
  /\ detail = TRUE
  /\ refresh = "due"
  /\ missed = FALSE

-----------------------------------------------------------------------------

\* Mutant of Refreshed: a month later, when the detail is about to expire.
RefreshedAtExpiry == MinusMonths(today, 24)

\* The day that today's refresh copies.
Refreshed == MinusMonths(today, 23)

\* archive_submission_metrics_daily, at two o'clock.
Refresh ==
  /\ refresh = "due"
  /\ archived' = (archived \/ (Refreshed = day /\ detail))
  /\ refresh' = "done"
  /\ UNCHANGED <<day, today, detail, missed>>

\* It fails, with all its retries; tomorrow's copies another day.
RefreshFails ==
  /\ refresh = "due"
  /\ refresh' = "failed"
  /\ missed' = (missed \/ Refreshed = day)
  /\ UNCHANGED <<day, today, archived, detail>>

Expired == ~Before(today, PlusMonths(day, 24))

\* The rows are deleted some time after they expired.
Expire ==
  /\ detail
  /\ Expired
  /\ detail' = FALSE
  /\ UNCHANGED <<day, today, archived, refresh, missed>>

Midnight ==
  /\ refresh # "due"
  /\ MonthNumber(today) < MonthNumber(day) + Kept
  /\ today' = NextDay(today)
  /\ refresh' = "due"
  /\ UNCHANGED <<day, archived, detail, missed>>

ArchiveNext == Refresh \/ RefreshFails \/ Expire \/ Midnight

ArchiveSpec == ArchiveInit /\ [][ArchiveNext]_archiveVars

-----------------------------------------------------------------------------
(* Properties *)

\* The days that the month 23 months later is long enough for.
HasLaterDay(d) == d.d <= InMonth(MonthNumber(d) + 23, [d EXCEPT !.d = 31]).d

\* checkin_submission_metrics_reporting: in how many of its parts the day is.
Reported ==
  (IF detail /\ ~Before(day, MinusMonths(today, 23)) THEN 1 ELSE 0)
    + (IF archived /\ Before(day, MinusMonths(today, 23)) THEN 1 ELSE 0)

\* The report shows a day exactly once until the view takes it from the
\* archive.  From then on it shows a day of which no refresh failed exactly
\* once, before and after its detail expires, if the month of its refresh has
\* such a day.  It loses every other one, the 31st of March for instance, for
\* which there is no 31st of February: the comment of the archive says "copy
\* each day at month 23", and these are never copied.
DayReported ==
  /\ ~Before(day, MinusMonths(today, 23)) => Reported = 1
  /\ HasLaterDay(day) /\ ~missed => Reported = 1
  /\ ~HasLaterDay(day) /\ Before(day, MinusMonths(today, 23)) => Reported = 0
=============================================================================
