------------------------------ MODULE Calendar ------------------------------
(***************************************************************************)
(* Days, instants and due dates of the SupplyKhata back end                *)
(* (calendar-utc.helper.ts, calendar-date.helper.ts, billing-due.helpers). *)
(*                                                                         *)
(* Days are numbered; an instant is half a day of UTC.  A business date is *)
(* stored as the first instant of its day in UTC.  The wall clock of a     *)
(* workspace is ahead of UTC by zone halves of a day.                      *)
(***************************************************************************)
EXTENDS Integers, Sequences, FiniteSetsExt, Functions

CONSTANTS MonthLengths, \* days of each month; day 1 starts the first
          Week          \* days of a week (7)

ASSUME CalendarAssumption ==
    /\ MonthLengths \in Seq(Nat \ {0}) /\ Week \in Nat \ {0}

NoDay == 0  \* null; days start at 1

Midnight(day) == 2 * day
UtcDay(instant) == instant \div 2
LocalDay(instant, zone) == UtcDay(instant + zone)

\* The ranges that the reports and the documents put around days.
InUtcDays(instant, from, to) == Midnight(from) <= instant /\ instant < Midnight(to + 1)
InZonedDays(instant, from, to, zone) ==
    Midnight(from) - zone <= instant /\ instant < Midnight(to + 1) - zone

Months == DOMAIN MonthLengths
FirstOf(m) == 1 + SumFunction([k \in 1..(m - 1) |-> MonthLengths[k]])
LastOf(m) == FirstOf(m) + MonthLengths[m] - 1
MonthOf(day) == CHOOSE m \in Months : FirstOf(m) <= day /\ day <= LastOf(m)

ClampDay(m, dayOfMonth) == IF dayOfMonth < MonthLengths[m] THEN dayOfMonth ELSE MonthLengths[m]
DueIn(m, dayOfMonth) == FirstOf(m) + ClampDay(m, dayOfMonth) - 1

-----------------------------------------------------------------------------
(* A billing cycle: kind, its weeks, and its anchor or day of the month.    *)

NextDueFromAnchor(today, anchor, interval) ==
    LET rem == (today - anchor) % interval
    IN  IF today <= anchor THEN anchor
        ELSE IF rem = 0 THEN today ELSE today + interval - rem

LastDueFromAnchor(today, anchor, interval) ==
    IF today < anchor THEN NoDay ELSE today - ((today - anchor) % interval)

NextMonthlyDue(today, dayOfMonth) ==
    LET m == MonthOf(today)
    IN  IF today <= DueIn(m, dayOfMonth) THEN DueIn(m, dayOfMonth) ELSE DueIn(m + 1, dayOfMonth)

\* Mutant: the due day of the month before is not clamped to its length.
LastMonthlyDueUnclamped(today, dayOfMonth) ==
    LET m == MonthOf(today)
    IN  IF today >= DueIn(m, dayOfMonth) THEN DueIn(m, dayOfMonth) ELSE FirstOf(m - 1) + dayOfMonth - 1

LastMonthlyDue(today, dayOfMonth) ==
    LET m == MonthOf(today)
    IN  IF today >= DueIn(m, dayOfMonth) THEN DueIn(m, dayOfMonth) ELSE DueIn(m - 1, dayOfMonth)

NextDueDate(cycle, today) ==
    CASE cycle.kind = "CASH_ON_DELIVERY" \/ cycle.day = NoDay -> NoDay
      [] cycle.kind = "WEEKS" /\ cycle.day # NoDay -> NextDueFromAnchor(today, cycle.day, cycle.weeks * Week)
      [] cycle.kind = "MONTHLY" /\ cycle.day # NoDay -> NextMonthlyDue(today, cycle.day)

LastDueDate(cycle, today) ==
    CASE cycle.kind = "CASH_ON_DELIVERY" \/ cycle.day = NoDay -> NoDay
      [] cycle.kind = "WEEKS" /\ cycle.day # NoDay -> LastDueFromAnchor(today, cycle.day, cycle.weeks * Week)
      [] cycle.kind = "MONTHLY" /\ cycle.day # NoDay -> LastMonthlyDue(today, cycle.day)

-----------------------------------------------------------------------------
(* What the two functions are for, told without their arithmetic. *)

IsDueDay(cycle, day) ==
    \/ cycle.kind = "WEEKS" /\ day >= cycle.day /\ \E n \in 0..day : day = cycle.day + n * cycle.weeks * Week
    \/ cycle.kind = "MONTHLY" /\ LET m == MonthOf(day) IN
           day - FirstOf(m) + 1 = cycle.day \/ (day = LastOf(m) /\ cycle.day > MonthLengths[m])

DueDays(cycle, days) == {day \in days : IsDueDay(cycle, day)}

\* The next due date is the first due day from today on, the last one the latest until today.
DueDatesOf(cycle, today, lastDay) ==
    LET ahead == DueDays(cycle, today..lastDay)
        behind == DueDays(cycle, 1..today)
    IN  cycle.kind # "CASH_ON_DELIVERY" /\ cycle.day # NoDay =>
            /\ ahead # {} => NextDueDate(cycle, today) = Min(ahead)
            /\ LastDueDate(cycle, today) = IF behind = {} THEN NoDay ELSE Max(behind)
=============================================================================
