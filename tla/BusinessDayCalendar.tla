------------------------ MODULE BusinessDayCalendar ------------------------
(***************************************************************************)
(* The date arithmetic of calendar/businessDayCalendar.ts.                 *)
(*                                                                         *)
(* The engine compares ISO strings, and a date without a time is less than *)
(* every time on that date and greater than every time on the day before.  *)
(* An instant is therefore a number: 2*d is the date-only string of day d  *)
(* and 2*d+1 a time of day d.  Day 0 is a Monday.                          *)
(***************************************************************************)
EXTENDS Naturals, FiniteSets

CONSTANTS Holidays,   \* the published closures, a list of days
          NoDate      \* the time of what has not happened or cannot be known

ASSUME HolidaysAssumption == Holidays \subseteq Nat /\ IsFiniteSet(Holidays)

ASSUME NoDateAssumption == NoDate \notin Nat

\* toDateOnly: the time of day is cut off.
DateOf(t) == t \div 2

\* toISODate: the result has no time of day.
DateOnly(d) == 2 * d

IsWeekend(d) == d % 7 \in {5, 6}

IsBusinessDay(d) == ~IsWeekend(d) /\ d \notin Holidays

\* addDays' loop, at <<day of the cursor, business days remaining>>.
Walk[at \in Nat \X Nat] ==
  IF at[2] = 0 THEN at[1]
  ELSE Walk[<<at[1] + 1, IF IsBusinessDay(at[1] + 1) THEN at[2] - 1 ELSE at[2]>>]

\* Mutant: the start day counts as the first business day.
AddDaysFromStart(t, n, unit) ==
  DateOnly(IF unit = "calendar_day" \/ n = 0 THEN DateOf(t) + n
           ELSE Walk[<<DateOf(t), IF IsBusinessDay(DateOf(t)) THEN n - 1 ELSE n>>])

\* addDays, for the non-negative amounts it accepts.
AddDays(t, n, unit) ==
  DateOnly(IF unit = "calendar_day" THEN DateOf(t) + n ELSE Walk[<<DateOf(t), n>>])
=============================================================================
