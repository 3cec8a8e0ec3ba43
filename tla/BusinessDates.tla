---------------------------- MODULE BusinessDates ----------------------------
(***************************************************************************)
(* Business dates (clients/utils/business-date.ts): calendar days without  *)
(* a time of day.  A date is a month, counted from January 2024, and a     *)
(* day of that month.                                                      *)
(***************************************************************************)
EXTENDS Naturals

IsLeapYear(year) == year % 4 = 0 /\ (year % 100 # 0 \/ year % 400 = 0)

\* The last day of a month: day 0 of the next one, in JavaScript's Date.UTC.
LastDay(month) ==
    CASE month % 12 = 1 -> IF IsLeapYear(2024 + month \div 12) THEN 29 ELSE 28
      [] month % 12 \in {3, 5, 8, 10} -> 30
      [] OTHER -> 31

DatesUntil(horizon) ==
    {date \in [month : 0 .. horizon, day : 1 .. 31] : date.day <= LastDay(date.month)}

Before(a, b) == a.month < b.month \/ (a.month = b.month /\ a.day < b.day)

\* Mutant: the day a shorter month was clamped to becomes the anchor.
AddCalendarMonthsForgettingAnchor(date, months, anchor) ==
    LET month == date.month + months
    IN [month |-> month,
        day |-> IF date.day <= LastDay(month) THEN date.day ELSE LastDay(month)]

\* Mutant: a day the month does not have.
AddCalendarMonthsUnclamped(date, months, anchor) ==
    [month |-> date.month + months, day |-> anchor]

\* The anchor day of a later month, or the last day of a shorter one.
AddCalendarMonthsPreservingAnchor(date, months, anchor) ==
    LET month == date.month + months
    IN [month |-> month,
        day |-> IF anchor <= LastDay(month) THEN anchor ELSE LastDay(month)]
=============================================================================
