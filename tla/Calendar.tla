------------------------------ MODULE Calendar ------------------------------
(***************************************************************************)
(* The calendar behind Datetime's display (src/src/types/datetime.rs):     *)
(* civil_from_days computes the Gregorian date of a day number with        *)
(* integer divisions only, and Display splits an instant at its zone's     *)
(* offset into that date and a time of day.  Both are compared with a      *)
(* calendar walked one day at a time, forwards and backwards, from dates   *)
(* whose day number is known.                                              *)
(***************************************************************************)
EXTENDS Integers

CONSTANTS
  Anchors,      \* records of a day number and its date
  Span,         \* how many days the walk goes from an anchor
  NearEpoch,    \* days whose seconds are still small numbers
  Offsets,      \* zone offsets in minutes
  Seconds       \* seconds of a day

\* What the constants have to be.
CalendarBounds ==
  /\ Span \in Nat
  /\ NearEpoch \in Nat
  /\ Offsets \subseteq Int
  /\ \A second \in Seconds : second \in Nat /\ second < 86400

VARIABLES
  anchor,     \* where the walk began
  day,        \* days since 1970-01-01
  date        \* the date of that day, by the calendar's own rules

vars == <<anchor, day, date>>

-----------------------------------------------------------------------------
(* The code.  With a positive divisor \div and % are div_euclid and          *)
(* rem_euclid.                                                               *)

SecondsPerDay == 86400

\* The year of an era that a day of the era lies in, and the days before it.
YearOfEra(doe) == (doe - doe \div 1460 + doe \div 36524 - doe \div 146096) \div 365
DaysBefore(yoe) == 365 * yoe + yoe \div 4 - yoe \div 100

\* The date of a day of a year that begins in March: mp counts the months.
DateInYear(year, doy) ==
  LET mp == (5 * doy + 2) \div 153
      month == IF mp < 10 THEN mp + 3 ELSE mp - 9
  IN [year |-> year + (IF month <= 2 THEN 1 ELSE 0), month |-> month,
      day |-> doy - (153 * mp + 2) \div 5 + 1]

\* Mutant: every hundredth year is a leap year.
CivilFromDays_JulianCenturies(days) ==
  LET era == (days + 719468) \div 146097
      doe == (days + 719468) % 146097
      yoe == (doe - doe \div 1460) \div 365
  IN DateInYear(yoe + era * 400, doe - (365 * yoe + yoe \div 4))

\* civil_from_days: years begin in March, so that the leap day is the last.
CivilFromDays(days) ==
  LET era == (days + 719468) \div 146097
      doe == (days + 719468) % 146097
      yoe == YearOfEra(doe)
  IN DateInYear(yoe + era * 400, doe - DaysBefore(yoe))

\* Display: the fields it prints for an instant shown at a zone's offset, for
\* instants that are further than an offset from the ends of i64, where
\* saturating_add is the sum.
Shown(epoch, offset) ==
  LET local == epoch + offset * 60
      second == local % SecondsPerDay
  IN [date |-> CivilFromDays(local \div SecondsPerDay), hour |-> second \div 3600,
      minute |-> (second \div 60) % 60, second |-> second % 60]

-----------------------------------------------------------------------------
(* The reference: the Gregorian rules, a day at a time *)

IsLeap(year) == year % 4 = 0 /\ (year % 100 # 0 \/ year % 400 = 0)

MonthLength(year, month) ==
  CASE month = 2 -> IF IsLeap(year) THEN 29 ELSE 28
    [] month \in {4, 6, 9, 11} -> 30
    [] OTHER -> 31

Following(d) ==
  CASE d.day < MonthLength(d.year, d.month) -> [d EXCEPT !.day = @ + 1]
    [] d.month < 12 /\ d.day = MonthLength(d.year, d.month) ->
         [year |-> d.year, month |-> d.month + 1, day |-> 1]
    [] OTHER -> [year |-> d.year + 1, month |-> 1, day |-> 1]

Preceding(d) ==
  CASE d.day > 1 -> [d EXCEPT !.day = @ - 1]
    [] d.month > 1 /\ d.day = 1 ->
         [year |-> d.year, month |-> d.month - 1, day |-> MonthLength(d.year, d.month - 1)]
    [] OTHER -> [year |-> d.year - 1, month |-> 12, day |-> 31]

-----------------------------------------------------------------------------

\* The type of every variable: what civil_from_days returns fits the ranges its
\* conversions expect (1..=31 and 1..=12).
TypeOK ==
  /\ anchor \in Anchors
  /\ day \in anchor.day - Span .. anchor.day + Span
  /\ date.month \in 1 .. 12 /\ date.day \in 1 .. 31
  /\ CivilFromDays(day).month \in 1 .. 12
  /\ CivilFromDays(day).day \in 1 .. 31

Init == /\ anchor \in Anchors
        /\ day = anchor.day
        /\ date = anchor.date

Tomorrow ==
  /\ day < anchor.day + Span
  /\ day >= anchor.day
  /\ day' = day + 1
  /\ date' = Following(date)
  /\ UNCHANGED anchor

Yesterday ==
  /\ day > anchor.day - Span
  /\ day <= anchor.day
  /\ day' = day - 1
  /\ date' = Preceding(date)
  /\ UNCHANGED anchor

Next == Tomorrow \/ Yesterday

Spec == Init /\ [][Next]_vars

-----------------------------------------------------------------------------
(* Properties *)

\* civil_from_days names the same date as a calendar walked day by day, around
\* leap days, ends of centuries and of 400-year eras, the epoch and year zero.
DateIsCivil == CivilFromDays(day) = date

\* Display shows an instant's date and time of day as a clock at the value's own
\* offset would, also for seconds before the epoch and for an offset that moves
\* the instant over midnight.
ShownLocally ==
  day \in -NearEpoch .. NearEpoch =>
    \A offset \in Offsets, second \in Seconds :
      LET shown == Shown(day * SecondsPerDay + second - offset * 60, offset)
      IN /\ shown.date = date
         /\ shown.hour * 3600 + shown.minute * 60 + shown.second = second
         /\ shown.hour \in 0 .. 23 /\ shown.minute \in 0 .. 59 /\ shown.second \in 0 .. 59

\* All of it: civil_from_days names the date that a calendar walked day by day
\* names, and Display shows what a clock at the value's offset shows.
DatesAreCivil == TypeOK /\ DateIsCivil /\ ShownLocally
=============================================================================
