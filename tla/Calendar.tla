------------------------------ MODULE Calendar ------------------------------
(***************************************************************************)
(* The console's clock at power-on: pspdrv_parse_datetime of               *)
(* psp-driver.cpp turns a civil date and a time of day into seconds since  *)
(* 1970 with arithmetic of its own, so that it is the same everywhere.     *)
(* The variables are a calendar on the wall, and a count of the days that  *)
(* have passed under it.                                                   *)
(***************************************************************************)
EXTENDS Integers

CONSTANTS LastYear    \* bound: the calendar stops at its end; the code's is 9999

ASSUME CalendarAssumption == LastYear \in 1970..9999

VARIABLES year, month, day, passed

vars == <<year, month, day, passed>>

-----------------------------------------------------------------------------
(* The code.  All of its divisions are of numbers that are not negative.    *)
(* A definition named X_how is a mutant of X.                              *)

\* days_from_civil, from the year beginning in March.
DaysFromCivil_julian(y, mo, d) ==
  LET yy  == IF mo <= 2 THEN y - 1 ELSE y
      era == yy \div 400
      yoe == yy - era * 400
      doy == (153 * (mo + (IF mo > 2 THEN -3 ELSE 9)) + 2) \div 5 + d - 1
  IN  era * 146097 + yoe * 365 + yoe \div 4 + doy - 719468
DaysFromCivil(y, mo, d) ==
  LET yy  == IF mo <= 2 THEN y - 1 ELSE y
      era == yy \div 400
      yoe == yy - era * 400
      doy == (153 * (mo + (IF mo > 2 THEN -3 ELSE 9)) + 2) \div 5 + d - 1
      doe == yoe * 365 + yoe \div 4 - yoe \div 100 + doy
  IN  era * 146097 + doe - 719468

NotADate == [days |-> 0, second |-> -1]    \* -1

SecondOfDay == {s \in Nat : s < 86400}

\* Of the six numbers of "YYYY-MM-DD HH:MM:SS".  The int64 of the code is days
\* * 86400 + second; TLC's integers have 32 bits, so the two are kept apart.
ParseDatetime(y, mo, d, h, mi, se) ==
  IF /\ mo \in 1..12 /\ d \in 1..31
     /\ h \in 0..23 /\ mi \in 0..59 /\ se \in 0..59
     /\ y \in 1970..9999
    THEN [days |-> DaysFromCivil(y, mo, d), second |-> h * 3600 + mi * 60 + se]
    ELSE NotADate

-----------------------------------------------------------------------------
(* The calendar.                                                           *)

IsLeap(y) == y % 4 = 0 /\ (y % 100 # 0 \/ y % 400 = 0)

DaysIn(y, mo) ==
  CASE mo = 2              -> IF IsLeap(y) THEN 29 ELSE 28
    [] mo \in {4, 6, 9, 11} -> 30
    [] OTHER               -> 31

Init == year = 1970 /\ month = 1 /\ day = 1 /\ passed = 0

Midnight ==
  /\ \/ /\ day < DaysIn(year, month)
        /\ day' = day + 1
        /\ UNCHANGED <<year, month>>
     \/ /\ day = DaysIn(year, month)
        /\ month < 12
        /\ month' = month + 1
        /\ day' = 1
        /\ UNCHANGED year
     \/ /\ day = 31 /\ month = 12
        /\ year < LastYear
        /\ year' = year + 1
        /\ month' = 1
        /\ day' = 1
  /\ passed' = passed + 1

Spec == Init /\ [][Midnight]_vars

-----------------------------------------------------------------------------
(* Properties.                                                             *)

\* Every day of the calendar is the number of days that have passed, leap years
\* and centuries included, and no day of it is refused.
DaysAreCounted ==
  ParseDatetime(year, month, day, 23, 59, 59) = [days |-> passed, second |-> 86399]
=============================================================================
