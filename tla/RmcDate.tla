-------------------------------- MODULE RmcDate --------------------------------
(***************************************************************************)
(* The date of an RMC sentence as a number of days: parse_utc in            *)
(* master-node/src/gps/rmc_parser.c, for every date field a sentence could   *)
(* carry.  The day begins the millisecond count of an observation; the time  *)
(* of day is added to it and left out here.                                  *)
(***************************************************************************)
EXTENDS Integers, Sequences

CONSTANTS LastYear, LastMonth, LastDay      \* the fields run from 0 to these

ASSUME FieldsOfTwoDigits == {LastYear, LastMonth, LastDay} \subseteq 0 .. 99

VARIABLE date      \* the field: day, month and short year

dateVars == date

Fields == [day : 0 .. LastDay, month : 0 .. LastMonth, short_year : 0 .. LastYear]

DateInit == date \in [day : {0}, month : {0}, short_year : 0 .. LastYear]

\* Every day and month of a year in turn.
NextDay ==
    /\ date.day < LastDay
    /\ date' = [date EXCEPT !.day = @ + 1]

NextMonth ==
    /\ date.day = LastDay
    /\ date' = [date EXCEPT !.day = 0, !.month = (@ + 1) % (LastMonth + 1)]

DateNext == NextDay \/ NextMonth

DateSpec == DateInit /\ [][DateNext]_dateVars

-------------------------------------------------------------------------------
month_days == <<31, 28, 31, 30, 31, 30, 31, 31, 30, 31, 30, 31>>

\* Faulty variant: no century is a leap year.
NoCentury(year) == year % 4 = 0 /\ year % 100 # 0
leap_year(year) == year % 4 = 0 /\ (year % 100 # 0 \/ year % 400 = 0)

Month(month, year) == month_days[month] + (IF month = 2 /\ leap_year(year) THEN 1 ELSE 0)

\* The days of the years from 1970 and of the months before.
YearsBefore(year) ==
    LET days[y \in 1970 .. year] ==
            IF y = 1970 THEN 0 ELSE days[y - 1] + 365 + (IF leap_year(y - 1) THEN 1 ELSE 0)
    IN days[year]
MonthsBefore(month, year) ==
    LET days[m \in 1 .. month] == IF m = 1 THEN 0 ELSE days[m - 1] + Month(m - 1, year)
    IN days[month]

Refused == -1

parse_utc(d) ==
    LET year == 2000 + d.short_year
        valid == /\ d.short_year >= 20 /\ d.month \in 1 .. 12
                 /\ d.day \in 1 .. Month(d.month, year)
    IN  IF valid THEN d.day - 1 + YearsBefore(year) + MonthsBefore(d.month, year)
        ELSE Refused

-------------------------------------------------------------------------------
(* Correctness *)

\* The Gregorian calendar in closed form: years begin in March, so that the leap day is
\* the last one, and 400 years have 146097 days.
DayNumber(day, month, year) ==
    LET y == IF month =< 2 THEN year - 1 ELSE year
        of_era == y % 400
        of_year == (153 * ((month + 9) % 12) + 2) \div 5 + day - 1
    IN  (y \div 400) * 146097 + of_era * 365 + of_era \div 4 - of_era \div 100
            + of_year - 719468

\* A day is one of its month when it comes before the first of the next.
Exists(d) ==
    LET year == 2000 + d.short_year IN
    /\ d.month \in 1 .. 12 /\ d.day > 0
    /\ DayNumber(d.day, d.month, year) <
        IF d.month = 12 THEN DayNumber(1, 1, year + 1) ELSE DayNumber(1, d.month + 1, year)

\* parse_utc takes exactly the dates that exist since 2020, and numbers them from 1970 by
\* the Gregorian calendar; 29 February is a date in leap years only.
DatesAreRight ==
    date \in Fields /\
    parse_utc(date) = IF date.short_year >= 20 /\ Exists(date)
                      THEN DayNumber(date.day, date.month, 2000 + date.short_year)
                      ELSE Refused
===============================================================================
