----------------------------- MODULE S7DateTime -----------------------------
(***************************************************************************)
(* Date and time in a report block (src/src/report/cache.rs,               *)
(* extract_s7_datetime): six BCD bytes, year since 2000 to second, as time *)
(* since 1970-01-01.  The time is a pair of days and seconds: in           *)
(* milliseconds it exceeds the integers of the model checker.              *)
(***************************************************************************)
EXTENDS Integers, FiniteSets, Sequences

CONSTANT None    \* no time

ASSUME NoneAssumption == None \notin Nat

BcdToU8(b) == (b \div 16) * 10 + (b % 16)

IsLeapYear(y) == (y % 4 = 0 /\ y % 100 # 0) \/ y % 400 = 0

DaysInMonths == <<31, 28, 31, 30, 31, 30, 31, 31, 30, 31, 30, 31>>

\* The days of the months before month m.
DaysBeforeMonth == [m \in 1..12 |->
    LET upTo[n \in 0..11] == IF n = 0 THEN 0 ELSE upTo[n - 1] + DaysInMonths[n]
    IN  upTo[m - 1]]

\* The loop over the years before y: 365 days each, and one for a leap year.
DaysBeforeYear(y) ==
    (y - 1970) * 365 + Cardinality({x \in 1970..(y - 1) : IsLeapYear(x)})

\* Mutant: the leap day belongs to February, whatever the month.
DaysWithLateLeap(y, m, d) ==
    IF m \notin 1..12 \/ d \notin 1..31 THEN None
    ELSE DaysBeforeYear(y) + DaysBeforeMonth[m]
         + (IF m >= 2 /\ IsLeapYear(y) THEN 1 ELSE 0) + d - 1

\* A day up to 31 is taken in any month.
DaysSinceEpoch(y, m, d) ==
    IF m \notin 1..12 \/ d \notin 1..31 THEN None
    ELSE DaysBeforeYear(y) + DaysBeforeMonth[m]
         + (IF m > 2 /\ IsLeapYear(y) THEN 1 ELSE 0) + d - 1

\* The bytes from the offset on; None when there are too few or the date is none.
ExtractS7DateTime(data, offset) ==
    LET at(i) == BcdToU8(data[offset + i])
        days  == DaysSinceEpoch(2000 + at(1), at(2), at(3))
    IN  IF Len(data) < offset + 8 \/ days = None THEN None
        ELSE [days |-> days, seconds |-> at(4) * 3600 + at(5) * 60 + at(6)]
=============================================================================
