------------------------------ MODULE DateTime ------------------------------
(***************************************************************************)
(* The date library, src/DatabaseConnector/DateTime.cpp, which nothing in  *)
(* the repository calls yet: dates and durations whose fields are kept in  *)
(* range by carrying into the next larger field.                           *)
(*                                                                         *)
(* The operators are the methods; the actions are calls of add and         *)
(* subtract, one after the other on the same date, beside a clock that     *)
(* counts days and milliseconds.  Years stay between 1 and MaxYear: beyond *)
(* them the code wraps around, which is not modelled.                      *)
(***************************************************************************)
EXTENDS Integers, Sequences

CONSTANTS
  Starts,    (* the dates that are calculated with                         *)
  Amounts,   (* how much is added or subtracted at a time                  *)
  MaxSteps   (* bound: calls in a row                                      *)

VARIABLES
  start,  (* a date                                                        *)
  now,    (* what the calls have made of it                                *)
  clock,  (* the instant it should be at, counted independently            *)
  steps

vars == <<start, now, clock, steps>>

MsPerMinute == 60 * 1000
MsPerHour == 60 * MsPerMinute
MsPerDay == 24 * MsPerHour

(* Bounds, for which no unsigned int of the code overflows.                *)
MaxYear == 2147483647
MaxAmount == 2147483647
-----------------------------------------------------------------------------
MonthLengths == <<31, 28, 31, 30, 31, 30, 31, 31, 30, 31, 30, 31>>

(* Mutant: every hundredth year is a leap year as well.                    *)
IsLeapYearJulian(y) == y % 4 = 0

IsLeapYear(y) == (y % 4 = 0 /\ y % 100 # 0) \/ y % 400 = 0

DaysInYear(y) == IF IsLeapYear(y) THEN 366 ELSE 365

DaysInMonth(y, m) == MonthLengths[m] + (IF m = 2 /\ IsLeapYear(y) THEN 1 ELSE 0)

ValidDate(y, m, d) == y # 0 /\ m \in 1 .. 12 /\ d # 0 /\ d <= DaysInMonth(y, m)

(* What the constructor accepts.                                           *)
Date ==
  {t \in [year : Nat, month : 1 .. 12, day : 1 .. 31, hour : 0 .. 23,
          minute : 0 .. 59, second : 0 .. 59, millisecond : 0 .. 999] :
     ValidDate(t.year, t.month, t.day)}

ASSUME DateAssumption == Starts \subseteq Date /\ Amounts \subseteq 0 .. MaxAmount

(* How many days of the year are over when month m begins.                 *)
DaysBefore(y, m) ==
  LET sum[k \in 1 .. 12] == IF k = 1 THEN 0 ELSE sum[k - 1] + DaysInMonth(y, k - 1)
  IN  sum[m]

GetDayOfYear(y, m, d) == DaysBefore(y, m) + d

(* The first month whose days reach the day; December takes the rest.      *)
GetReverseDayOfYear(y, n) ==
  LET m == CHOOSE k \in 1 .. 12 :
             /\ n > DaysBefore(y, k) \/ k = 1
             /\ k = 12 \/ n <= DaysBefore(y, k) + DaysInMonth(y, k)
  IN  <<m, n - DaysBefore(y, m)>>

DayOfYear(t) == GetDayOfYear(t.year, t.month, t.day)

(* The setters.  A date that does not exist in the new year becomes the    *)
(* first of January, a day that does not exist in the new month its first. *)
SetYear(t, y) ==
  IF ValidDate(y, t.month, t.day) THEN [t EXCEPT !.year = y]
  ELSE [t EXCEPT !.year = y, !.month = 1, !.day = 1]

SetMonth(t, m) ==
  [t EXCEPT !.month = m, !.day = IF @ > DaysInMonth(t.year, m) THEN 1 ELSE @]

SetDayOfYear(t, n) ==
  LET date == GetReverseDayOfYear(t.year, n) IN
    [SetMonth(t, date[1]) EXCEPT !.day = date[2]]
-----------------------------------------------------------------------------
(* How many days the years from y on have together, up to year z.          *)
DaysOf(y, z) ==
  LET sum[k \in y .. z] == IF k = y THEN 0 ELSE sum[k - 1] + DaysInYear(k - 1)
  IN  sum[z]

(* subtractDays and addDays count whole years off, until what is left of   *)
(* the days falls into the year.                                           *)
BackTo(y, day, n) ==
  LET z == CHOOSE k \in y - n \div 365 - 1 .. y :
             n < day + DaysOf(k, y) /\ day + DaysOf(k, y) <= n + DaysInYear(k)
  IN  <<z, day + DaysOf(z, y) - n>>

OnTo(y, day) ==
  LET z == CHOOSE k \in y .. y + day \div 365 :
             DaysOf(y, k) < day /\ day <= DaysOf(y, k) + DaysInYear(k)
  IN  <<z, day - DaysOf(y, z)>>

SubtractDays(t, n) ==
  LET to == BackTo(t.year, DayOfYear(t), n) IN SetDayOfYear(SetYear(t, to[1]), to[2])

AddDays(t, n) ==
  LET to == OnTo(t.year, DayOfYear(t) + n) IN SetDayOfYear(SetYear(t, to[1]), to[2])

(* A smaller field: what exceeds it is added to or subtracted from the     *)
(* next larger one, unless it is nothing.                                  *)
Added(t, n, field, base, Carry(_, _)) ==
  LET sum == t[field] + (n % base)
      carry == n \div base + (IF sum >= base THEN 1 ELSE 0)
  IN  [(IF carry > 0 THEN Carry(t, carry) ELSE t) EXCEPT ![field] = sum % base]

Subtracted(t, n, field, base, Carry(_, _)) ==
  LET rest == n % base
      borrow == rest > t[field]
      carry == n \div base + (IF borrow THEN 1 ELSE 0)
  IN  [(IF carry > 0 THEN Carry(t, carry) ELSE t) EXCEPT ![field] =
         IF borrow THEN base - (rest - t[field]) ELSE t[field] - rest]

AddHours(t, n) == Added(t, n, "hour", 24, AddDays)
AddMinutes(t, n) == Added(t, n, "minute", 60, AddHours)
AddSeconds(t, n) == Added(t, n, "second", 60, AddMinutes)
AddMilliseconds(t, n) == Added(t, n, "millisecond", 1000, AddSeconds)

SubtractHours(t, n) == Subtracted(t, n, "hour", 24, SubtractDays)
SubtractMinutes(t, n) == Subtracted(t, n, "minute", 60, SubtractHours)
SubtractSeconds(t, n) == Subtracted(t, n, "second", 60, SubtractMinutes)
SubtractMilliseconds(t, n) == Subtracted(t, n, "millisecond", 1000, SubtractSeconds)
-----------------------------------------------------------------------------
(* A duration carries what is too much for a field into the larger one.    *)
Duration(days, hours, minutes, seconds, ms, negative) ==
  LET s == seconds + ms \div 1000
      m == minutes + s \div 60
      h == hours + m \div 60
  IN  [days |-> days + h \div 24, hours |-> h % 24, minutes |-> m % 60,
       seconds |-> s % 60, ms |-> ms % 1000, negative |-> negative]

Add(t, dur) ==
  IF dur.negative
    THEN SubtractDays(SubtractHours(SubtractMinutes(SubtractSeconds(
           SubtractMilliseconds(t, dur.ms), dur.seconds), dur.minutes),
           dur.hours), dur.days)
    ELSE AddDays(AddHours(AddMinutes(AddSeconds(
           AddMilliseconds(t, dur.ms), dur.seconds), dur.minutes),
           dur.hours), dur.days)

Subtract(t, dur) == Add(t, [dur EXCEPT !.negative = ~@])

(* compare: the first field, from the year on, that differs decides.       *)
InOrder == <<"year", "month", "day", "hour", "minute", "second", "millisecond">>

(* Mutant: the day is looked at before the month.                          *)
CompareDayFirst(s, t) ==
  LET order == <<"year", "day", "month", "hour", "minute", "second", "millisecond">>
      differ == {i \in 1 .. 7 : s[order[i]] # t[order[i]]}
      first == CHOOSE i \in differ : \A j \in differ : i <= j
  IN  IF differ = {} THEN 0 ELSE IF s[order[first]] < t[order[first]] THEN -1 ELSE 1

Compare(s, t) ==
  LET differ == {i \in 1 .. 7 : s[InOrder[i]] # t[InOrder[i]]}
      first == CHOOSE i \in differ : \A j \in differ : i <= j
  IN  IF differ = {} THEN 0
      ELSE IF s[InOrder[first]] < t[InOrder[first]] THEN -1 ELSE 1

MsOfDay(t) ==
  t.hour * MsPerHour + t.minute * MsPerMinute + t.second * 1000 + t.millisecond

(* Mutant: a last day that is not full is counted.                         *)
StopSameDay(t, rhs) == rhs

(* timeBetween stops a day after rhs when rhs is later in its day.         *)
Stop(t, rhs) == IF MsOfDay(rhs) > MsOfDay(t) THEN AddDays(rhs, 1) ELSE rhs

(* The days timeBetween counts: whole years down to the year it stops in,  *)
(* then days, for which it begins at the day of the year of t again.       *)
YearsDown(t, stop) ==
  IF t.year > stop.year THEN DayOfYear(t) + DaysOf(stop.year + 1, t.year) ELSE 0

DaysDown(t, stop) ==
  IF DayOfYear(t) > DayOfYear(stop) THEN DayOfYear(t) - DayOfYear(stop) ELSE 0

(* timeBetween for a t that is later than rhs.                             *)
Elapsed(t, rhs) ==
  Duration(YearsDown(t, Stop(t, rhs)) + DaysDown(t, Stop(t, rhs)),
           0, 0, 0, (MsOfDay(t) - MsOfDay(rhs)) % MsPerDay, FALSE)

TimeBetween(t, rhs) ==
  IF Compare(rhs, t) = 0 THEN Duration(0, 0, 0, 0, 0, FALSE)
  ELSE IF Compare(rhs, t) = 1 THEN [Elapsed(rhs, t) EXCEPT !.negative = TRUE]
  ELSE Elapsed(t, rhs)
-----------------------------------------------------------------------------
(* The reference: the days since the first of January of year 1, and the   *)
(* milliseconds of the day.                                                *)
Instant(t) ==
  LET y == t.year - 1
      leap == IF IsLeapYear(t.year) THEN 1 ELSE 0
      gap == IF t.month <= 2 THEN 0 ELSE 2 - leap
  IN  [days |-> 365 * y + y \div 4 - y \div 100 + y \div 400
                  + (367 * t.month - 362) \div 12 - gap + t.day,
       ms |-> MsOfDay(t)]

Shifted(i, days, ms) ==
  [days |-> i.days + days + (i.ms + ms) \div MsPerDay,
   ms |-> (i.ms + ms) % MsPerDay]

Before(i, j) == i.days < j.days \/ (i.days = j.days /\ i.ms < j.ms)

Init ==
  /\ start \in Starts
  /\ now = start
  /\ clock = Instant(start)
  /\ steps = 0

(* A call that keeps the year in its bounds.                               *)
Call(date, days, ms) ==
  /\ steps < MaxSteps
  /\ Shifted(clock, days, ms).days >= 1
  /\ date.year <= MaxYear
  /\ steps' = steps + 1
  /\ now' = date
  /\ clock' = Shifted(clock, days, ms)
  /\ UNCHANGED start

Days(n) == Call(AddDays(now, n), n, 0) \/ Call(SubtractDays(now, n), -n, 0)

Hours(n) ==
  \/ Call(AddHours(now, n), n \div 24, (n % 24) * MsPerHour)
  \/ Call(SubtractHours(now, n), -(n \div 24), -(n % 24) * MsPerHour)

Milliseconds(n) ==
  \/ Call(AddMilliseconds(now, n), 0, n)
  \/ Call(SubtractMilliseconds(now, n), 0, -n)

(* add and subtract of a duration of n of every unit, as constructed.      *)
Everything(n) ==
  LET dur == Duration(n, n, n, n, n, FALSE)
      days == n + n \div 24
      ms == (n % 24) * MsPerHour + n * (MsPerMinute + 1001)
  IN  Call(Add(now, dur), days, ms) \/ Call(Subtract(now, dur), -days, -ms)

Next == \E n \in Amounts : Days(n) \/ Hours(n) \/ Milliseconds(n) \/ Everything(n)

Spec == Init /\ [][Next]_vars
-----------------------------------------------------------------------------
(* However additions and subtractions of all units follow each other, over *)
(* the ends of months and years, leap days and the years without one: the  *)
(* date is one that exists, with every field in its range, and is as many  *)
(* days and milliseconds from the start as the calls say.                  *)
KeepsTime == now \in Date /\ Instant(now) = clock

(* compare, on which the six operators rest, orders dates by time.         *)
OrderAgrees ==
  Compare(now, start) =
    IF Before(clock, Instant(start)) THEN -1
    ELSE IF Before(Instant(start), clock) THEN 1 ELSE 0

(* timeBetween and add agree within a year: what lies between two dates    *)
(* leads from the one to the other, in both directions.  (Across the end   *)
(* of a year the days of the last year are counted wrongly.)               *)
BetweenInYear ==
  now.year = start.year =>
    /\ Add(start, TimeBetween(now, start)) = now
    /\ Subtract(now, TimeBetween(now, start)) = start
=============================================================================
